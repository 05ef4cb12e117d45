----------------------- MODULE FindingPipelineProofs -----------------------
(***************************************************************************)
(* The report of a scan, for any keys, projects, places, findings of other *)
(* stages, gates and sequences of edits: the gate sees what absorption     *)
(* hides, no sighting of a key is lost on its way to the report, chains    *)
(* are witnessed, and moved files bring no accepted finding back.          *)
(*                                                                         *)
(* NothingLost speaks of the last stage.  StageInv says what each earlier  *)
(* stage has kept: that coalescing twice, once among classified keys and   *)
(* once among all findings, names a sighting as coalescing once would, and *)
(* that a chain holds the locations of the key finding it may absorb.      *)
(***************************************************************************)
EXTENDS FindingPipeline, TLAPS

Seen == {Single(o) : o \in occurrences}
Classified == {Single(o) : o \in {u \in occurrences : Class[u.key] \in Supabase}}
Generic == {Single(o) : o \in {u \in occurrences : Class[u.key] \notin Supabase}}

\* What Gather leaves, with the facts that were found.
Gathered(D) == Coalesced(Classified) \cup Generic \cup {FactFinding(d) : d \in D}

\* The facts that a scan of a repository finds, by what is in it.
FoundIn(os, ds) ==
    {d \in ds : About[d].source = "tier0" =>
        \E o \in os : Class[o.key] = "public" /\ o.project = About[d].project}

\* Each occurrence is a location of the finding it is reported under.
Sighted(fs) ==
    \A o \in occurrences : \E f \in fs : f.id = ReportId(o) /\ o.place \in f.places

SightedUnlessKnown(fs) ==
    \A o \in occurrences :
        \/ ReportId(o) \in baseline
        \/ \E f \in fs : f.id = ReportId(o) /\ o.place \in f.places

\* A chain has every location of a key finding it is made of.
ChainsKeepPlaces(fs) ==
    \A f, g \in fs :
        /\ IsKey(f)
        /\ g.id.kind = "exposed-public-key-chain"
        /\ f.id \in g.id.of
        => f.places \subseteq g.places

StageInv ==
    /\ occurrences \subseteq Occurrences
    /\ facts \subseteq Facts
    /\ stage \in Stages
    /\ stage = "classified" => findings = Coalesced(Classified)
    /\ stage = "gathered" => findings = Gathered(FoundIn(occurrences, facts))
    /\ stage = "correlated" => Sighted(findings) /\ ChainsKeepPlaces(findings)
    /\ stage = "suppressed" =>
         SightedUnlessKnown(findings) /\ ChainsKeepPlaces(findings)
    /\ NothingLost

-----------------------------------------------------------------------------
(***************************************************************************)
(* The gate.                                                               *)
(***************************************************************************)
\* Absorption hides a finding only behind a chain, and a chain meets any gate.
LEMMA GateOverAbsorption ==
  ASSUME NEW fs, gate \in Gates
  PROVE  ExitCode(Absorbed(fs)) = 1 <=> \E f \in fs : Severity(f) >= gate
  <1>1. gate \in Severities
    BY FactsAssumption
  <1>2. ASSUME NEW f \in fs, Severity(f) >= gate
        PROVE  \E h \in Absorbed(fs) : Severity(h) >= gate
    <2>1. CASE f \in Absorbed(fs)
      BY <1>2, <2>1
    <2>2. CASE f \notin Absorbed(fs)
      <3>1. PICK h \in fs : h.id.kind = "exposed-public-key-chain"
        BY <2>2 DEF Absorbed, AbsorbedIds
      <3>2. h \in Absorbed(fs)
        BY <3>1 DEF Absorbed, IsComposite, Rules
      <3>3. Severity(h) = Critical
        BY <3>1 DEF Severity, IsKey, IsFact
      <3> QED
        BY <1>1, <3>2, <3>3, SMT DEF Severities, Critical, Info
    <2> QED
      BY <2>1, <2>2
  <1> QED
    BY <1>2 DEF ExitCode, Absorbed

\* The gate of a scan is one of the gates considered.
LEMMA GateInv == Spec => [](gate \in Gates)
  <1>1. Init => gate \in Gates
    BY DEF Init
  <1>2. gate \in Gates /\ [Next]_vars => (gate \in Gates)'
    BY DEF Next, vars, Classify, Gather, Correlate, Suppress, Report, SaveReport,
       SaveList, SaveBaseline, Rescan, Edit
  <1> QED
    BY <1>1, <1>2, PTL DEF Spec

\* The exit code is 1 exactly if some finding that the baseline does not name
\* meets the gate, whether or not a chain absorbed it.
THEOREM GateIsRight == Spec => GateSeesAll
  <1>1. ASSUME gate \in Gates, Next, stage' = "reported"
        PROVE  exit' = 1 <=> \E f \in findings : Severity(f) >= gate
    <2>1. Report
      BY <1>1 DEF Next, Classify, Gather, Correlate, Suppress, SaveReport,
         SaveList, SaveBaseline, Rescan, Edit
    <2> QED
      BY <1>1, <2>1, GateOverAbsorption DEF Report
  <1>2. gate \in Gates /\ [Next]_vars =>
          [stage' = "reported" =>
            (exit' = 1 <=> \E f \in findings : Severity(f) >= gate)]_vars
    BY <1>1
  <1> QED
    BY <1>2, GateInv, PTL DEF Spec, GateSeesAll

-----------------------------------------------------------------------------
(***************************************************************************)
(* Coalescing.                                                             *)
(***************************************************************************)
\* The project a finding ends up with depends on what is known of its key.
LEMMA AdoptedBy ==
  ASSUME NEW fs, NEW gs, NEW k, NEW p, KnownProjects(fs, k) = KnownProjects(gs, k)
  PROVE  Adopted(fs, k, p) = Adopted(gs, k, p)
  BY DEF Adopted

\* The project a key finding ends with, case by case.
LEMMA AdoptedCases ==
  ASSUME NEW fs, NEW k, NEW p
  PROVE  /\ p # NoProject => Adopted(fs, k, p) = p
         /\ \A q \in Projects :
              p = NoProject /\ KnownProjects(fs, k) = {q} => Adopted(fs, k, p) = q
         /\ p = NoProject /\ ~(\E q \in Projects : KnownProjects(fs, k) = {q})
              => Adopted(fs, k, p) = NoProject
  BY DEF Adopted

\* Adopting does not change what is known of a key, and is idempotent.
LEMMA AdoptedTwice ==
  ASSUME NEW fs, NEW gs, NEW k, NEW p, KnownProjects(gs, k) = KnownProjects(fs, k)
  PROVE  Adopted(gs, k, Adopted(fs, k, p)) = Adopted(fs, k, p)
  <1>1. Adopted(gs, k, Adopted(fs, k, p)) = Adopted(fs, k, Adopted(fs, k, p))
    BY AdoptedBy
  <1>2. CASE p # NoProject
    BY <1>1, <1>2, AdoptedCases
  <1>3. CASE p = NoProject /\ \E q \in Projects : KnownProjects(fs, k) = {q}
    <2>1. PICK q \in Projects : KnownProjects(fs, k) = {q}
      BY <1>3
    <2>2. Adopted(fs, k, p) = q /\ q # NoProject
      BY <1>3, <2>1, AdoptedCases, KeysAssumption
    <2> QED
      BY <1>1, <2>2, AdoptedCases
  <1>4. CASE p = NoProject /\ ~(\E q \in Projects : KnownProjects(fs, k) = {q})
    BY <1>1, <1>4, AdoptedCases
  <1> QED
    BY <1>2, <1>3, <1>4

\* A key finding is a location of the group it joins.
LEMMA CoalescedCovers ==
  ASSUME NEW fs, NEW f \in fs, IsKey(f)
  PROVE  \E g \in Coalesced(fs) : g.id = GroupId(fs, f) /\ f.places \subseteq g.places
  <1> DEFINE g == [id |-> GroupId(fs, f), places |-> MergedPlaces(fs, GroupId(fs, f))]
  <1>1. g \in Coalesced(fs)
    BY DEF Coalesced
  <1>2. f.places \subseteq g.places
    BY DEF MergedPlaces
  <1> QED
    BY <1>1, <1>2

\* A coalesced key finding has its group's id and locations.
LEMMA CoalescedKeys ==
  ASSUME NEW fs, NEW g \in Coalesced(fs), IsKey(g)
  PROVE  /\ g.places = MergedPlaces(fs, g.id)
         /\ \E f \in fs : IsKey(f) /\ g.id = GroupId(fs, f)
  BY DEF Coalesced

\* Only the keys of public and elevated class come with a project.
LEMMA ProjectsAreSupabase ==
  ASSUME occurrences \subseteq Occurrences, NEW o \in occurrences
  PROVE  /\ o.key \in Keys
         /\ Class[o.key] \notin Supabase => o.project = NoProject
  BY KeysAssumption, SMT DEF Supabase

\* The classified keys know the projects of all keys that have one.
LEMMA ClassifiedKnow ==
  ASSUME NEW k, Class[k] \in Supabase
  PROVE  KnownProjects(Classified, k) = KnownProjects(Seen, k)
  BY DEF KnownProjects, Classified, Seen, Single, IsKey, KeyId

\* What is known of a key is the same before coalescing and after Gather.
LEMMA GatheredKnow ==
  ASSUME occurrences \subseteq Occurrences, NEW D \in SUBSET Facts, NEW k
  PROVE  KnownProjects(Gathered(D), k) = KnownProjects(Seen, k)
  <1>1. CASE Class[k] \in Supabase
    <2> DEFINE known == KnownProjects(Classified, k)
    <2>1. ASSUME NEW f \in Gathered(D), IsKey(f), f.id.key = k,
                 f.id.project # NoProject
          PROVE  f.id.project \in known
      <3>1. f \in Coalesced(Classified)
        BY <1>1, <2>1 DEF Gathered, Generic, Single, FactFinding, IsKey, KeyId, FactId
      <3>2. PICK g \in Classified : IsKey(g) /\ f.id = GroupId(Classified, g)
        BY <2>1, <3>1, CoalescedKeys
      <3>3. g.id.key = k /\ f.id.project = Adopted(Classified, k, g.id.project)
        BY <2>1, <3>2 DEF GroupId, KeyId
      <3>4. CASE g.id.project # NoProject
        BY <3>2, <3>3, <3>4, AdoptedCases DEF KnownProjects
      <3>5. CASE g.id.project = NoProject
        BY <2>1, <3>3, <3>5, AdoptedCases
      <3> QED
        BY <3>4, <3>5
    <2>2. ASSUME NEW f \in Classified, IsKey(f), f.id.key = k,
                 f.id.project # NoProject
          PROVE  \E g \in Gathered(D) :
                   IsKey(g) /\ g.id.key = k /\ g.id.project = f.id.project
      <3>1. GroupId(Classified, f) = KeyId(k, f.id.project)
        BY <2>2, AdoptedCases DEF GroupId
      <3> QED
        BY <2>2, <3>1, CoalescedCovers DEF Gathered, IsKey, KeyId
    <2>3. KnownProjects(Gathered(D), k) = known
      BY <2>1, <2>2 DEF KnownProjects
    <2> QED
      BY <1>1, <2>3, ClassifiedKnow
  <1>2. CASE Class[k] \notin Supabase
    <2>1. ASSUME NEW f \in Gathered(D), IsKey(f), f.id.key = k
          PROVE  f.id.project = NoProject
      <3>1. CASE f \in Coalesced(Classified)
        <4>1. PICK g \in Classified : IsKey(g) /\ f.id = GroupId(Classified, g)
          BY <2>1, <3>1, CoalescedKeys
        <4>2. g.id.key = k /\ Class[g.id.key] \in Supabase
          BY <2>1, <4>1 DEF GroupId, KeyId, Classified, Single
        <4> QED
          BY <1>2, <4>2
      <3>2. CASE f \in Generic
        BY <3>2, ProjectsAreSupabase DEF Generic, Single, KeyId
      <3> QED
        BY <2>1, <3>1, <3>2 DEF Gathered, FactFinding, IsKey, FactId
    <2>2. ASSUME NEW f \in Seen, f.id.key = k
          PROVE  f.id.project = NoProject
      BY <1>2, <2>2, ProjectsAreSupabase DEF Seen, Single, KeyId
    <2> QED
      BY <2>1, <2>2 DEF KnownProjects
  <1> QED
    BY <1>1, <1>2

\* Coalescing what Gather left reports each occurrence.
LEMMA CoalescedSights ==
  ASSUME occurrences \subseteq Occurrences, NEW D \in SUBSET Facts
  PROVE  Sighted(Coalesced(Gathered(D)))
  <1> SUFFICES ASSUME NEW o \in occurrences
               PROVE  \E g \in Coalesced(Gathered(D)) :
                        g.id = ReportId(o) /\ o.place \in g.places
    BY DEF Sighted
  <1> DEFINE k == o.key
  <1>1. IsKey(Single(o)) /\ Single(o).places = {o.place}
        /\ Single(o).id.key = k /\ Single(o).id.project = o.project
    BY DEF Single, IsKey, KeyId
  <1>2. ReportId(o) = KeyId(k, Adopted(Seen, k, o.project))
    BY DEF ReportId, Seen
  <1>3. KnownProjects(Gathered(D), k) = KnownProjects(Seen, k)
    BY GatheredKnow
  <1>4. CASE Class[k] \in Supabase
    <2>1. Single(o) \in Classified
      BY <1>4 DEF Classified
    <2>2. PICK f \in Coalesced(Classified) :
            f.id = GroupId(Classified, Single(o)) /\ o.place \in f.places
      BY <1>1, <2>1, CoalescedCovers
    <2>3. f.id = KeyId(k, Adopted(Classified, k, o.project))
      BY <1>1, <2>2 DEF GroupId
    <2>4. f \in Gathered(D) /\ IsKey(f)
      BY <2>2, <2>3 DEF Gathered, IsKey, KeyId
    <2>5. PICK g \in Coalesced(Gathered(D)) :
            g.id = GroupId(Gathered(D), f) /\ o.place \in g.places
      BY <2>2, <2>4, CoalescedCovers
    <2>6. f.id.key = k /\ f.id.project = Adopted(Classified, k, o.project)
      BY <2>3 DEF KeyId
    <2>7. KnownProjects(Classified, k) = KnownProjects(Seen, k)
      BY <1>4, ClassifiedKnow
    <2>8. GroupId(Gathered(D), f) = ReportId(o)
      BY <1>2, <1>3, <2>6, <2>7, AdoptedTwice, AdoptedBy DEF GroupId
    <2> QED
      BY <2>5, <2>8
  <1>5. CASE Class[k] \notin Supabase
    <2>1. Single(o) \in Gathered(D)
      BY <1>5 DEF Gathered, Generic
    <2>2. GroupId(Gathered(D), Single(o)) = ReportId(o)
      BY <1>1, <1>2, <1>3, AdoptedBy DEF GroupId
    <2> QED
      BY <1>1, <2>1, <2>2, CoalescedCovers
  <1> QED
    BY <1>4, <1>5

-----------------------------------------------------------------------------
(***************************************************************************)
(* Correlation and absorption.                                             *)
(***************************************************************************)
\* Until correlation there are no composites.
LEMMA GatheredKinds ==
  ASSUME NEW D \in SUBSET Facts, NEW f \in Coalesced(Gathered(D))
  PROVE  f.id.kind \in {"key", "fact"}
  <1>1. ASSUME NEW fs, NEW g \in Coalesced(fs)
        PROVE  g.id.kind = "key" \/ g \in fs
    <2>1. CASE \E f1 \in fs : g.id = GroupId(fs, f1)
      BY <2>1 DEF GroupId, KeyId
    <2>2. CASE g \in fs
      BY <2>2
    <2> QED
      BY <2>1, <2>2 DEF Coalesced
  <1>2. ASSUME NEW g \in Gathered(D), g.id.kind # "key"
        PROVE  g.id.kind = "fact"
    <2>1. ASSUME NEW o
          PROVE  Single(o).id.kind = "key"
      BY DEF Single, KeyId
    <2>2. g \notin Generic /\ g \notin Classified
      BY <1>2, <2>1 DEF Generic, Classified
    <2> QED
      BY <1>1, <1>2, <2>2 DEF Gathered, FactFinding, FactId
  <1> QED
    BY <1>1, <1>2

\* Correlation adds composites only, and each has the locations of its links.
LEMMA ChainsHavePlaces ==
  ASSUME NEW fs, \A f \in Coalesced(fs) : f.id.kind \in {"key", "fact"}
  PROVE  ChainsKeepPlaces(Correlated(Coalesced(fs)))
  <1> DEFINE cs == Coalesced(fs)
  <1> SUFFICES ASSUME NEW f \in Correlated(cs), NEW g \in Correlated(cs), IsKey(f),
                      g.id.kind = "exposed-public-key-chain", f.id \in g.id.of
               PROVE  f.places \subseteq g.places
    BY DEF ChainsKeepPlaces
  <1>1. f \in cs
    BY DEF Correlated, Chains, ElevatedChains, ChainId, ElevatedId, IsKey
  <1>2. g \in Chains(cs)
    BY DEF Correlated, ElevatedChains, ElevatedId
  <1>3. PICK l \in Links(cs) :
          /\ g.id = ChainId(l.key.id, l.rls.id)
          /\ g.places = l.key.places \cup l.rls.places
    BY <1>2 DEF Chains
  <1>4. l.key \in cs /\ IsKey(l.key) /\ IsFact(l.rls)
    BY DEF Links, IsPublicKey, IsReadable, IsRls
  <1>5. f.id = l.key.id
    BY <1>3, <1>4 DEF ChainId, IsKey, IsFact
  <1>6. f.places = l.key.places
    BY <1>1, <1>4, <1>5, CoalescedKeys
  <1> QED
    BY <1>3, <1>6

\* A key finding that is absorbed leaves its locations in the chain.
LEMMA AbsorbedSights ==
  ASSUME NEW fs, SightedUnlessKnown(fs), ChainsKeepPlaces(fs), NEW o \in occurrences
  PROVE  \/ ReportId(o) \in baseline
         \/ \E f \in Absorbed(fs) : Carries(f, ReportId(o)) /\ o.place \in f.places
  <1> SUFFICES ASSUME ReportId(o) \notin baseline
               PROVE  \E f \in Absorbed(fs) :
                        Carries(f, ReportId(o)) /\ o.place \in f.places
    OBVIOUS
  <1>1. PICK f \in fs : f.id = ReportId(o) /\ o.place \in f.places
    BY DEF SightedUnlessKnown
  <1>2. CASE f \in Absorbed(fs)
    BY <1>1, <1>2 DEF Carries
  <1>3. CASE f \notin Absorbed(fs)
    <2>1. PICK g \in fs : g.id.kind = "exposed-public-key-chain" /\ f.id \in g.id.of
      BY <1>3 DEF Absorbed, AbsorbedIds
    <2>2. g \in Absorbed(fs)
      BY <2>1 DEF Absorbed, IsComposite, Rules
    <2>3. IsKey(f)
      BY <1>1 DEF ReportId, KeyId, IsKey
    <2>4. o.place \in g.places
      BY <1>1, <2>1, <2>3 DEF ChainsKeepPlaces
    <2> QED
      BY <1>1, <2>1, <2>2, <2>4 DEF Carries
  <1> QED
    BY <1>2, <1>3

\* Tier 0 finds what the public keys of the repository lead to: coalescing
\* invents no project and forgets none.
LEMMA FoundByContents ==
  ASSUME occurrences \subseteq Occurrences, facts \subseteq Facts,
         findings = Coalesced(Classified)
  PROVE  {d \in facts : Found(d)} = FoundIn(occurrences, facts)
  <1> SUFFICES ASSUME NEW d \in facts, About[d].source = "tier0"
               PROVE  Found(d) <=> \E o \in occurrences :
                        Class[o.key] = "public" /\ o.project = About[d].project
    BY DEF FoundIn, Found
  <1> DEFINE q == About[d].project
  <1>1. q # NoProject
    BY FactsAssumption
  <1>2. ASSUME NEW o \in occurrences, Class[o.key] = "public", o.project = q
        PROVE  \E f \in findings : IsPublicKey(f) /\ ProjectOf(f) = q
    <2>1. Single(o) \in Classified /\ IsKey(Single(o))
          /\ Single(o).id.key = o.key /\ Single(o).id.project = q
      BY <1>2 DEF Classified, Supabase, Single, IsKey, KeyId
    <2>2. PICK f \in findings : f.id = GroupId(Classified, Single(o))
      BY <2>1, CoalescedCovers
    <2>3. f.id = KeyId(o.key, q)
      BY <1>1, <2>1, <2>2, AdoptedCases DEF GroupId
    <2> QED
      BY <1>2, <2>2, <2>3 DEF IsPublicKey, ProjectOf, IsKey, KeyId
  <1>3. ASSUME NEW f \in findings, IsPublicKey(f), ProjectOf(f) = q
        PROVE  \E o \in occurrences : Class[o.key] = "public" /\ o.project = q
    <2>1. IsKey(f) /\ Class[f.id.key] = "public" /\ f.id.project = q
      BY <1>3 DEF IsPublicKey, ProjectOf
    <2>2. PICK g \in Classified : IsKey(g) /\ f.id = GroupId(Classified, g)
      BY <2>1, CoalescedKeys
    <2>3. f.id.key = g.id.key /\ q = Adopted(Classified, g.id.key, g.id.project)
      BY <2>1, <2>2 DEF GroupId, KeyId
    <2>4. q = g.id.project \/ q \in KnownProjects(Classified, g.id.key)
      BY <1>1, <2>3, AdoptedCases
    <2>5. PICK h \in Classified : h.id.key = g.id.key /\ h.id.project = q
      BY <2>2, <2>4 DEF KnownProjects
    <2>6. PICK o \in occurrences : h = Single(o)
      BY <2>5 DEF Classified
    <2> QED
      BY <2>1, <2>3, <2>5, <2>6 DEF Single, KeyId
  <1> QED
    BY <1>2, <1>3 DEF Found

-----------------------------------------------------------------------------
(***************************************************************************)
(* StageInv, one stage after the other.                                    *)
(***************************************************************************)
LEMMA StageInit == Init => StageInv
  BY DEF Init, StageInv, NothingLost, Stages

\* Each stage of scan() hands the next one what it relies on.
LEMMA StageNext == StageInv /\ [Next]_vars => StageInv'
  <1> SUFFICES ASSUME StageInv, [Next]_vars PROVE StageInv'
    OBVIOUS
  <1>1. CASE Classify
    <2>1. findings' = Coalesced(Classified)
      BY <1>1 DEF Classify, Classified
    <2>2. findings' = Coalesced(Classified)'
      BY <1>1, <2>1 DEF Classify, Classified
    <2> QED
      BY <1>1, <2>2 DEF Classify, StageInv, Stages, NothingLost
  <1>2. CASE Gather
    <2>1. Coalesced(Classified)' = Coalesced(Classified) /\ Generic' = Generic
      BY <1>2 DEF Gather, Classified, Generic
    <2>2. {e \in facts : Found(e)} = FoundIn(occurrences, facts)
      BY <1>2, FoundByContents DEF Gather, StageInv
    <2>3. findings' = Gathered(FoundIn(occurrences, facts))
      BY <1>2, <2>2 DEF Gather, StageInv, Gathered, Generic
    <2>4. Gathered(FoundIn(occurrences, facts))' = Gathered(FoundIn(occurrences, facts))
      BY <1>2, <2>1 DEF Gather, Gathered, FoundIn
    <2> QED
      BY <1>2, <2>3, <2>4 DEF Gather, StageInv, Stages, NothingLost
  <1>3. CASE Correlate
    <2>1. PICK D \in SUBSET Facts : findings = Gathered(D)
      BY <1>3 DEF Correlate, StageInv, FoundIn
    <2>2. Sighted(Coalesced(findings))
      BY <2>1, CoalescedSights DEF StageInv
    <2>3. ChainsKeepPlaces(Correlated(Coalesced(findings)))
      BY <2>1, GatheredKinds, ChainsHavePlaces
    <2>4. Sighted(findings)' /\ ChainsKeepPlaces(findings)'
      BY <1>3, <2>2, <2>3 DEF Correlate, Correlated, Sighted, ReportId
    <2> QED
      BY <1>3, <2>4 DEF Correlate, StageInv, Stages, NothingLost
  <1>4. CASE Suppress
    <2>1. SightedUnlessKnown(Kept(findings)) /\ ChainsKeepPlaces(Kept(findings))
      BY <1>4 DEF Suppress, StageInv, Kept, Sighted, SightedUnlessKnown,
         ChainsKeepPlaces
    <2>2. SightedUnlessKnown(findings)' /\ ChainsKeepPlaces(findings)'
      BY <1>4, <2>1 DEF Suppress, SightedUnlessKnown, ReportId
    <2> QED
      BY <1>4, <2>2 DEF Suppress, StageInv, Stages, NothingLost
  <1>5. CASE Report
    <2>1. NothingLost'
      BY <1>5, AbsorbedSights DEF Report, StageInv, NothingLost, ReportId
    <2> QED
      BY <1>5, <2>1 DEF Report, StageInv, Stages
  <1>6. CASE SaveReport \/ SaveList \/ Rescan
    BY <1>6 DEF SaveReport, SaveList, SaveBaseline, Rescan, StageInv, Stages,
       NothingLost
  <1>7. CASE Edit
    <2>1. /\ occurrences' \subseteq Occurrences
          /\ facts' \subseteq Facts
      BY <1>7 DEF Edit, Toggled, StageInv
    <2> QED
      BY <1>7, <2>1 DEF Edit, StageInv, Stages, NothingLost
  <1>8. CASE UNCHANGED vars
    <2>1. /\ Coalesced(Classified)' = Coalesced(Classified)
          /\ Generic' = Generic
          /\ \A o : ReportId(o)' = ReportId(o)
      BY <1>8 DEF vars, Classified, Generic, ReportId
    <2> QED
      BY <1>8, <2>1 DEF vars, StageInv, NothingLost, Gathered, Sighted,
         SightedUnlessKnown, FoundIn
  <1> QED
    BY <1>1, <1>2, <1>3, <1>4, <1>5, <1>6, <1>7, <1>8 DEF Next

\* Every place where a key was seen is in the report, under the key or under
\* the chain that absorbed it, unless the baseline names the finding.
THEOREM NothingIsLost == Spec => []NothingLost
  <1>1. StageInv => NothingLost
    BY DEF StageInv
  <1> QED
    BY <1>1, StageInit, StageNext, PTL DEF Spec

-----------------------------------------------------------------------------
(***************************************************************************)
(* Types, and ids that name one finding each.                              *)
(***************************************************************************)
Typed(fs) == \A f \in fs : IsFinding(f)
Distinct(fs) == \A f, g \in fs : f.id = g.id => f = g

\* The candidates and facts of a repository become typed findings.
LEMMA SinglesTyped ==
  /\ \A o \in Occurrences : IsFinding(Single(o)) /\ IsKey(Single(o))
  /\ \A d \in Facts : IsFinding(FactFinding(d)) /\ ~IsKey(FactFinding(d))
  <1>1. ASSUME NEW o \in Occurrences
        PROVE  IsFinding(Single(o)) /\ IsKey(Single(o))
    <2>1. o.key \in Keys /\ o.project \in Projects \cup {NoProject} /\ o.place \in Places
      BY KeysAssumption
    <2> QED
      BY <2>1 DEF IsFinding, Single, IdsOfScan, IsKey, KeyId
  <1>2. ASSUME NEW d \in Facts
        PROVE  IsFinding(FactFinding(d)) /\ ~IsKey(FactFinding(d))
    BY DEF IsFinding, FactFinding, IdsOfScan, IsKey, FactId
  <1> QED
    BY <1>1, <1>2

\* The key of a typed key finding, and its project.
LEMMA KeyFields ==
  ASSUME NEW f, IsFinding(f), IsKey(f)
  PROVE  f.id.key \in Keys /\ f.id.project \in Projects \cup {NoProject}
  BY DEF IsFinding, IsKey, IdsOfScan, KeyId, FactId, Rules

\* Coalescing keeps types.
LEMMA CoalescedTyped ==
  ASSUME NEW fs, Typed(fs)
  PROVE  Typed(Coalesced(fs))
  <1> SUFFICES ASSUME NEW g \in Coalesced(fs) PROVE IsFinding(g)
    BY DEF Typed
  <1>1. CASE g \in fs
    BY <1>1 DEF Typed
  <1>2. CASE g \notin fs
    <2>1. PICK f \in fs : /\ IsKey(f) /\ g.id = GroupId(fs, f)
                          /\ g.places = MergedPlaces(fs, g.id)
      BY <1>2 DEF Coalesced
    <2>2. f.id.key \in Keys /\ f.id.project \in Projects \cup {NoProject}
      BY <2>1, KeyFields DEF Typed
    <2>3. Adopted(fs, f.id.key, f.id.project) \in Projects \cup {NoProject}
      BY <2>2, AdoptedCases
    <2>4. g.id \in IdsOfScan
      BY <2>1, <2>2, <2>3 DEF GroupId, IdsOfScan
    <2>5. g.places \subseteq Places
      BY <2>1 DEF MergedPlaces, Typed, IsFinding
    <2> QED
      BY <2>4, <2>5 DEF IsFinding
  <1> QED
    BY <1>1, <1>2

\* So does correlation, of findings that are no composites.
LEMMA CorrelatedTyped ==
  ASSUME NEW fs, Typed(fs), \A f \in fs : f.id.kind \in {"key", "fact"}
  PROVE  Typed(Correlated(fs))
  <1>1. Ids(fs) \subseteq IdsOfScan
    BY DEF Ids, Typed, IsFinding, Rules
  <1>2. ASSUME NEW f \in Chains(fs) PROVE IsFinding(f)
    <2>1. PICK l \in Links(fs) :
            f = [id |-> ChainId(l.key.id, l.rls.id), places |-> l.key.places \cup l.rls.places]
      BY <1>2 DEF Chains
    <2>2. l.key \in fs /\ l.rls \in fs
      BY DEF Links
    <2>3. {l.key.id, l.rls.id} \subseteq IdsOfScan
      BY <1>1, <2>2 DEF Ids
    <2> QED
      BY <2>1, <2>2, <2>3 DEF IsFinding, ChainId, Rules, Typed
  <1>3. ASSUME NEW f \in ElevatedChains(fs) PROVE IsFinding(f)
    <2>1. PICK k \in fs : f = [id |-> ElevatedId({k.id} \cup Ids(Mooted(fs, k))),
                               places |-> k.places]
      BY <1>3 DEF ElevatedChains
    <2>2. {k.id} \cup Ids(Mooted(fs, k)) \subseteq IdsOfScan
      BY <1>1 DEF Ids, Mooted
    <2> QED
      BY <2>1, <2>2 DEF IsFinding, ElevatedId, Rules, Typed
  <1> QED
    BY <1>2, <1>3 DEF Typed, Correlated

\* After coalescing a key id names one finding; other ids do if they did.
LEMMA CoalescedDistinct ==
  ASSUME NEW fs, \A f, g \in fs : ~IsKey(f) /\ f.id = g.id => f = g
  PROVE  Distinct(Coalesced(fs))
  <1> SUFFICES ASSUME NEW f \in Coalesced(fs), NEW g \in Coalesced(fs), f.id = g.id
               PROVE  f = g
    BY DEF Distinct
  <1> DEFINE Group(id) == [id |-> id, places |-> MergedPlaces(fs, id)]
  <1>1. ASSUME NEW h \in Coalesced(fs)
        PROVE  IF IsKey(h) THEN h = Group(h.id) ELSE h \in fs
    <2>1. CASE h \in fs /\ ~IsKey(h)
      BY <2>1
    <2>2. CASE \E e \in fs : IsKey(e) /\ h = Group(GroupId(fs, e))
      <3>1. PICK e \in fs : IsKey(e) /\ h = Group(GroupId(fs, e))
        BY <2>2
      <3>2. h.id = GroupId(fs, e)
        BY <3>1
      <3>3. IsKey(h)
        BY <3>2 DEF IsKey, GroupId, KeyId
      <3> QED
        BY <3>1, <3>2, <3>3
    <2> QED
      BY <2>1, <2>2 DEF Coalesced
  <1>2. IsKey(f) <=> IsKey(g)
    BY DEF IsKey
  <1> QED
    BY <1>1, <1>2

\* The finding of a key and that of a table determine their chain, and the
\* elevated key its composite.
LEMMA CorrelatedDistinct ==
  ASSUME NEW fs, Distinct(fs), \A f \in fs : f.id.kind \in {"key", "fact"}
  PROVE  Distinct(Correlated(fs))
  <1>1. ASSUME NEW f \in Chains(fs), NEW g \in Chains(fs), f.id = g.id
        PROVE  f = g
    <2>1. PICK l \in Links(fs) :
            f = [id |-> ChainId(l.key.id, l.rls.id), places |-> l.key.places \cup l.rls.places]
      BY DEF Chains
    <2>2. PICK m \in Links(fs) :
            g = [id |-> ChainId(m.key.id, m.rls.id), places |-> m.key.places \cup m.rls.places]
      BY DEF Chains
    <2>3. {l.key.id, l.rls.id} = {m.key.id, m.rls.id}
      BY <1>1, <2>1, <2>2 DEF ChainId
    <2>4. /\ l.key \in fs /\ l.rls \in fs /\ m.key \in fs /\ m.rls \in fs
          /\ IsKey(l.key) /\ IsKey(m.key) /\ ~IsKey(l.rls) /\ ~IsKey(m.rls)
      BY DEF Links, IsPublicKey, IsReadable, IsRls, IsFact, IsKey
    <2>5. l.key.id = m.key.id /\ l.rls.id = m.rls.id
      BY <2>3, <2>4 DEF IsKey
    <2> QED
      BY <2>1, <2>2, <2>4, <2>5 DEF Distinct
  <1>2. ASSUME NEW f \in ElevatedChains(fs), NEW g \in ElevatedChains(fs), f.id = g.id
        PROVE  f = g
    <2>1. PICK k \in fs :
            /\ IsKey(k)
            /\ f = [id |-> ElevatedId({k.id} \cup Ids(Mooted(fs, k))), places |-> k.places]
      BY DEF ElevatedChains, IsElevatedKey
    <2>2. PICK j \in fs :
            /\ IsKey(j)
            /\ g = [id |-> ElevatedId({j.id} \cup Ids(Mooted(fs, j))), places |-> j.places]
      BY DEF ElevatedChains, IsElevatedKey
    <2>3. {k.id} \cup Ids(Mooted(fs, k)) = {j.id} \cup Ids(Mooted(fs, j))
      BY <1>2, <2>1, <2>2 DEF ElevatedId
    <2>4. \A id \in Ids(Mooted(fs, j)) : id.kind = "fact"
      BY DEF Ids, Mooted, IsRls, IsFact
    <2>5. k.id = j.id
      BY <2>1, <2>3, <2>4 DEF IsKey
    <2> QED
      BY <2>1, <2>2, <2>3, <2>5 DEF Distinct
  <1>3. /\ \A f \in Chains(fs) : f.id.kind = "exposed-public-key-chain"
        /\ \A f \in ElevatedChains(fs) : f.id.kind = "elevated-key-in-tree"
    BY DEF Chains, ElevatedChains, ChainId, ElevatedId
  <1> QED
    BY <1>1, <1>2, <1>3 DEF Correlated, Distinct

\* What Gather leaves besides keys is facts.
LEMMA GatheredFacts ==
  ASSUME NEW D, NEW f \in Gathered(D), ~IsKey(f)
  PROVE  \E d \in D : f = FactFinding(d)
  <1>1. \A o : IsKey(Single(o))
    BY DEF Single, KeyId, IsKey
  <1>2. \A h : f.id # GroupId(Classified, h)
    BY DEF GroupId, KeyId, IsKey
  <1>3. f \notin Classified /\ f \notin Generic
    BY <1>1 DEF Classified, Generic
  <1> QED
    BY <1>2, <1>3 DEF Gathered, Coalesced

\* What Gather leaves is typed, and its facts are told apart by their ids.
LEMMA GatheredTyped ==
  ASSUME occurrences \subseteq Occurrences, NEW D \in SUBSET Facts
  PROVE  /\ Typed(Gathered(D))
         /\ \A f \in Gathered(D) : f.id.kind \in {"key", "fact"}
         /\ \A f, g \in Gathered(D) : ~IsKey(f) /\ f.id = g.id => f = g
  <1>1. Typed(Classified) /\ Typed(Generic)
    BY SinglesTyped DEF Typed, Classified, Generic
  <1>2. Typed(Gathered(D))
    BY <1>1, CoalescedTyped, SinglesTyped DEF Typed, Gathered
  <1>3. \A f \in Gathered(D) : ~IsKey(f) => \E d \in D : f = FactFinding(d)
    BY GatheredFacts
  <1>4. ASSUME NEW f \in Gathered(D), NEW g \in Gathered(D), ~IsKey(f), f.id = g.id
        PROVE  f = g
    <2>1. ~IsKey(g)
      BY <1>4 DEF IsKey
    <2>2. PICK d \in D, e \in D : f = FactFinding(d) /\ g = FactFinding(e)
      BY <1>3, <1>4, <2>1
    <2> QED
      BY <1>4, <2>2 DEF FactFinding, FactId
  <1>5. \A f \in Gathered(D) : f.id.kind \in {"key", "fact"}
    BY <1>3 DEF IsKey, FactFinding, FactId
  <1> QED
    BY <1>2, <1>4, <1>5

\* Among classified keys there is nothing else, coalesced or not.
LEMMA ClassifiedKeys ==
  ASSUME occurrences \subseteq Occurrences
  PROVE  /\ Typed(Coalesced(Classified))
         /\ Distinct(Coalesced(Classified))
         /\ \A f \in Coalesced(Classified) : f.id.kind = "key"
  <1>1. Typed(Classified) /\ \A f \in Classified : IsKey(f)
    BY SinglesTyped DEF Typed, Classified
  <1>2. ASSUME NEW f \in Coalesced(Classified)
        PROVE  f.id.kind = "key"
    <2>1. PICK g : f.id = GroupId(Classified, g)
      BY <1>1 DEF Coalesced
    <2> QED
      BY <2>1 DEF GroupId, KeyId
  <1> QED
    BY <1>1, <1>2, CoalescedTyped, CoalescedDistinct

\* What holds of the findings at every stage, besides StageInv.
ScanTypes ==
    /\ TypeOK
    /\ stage \in {"idle", "classified", "gathered"} =>
         \A f \in findings : f.id.kind \in {"key", "fact"}

LEMMA ScanTypesInit == Init => ScanTypes
  <1> SUFFICES ASSUME Init PROVE ScanTypes
    OBVIOUS
  <1>1. edits \in 0..MaxEdits
    BY FactsAssumption DEF Init
  <1> QED
    BY <1>1 DEF Init, ScanTypes, TypeOK, Stages, Never

\* Every step of scan() keeps the types, and ids unique once they may be
\* compared with a baseline.
LEMMA ScanTypesNext == StageInv /\ ScanTypes /\ [Next]_vars => ScanTypes'
  <1> SUFFICES ASSUME StageInv, ScanTypes, [Next]_vars PROVE ScanTypes'
    OBVIOUS
  <1> USE DEF ScanTypes
  <1>t. occurrences \subseteq Occurrences /\ FoundIn(occurrences, facts) \in SUBSET Facts
    BY DEF StageInv, FoundIn
  <1>1. CASE Classify
    <2>1. findings' = Coalesced(Classified)
      BY <1>1 DEF Classify, Classified
    <2>2. /\ Typed(findings') /\ Distinct(findings')
          /\ \A f \in findings' : f.id.kind = "key"
      BY <1>t, <2>1, ClassifiedKeys
    <2> QED
      BY <1>1, <2>2 DEF Classify, TypeOK, Stages, Typed, Distinct
  <1>2. CASE Gather
    <2>1. {d \in facts : Found(d)} = FoundIn(occurrences, facts)
      BY <1>2, FoundByContents DEF Gather, StageInv
    <2>2. findings' = Gathered(FoundIn(occurrences, facts))
      BY <1>2, <2>1 DEF Gather, StageInv, Gathered, Generic
    <2>3. Typed(findings') /\ \A f \in findings' : f.id.kind \in {"key", "fact"}
      BY <1>t, <2>2, GatheredTyped
    <2> QED
      BY <1>2, <2>3 DEF Gather, TypeOK, Stages, Typed
  <1>3. CASE Correlate
    <2> DEFINE D == FoundIn(occurrences, facts)
               cs == Coalesced(Gathered(D))
    <2>1. findings' = Correlated(cs)
      BY <1>3 DEF Correlate, StageInv
    <2>2. \A f \in cs : f.id.kind \in {"key", "fact"}
      BY <1>t, GatheredKinds
    <2>3. Typed(cs) /\ Distinct(cs)
      BY <1>t, GatheredTyped, CoalescedTyped, CoalescedDistinct
    <2>4. Typed(findings') /\ Distinct(findings')
      BY <2>1, <2>2, <2>3, CorrelatedTyped, CorrelatedDistinct
    <2> QED
      BY <1>3, <2>4 DEF Correlate, TypeOK, Stages, Typed, Distinct
  <1>4. CASE Suppress
    BY <1>4 DEF Suppress, Kept, TypeOK, Stages
  <1>5. CASE Report
    BY <1>5 DEF Report, Absorbed, ExitCode, TypeOK, Stages
  <1>6. CASE SaveReport \/ SaveList \/ Rescan
    BY <1>6 DEF SaveReport, SaveList, SaveBaseline, Rescan, TypeOK, Stages
  <1>7. CASE Edit
    <2>1. occurrences' \subseteq Occurrences /\ facts' \subseteq Facts
      BY <1>7 DEF Edit, Toggled, TypeOK
    <2>2. edits' \in 0..MaxEdits
      BY <1>7, FactsAssumption DEF Edit, TypeOK
    <2> QED
      BY <1>7, <2>1, <2>2 DEF Edit, TypeOK, Stages
  <1>8. CASE UNCHANGED vars
    BY <1>8 DEF vars, TypeOK, IsFinding
  <1> QED
    BY <1>1, <1>2, <1>3, <1>4, <1>5, <1>6, <1>7, <1>8 DEF Next

\* Types, and one finding to an id wherever a baseline or a chain refers to
\* findings by their ids.
THEOREM PipelineTypeSafe == Spec => []TypeOK
  <1>1. ScanTypes => TypeOK
    BY DEF ScanTypes
  <1> QED
    BY <1>1, StageInit, StageNext, ScanTypesInit, ScanTypesNext, PTL DEF Spec

-----------------------------------------------------------------------------
(***************************************************************************)
(* A chain has its two links in the repository.                            *)
(***************************************************************************)
\* The chains among fs, as ChainIsWitnessed says it of a report.
Witnessed(fs) ==
    \A f \in fs : f.id.kind = "exposed-public-key-chain" =>
        \E o, u \in occurrences : \E d \in facts :
            /\ f.id.of = {KeyId(o.key, o.project), FactId(d)}
            /\ Class[o.key] = "public" /\ u.key = o.key
            /\ u.project \in {o.project, NoProject}
            /\ u.place \in ClientReachable \cup Committed
            /\ About[d].reads /\ About[d].project = o.project

WitnessInv == stage \in {"correlated", "suppressed", "reported"} => Witnessed(findings)

\* A finding of a project has an occurrence that names the project.
LEMMA ProjectIsSeen ==
  ASSUME occurrences \subseteq Occurrences, NEW D \in SUBSET Facts,
         NEW f \in Coalesced(Gathered(D)), IsKey(f), f.id.project # NoProject
  PROVE  \E o \in occurrences : o.key = f.id.key /\ o.project = f.id.project
  <1> DEFINE k == f.id.key
             p == f.id.project
  <1>1. PICK g \in Gathered(D) : IsKey(g) /\ f.id = GroupId(Gathered(D), g)
    BY CoalescedKeys
  <1>2. g.id.key = k /\ p = Adopted(Gathered(D), k, g.id.project)
    BY <1>1 DEF GroupId, KeyId
  <1>3. p = g.id.project \/ p \in KnownProjects(Gathered(D), k)
    <2>1. CASE g.id.project # NoProject
      BY <1>2, <2>1, AdoptedCases
    <2>2. CASE g.id.project = NoProject /\ \E q \in Projects : KnownProjects(Gathered(D), k) = {q}
      BY <1>2, <2>2, AdoptedCases
    <2>3. CASE g.id.project = NoProject /\ ~\E q \in Projects : KnownProjects(Gathered(D), k) = {q}
      BY <1>2, <2>3, AdoptedCases
    <2> QED
      BY <2>1, <2>2, <2>3
  <1>4. p \in KnownProjects(Gathered(D), k)
    BY <1>1, <1>2, <1>3 DEF KnownProjects
  <1>5. p \in KnownProjects(Seen, k)
    BY <1>4, GatheredKnow
  <1>6. PICK h \in Seen : h.id.key = k /\ h.id.project = p
    BY <1>5 DEF KnownProjects
  <1> QED
    BY <1>6 DEF Seen, Single, KeyId

\* A location of a public key's finding is one of an occurrence of that key,
\* with its project or without one.
LEMMA PlaceIsSeen ==
  ASSUME occurrences \subseteq Occurrences, NEW D \in SUBSET Facts,
         NEW f \in Coalesced(Gathered(D)), IsPublicKey(f), NEW x \in f.places
  PROVE  \E u \in occurrences :
           /\ u.key = f.id.key /\ u.place = x
           /\ u.project \in {f.id.project, NoProject}
  <1> DEFINE G == Gathered(D)
             k == f.id.key
  <1>0. IsKey(f) /\ Class[k] = "public"
    BY DEF IsPublicKey
  <1>1. f.places = MergedPlaces(G, f.id)
    BY <1>0, CoalescedKeys
  <1>2. PICK g \in G : IsKey(g) /\ GroupId(G, g) = f.id /\ x \in g.places
    BY <1>1 DEF MergedPlaces
  <1>3. g.id.key = k /\ f.id.project = Adopted(G, k, g.id.project)
    BY <1>2 DEF GroupId, KeyId
  <1>4. g \in Coalesced(Classified)
    <2>1. g \notin Generic
      BY <1>0, <1>3 DEF Generic, Single, KeyId, Supabase
    <2>2. \A d : ~IsKey(FactFinding(d))
      BY DEF FactFinding, FactId, IsKey
    <2> QED
      BY <1>2, <2>1, <2>2 DEF Gathered
  <1>5. PICK h \in Classified :
          IsKey(h) /\ GroupId(Classified, h) = g.id /\ x \in h.places
    BY <1>2, <1>4, CoalescedKeys DEF MergedPlaces
  <1>6. h.id.key = k /\ g.id.project = Adopted(Classified, k, h.id.project)
    BY <1>3, <1>5 DEF GroupId, KeyId
  <1>7. h.id.project # NoProject => f.id.project = h.id.project
    BY <1>3, <1>6, AdoptedCases
  <1>8. PICK u \in occurrences : h = Single(u)
    BY DEF Classified
  <1>9. u.key = k /\ u.project = h.id.project /\ u.place = x
    BY <1>5, <1>6, <1>8 DEF Single, KeyId
  <1> QED
    BY <1>7, <1>9

\* Correlation links what was seen.
LEMMA ChainsWitnessed ==
  ASSUME occurrences \subseteq Occurrences, facts \subseteq Facts, NEW D \in SUBSET facts
  PROVE  Witnessed(Correlated(Coalesced(Gathered(D))))
  <1> DEFINE cs == Coalesced(Gathered(D))
  <1> SUFFICES ASSUME NEW f \in Correlated(cs), f.id.kind = "exposed-public-key-chain"
               PROVE  \E o, u \in occurrences : \E d \in facts :
                        /\ f.id.of = {KeyId(o.key, o.project), FactId(d)}
                        /\ Class[o.key] = "public" /\ u.key = o.key
                        /\ u.project \in {o.project, NoProject}
                        /\ u.place \in ClientReachable \cup Committed
                        /\ About[d].reads /\ About[d].project = o.project
    BY DEF Witnessed
  <1>1. f \in Chains(cs)
    BY GatheredKinds DEF Correlated, ElevatedChains, ElevatedId
  <1>2. PICK l \in Links(cs) : f.id = ChainId(l.key.id, l.rls.id)
    BY <1>1 DEF Chains
  <1>3. /\ l.key \in cs /\ l.rls \in cs
        /\ IsPublicKey(l.key) /\ IsExposed(l.key) /\ IsReadable(l.rls)
        /\ SameProject(l.key, l.rls)
    BY DEF Links
  <1>4. IsKey(l.key) /\ Class[l.key.id.key] = "public" /\ ~IsKey(l.rls) /\ IsFact(l.rls)
    BY <1>3 DEF IsPublicKey, IsReadable, IsRls, IsFact, IsKey
  <1>5. PICK d \in D : l.rls = FactFinding(d)
    <2>0. \A h : l.rls.id # GroupId(Gathered(D), h)
      BY <1>4 DEF GroupId, KeyId, IsKey
    <2>1. l.rls \in Gathered(D)
      BY <1>3, <2>0 DEF Coalesced
    <2> QED
      BY <1>4, <2>1, GatheredFacts
  <1>6. l.rls.id = FactId(d) /\ About[d].reads /\ ProjectOf(l.rls) = About[d].project
    BY <1>3, <1>4, <1>5 DEF FactFinding, FactId, IsReadable, ProjectOf
  <1>7. l.key.id.project = About[d].project /\ l.key.id.project # NoProject
    BY <1>3, <1>4, <1>6 DEF SameProject, ProjectOf
  <1>8. PICK o \in occurrences : o.key = l.key.id.key /\ o.project = l.key.id.project
    BY <1>3, <1>4, <1>7, ProjectIsSeen
  <1>9. l.key.id = KeyId(o.key, o.project)
    <2>1. PICK h : l.key.id = GroupId(Gathered(D), h)
      BY <1>3, <1>4, CoalescedKeys
    <2> QED
      BY <1>8, <2>1 DEF GroupId, KeyId
  <1>10. PICK x \in l.key.places : x \in ClientReachable \cup Committed
    BY <1>3 DEF IsExposed, IsCommitted
  <1>11. PICK u \in occurrences :
           u.key = o.key /\ u.place = x /\ u.project \in {o.project, NoProject}
    BY <1>3, <1>8, PlaceIsSeen
  <1>12. f.id.of = {KeyId(o.key, o.project), FactId(d)}
    BY <1>2, <1>6, <1>9 DEF ChainId
  <1> QED
    BY <1>4, <1>6, <1>7, <1>8, <1>10, <1>11, <1>12

\* Every step of scan() keeps chains witnessed until the repository changes.
LEMMA WitnessNext == StageInv /\ WitnessInv /\ [Next]_vars => WitnessInv'
  <1> SUFFICES ASSUME StageInv, WitnessInv, [Next]_vars PROVE WitnessInv'
    OBVIOUS
  <1>1. CASE Correlate
    <2>1. findings' = Correlated(Coalesced(Gathered(FoundIn(occurrences, facts))))
      BY <1>1 DEF Correlate, StageInv
    <2>2. Witnessed(findings')
      BY <2>1, ChainsWitnessed DEF StageInv, FoundIn
    <2> QED
      BY <1>1, <2>2 DEF Correlate, WitnessInv, Witnessed
  <1>2. CASE Suppress
    BY <1>2 DEF Suppress, Kept, WitnessInv, Witnessed
  <1>3. CASE Report
    BY <1>3 DEF Report, Absorbed, WitnessInv, Witnessed
  <1>4. CASE Classify \/ Gather \/ SaveReport \/ SaveList \/ Rescan \/ Edit
    BY <1>4 DEF Classify, Gather, SaveReport, SaveList, SaveBaseline, Rescan, Edit,
       WitnessInv
  <1>5. CASE UNCHANGED vars
    BY <1>5 DEF vars, WitnessInv, Witnessed
  <1> QED
    BY <1>1, <1>2, <1>3, <1>4, <1>5 DEF Next

\* A chain is never reported without a public key seen with the project whose
\* table can be read, and a place of that key that a browser or clone reaches.
THEOREM ChainsAreWitnessed == Spec => []ChainIsWitnessed
  <1>1. Init => WitnessInv
    BY DEF Init, WitnessInv
  <1>2. WitnessInv => ChainIsWitnessed
    BY DEF WitnessInv, Witnessed, ChainIsWitnessed
  <1> QED
    BY <1>1, <1>2, StageInit, StageNext, WitnessNext, PTL DEF Spec

-----------------------------------------------------------------------------
(***************************************************************************)
(* A file move resurrects no accepted finding.                             *)
(*                                                                         *)
(* The ids of the findings that are no composites are a function of what   *)
(* Contents keeps of a repository, and a list of all ids of a report names *)
(* them, those that a chain absorbed included.                             *)
(***************************************************************************)
Singles(os) == {Single(o) : o \in os}

PlainId(os, o) == KeyId(o.key, Adopted(Singles(os), o.key, o.project))

PlainIds(os, ds) == {PlainId(os, o) : o \in os} \cup {FactId(d) : d \in FoundIn(os, ds)}

\* Findings that the scan can account for by its contents, and composites.
Accounted(fs) == \A f \in fs : IsComposite(f) \/ f.id \in PlainIds(occurrences, facts)

QuietInv ==
    /\ stage = "correlated" =>
         Accounted(findings) /\ PlainIds(occurrences, facts) \subseteq Ids(findings)
    /\ stage = "suppressed" =>
         /\ Accounted(findings) /\ Ids(findings) \cap baseline = {}
         /\ baseline = {} => PlainIds(occurrences, facts) \subseteq Ids(findings)
    /\ stage = "reported" =>
         /\ Accounted(findings) /\ Ids(findings) \cap baseline = {}
         /\ baseline = {} => PlainIds(occurrences, facts) \subseteq ListedIds
    /\ accepted.how = "list" =>
         PlainIds(accepted.occurrences, accepted.facts) \subseteq baseline

\* What is known of a key, by the occurrences.
LEMMA KnownByContents ==
  ASSUME NEW os, NEW k, NEW p
  PROVE  p \in KnownProjects(Singles(os), k) <=>
           p # NoProject /\ \E o \in os : o.key = k /\ o.project = p
  <1>1. \A o : IsKey(Single(o)) /\ Single(o).id.key = o.key /\ Single(o).id.project = o.project
    BY DEF Single, IsKey, KeyId
  <1> QED
    BY <1>1 DEF KnownProjects, Singles

\* Where keys and projects were seen does not matter.
LEMMA MovesKeepIds ==
  ASSUME NEW os, NEW us, NEW ds, Contents(os) = Contents(us)
  PROVE  PlainIds(os, ds) \subseteq PlainIds(us, ds)
  <1>1. ASSUME NEW o \in os
        PROVE  \E u \in us : u.key = o.key /\ u.project = o.project
    <2>1. <<o.key, o.project>> \in Contents(us)
      BY DEF Contents
    <2> QED
      BY <2>1 DEF Contents
  <1>2. ASSUME NEW u \in us
        PROVE  \E o \in os : u.key = o.key /\ u.project = o.project
    <2>1. <<u.key, u.project>> \in Contents(os)
      BY DEF Contents
    <2> QED
      BY <2>1 DEF Contents
  <1>3. ASSUME NEW k
        PROVE  KnownProjects(Singles(os), k) = KnownProjects(Singles(us), k)
    <2>1. ASSUME NEW p
          PROVE  p \in KnownProjects(Singles(os), k) <=>
                   p \in KnownProjects(Singles(us), k)
      BY <1>1, <1>2, KnownByContents
    <2> QED
      BY <2>1 DEF KnownProjects
  <1>4. ASSUME NEW o \in os
        PROVE  \E u \in us : PlainId(os, o) = PlainId(us, u)
    <2>1. PICK u \in us : u.key = o.key /\ u.project = o.project
      BY <1>1
    <2>2. Adopted(Singles(os), o.key, o.project)
            = Adopted(Singles(us), o.key, o.project)
      BY <1>3, AdoptedBy
    <2> QED
      BY <2>1, <2>2 DEF PlainId
  <1>5. FoundIn(os, ds) \subseteq FoundIn(us, ds)
    BY <1>1 DEF FoundIn
  <1> QED
    BY <1>4, <1>5 DEF PlainIds

\* Each finding of the last coalescing is one of an occurrence or of a fact.
LEMMA CoalescedAccounted ==
  ASSUME occurrences \subseteq Occurrences, facts \subseteq Facts,
         NEW D, D = FoundIn(occurrences, facts)
  PROVE  Ids(Coalesced(Gathered(D))) = PlainIds(occurrences, facts)
  <1> DEFINE G == Gathered(D)
  <1>d. D \in SUBSET Facts
    BY DEF FoundIn
  <1>r. \A o : PlainId(occurrences, o) = ReportId(o)
    BY DEF PlainId, Singles, ReportId
  <1>1. ASSUME NEW o \in occurrences
        PROVE  PlainId(occurrences, o) \in Ids(Coalesced(G))
    BY <1>d, <1>r, CoalescedSights DEF Sighted, Ids
  <1>2. ASSUME NEW d \in D
        PROVE  FactId(d) \in Ids(Coalesced(G))
    <2>1. FactFinding(d) \in G
      BY DEF Gathered
    <2>2. FactFinding(d) \in Coalesced(G)
      BY <2>1 DEF Coalesced, FactFinding, FactId, IsKey
    <2> QED
      BY <2>2 DEF Ids, FactFinding
  <1>3. ASSUME NEW f \in Coalesced(G), ~IsKey(f)
        PROVE  f.id \in PlainIds(occurrences, facts)
    <2>1. \A h : f.id # GroupId(G, h)
      BY <1>3 DEF GroupId, KeyId, IsKey
    <2>2. f \in G
      BY <2>1 DEF Coalesced
    <2>3. PICK d \in D : f = FactFinding(d)
      BY <1>3, <2>2, GatheredFacts
    <2> QED
      BY <2>3 DEF FactFinding, PlainIds
  <1>4. ASSUME NEW f \in Coalesced(G), IsKey(f)
        PROVE  f.id \in PlainIds(occurrences, facts)
    <2>1. PICK g \in G : IsKey(g) /\ f.id = GroupId(G, g)
      BY <1>4, CoalescedKeys
    <2>2. g \in Coalesced(Classified) \/ g \in Generic
      BY <2>1 DEF Gathered, FactFinding, FactId, IsKey
    <2>3. PICK o \in occurrences :
            /\ g.id.key = o.key
            /\ g.id.project = o.project
               \/ g.id.project = Adopted(Seen, o.key, o.project)
      <3>1. CASE g \in Generic
        BY <3>1 DEF Generic, Single, KeyId
      <3>2. CASE g \in Coalesced(Classified)
        <4>1. PICK h \in Classified : g.id = GroupId(Classified, h)
          BY <2>1, <3>2, CoalescedKeys
        <4>2. PICK o \in occurrences : h = Single(o) /\ Class[o.key] \in Supabase
          BY DEF Classified
        <4>3. h.id.key = o.key /\ h.id.project = o.project
          BY <4>2 DEF Single, KeyId
        <4>4. g.id.key = o.key /\ g.id.project = Adopted(Classified, o.key, o.project)
          BY <4>1, <4>3 DEF GroupId, KeyId
        <4>5. Adopted(Classified, o.key, o.project) = Adopted(Seen, o.key, o.project)
          BY <4>2, ClassifiedKnow, AdoptedBy
        <4> QED
          BY <4>4, <4>5
      <3> QED
        BY <2>2, <3>1, <3>2
    <2>4. KnownProjects(G, o.key) = KnownProjects(Seen, o.key)
      BY <1>d, GatheredKnow
    <2>5. Adopted(G, o.key, g.id.project) = Adopted(Seen, o.key, o.project)
      BY <2>3, <2>4, AdoptedTwice, AdoptedBy
    <2>6. f.id = ReportId(o)
      BY <2>1, <2>3, <2>5 DEF GroupId, ReportId, Seen
    <2> QED
      BY <1>r, <2>6 DEF PlainIds
  <1> QED
    BY <1>1, <1>2, <1>3, <1>4 DEF PlainIds, Ids

\* Every step keeps the account, and a saved list holds all of it.
LEMMA QuietNext == StageInv /\ QuietInv /\ [Next]_vars => QuietInv'
  <1> SUFFICES ASSUME StageInv, QuietInv, [Next]_vars PROVE QuietInv'
    OBVIOUS
  <1>1. CASE Classify \/ Gather \/ Rescan \/ Edit
    BY <1>1 DEF Classify, Gather, Rescan, Edit, QuietInv
  <1>2. CASE Correlate
    <2> DEFINE cs == Coalesced(Gathered(FoundIn(occurrences, facts)))
    <2>1. findings' = Correlated(cs)
      BY <1>2 DEF Correlate, StageInv
    <2>2. Ids(cs) = PlainIds(occurrences, facts)
      BY CoalescedAccounted DEF StageInv
    <2>3. \A f \in findings' : IsComposite(f) \/ f \in cs
      BY <2>1 DEF Correlated, Chains, ElevatedChains, ChainId, ElevatedId, IsComposite,
         Rules
    <2>4. cs \subseteq findings'
      BY <2>1 DEF Correlated
    <2>5. UNCHANGED <<PlainIds(occurrences, facts), baseline, accepted>>
      BY <1>2 DEF Correlate, PlainIds, PlainId, Singles, FoundIn
    <2> QED
      BY <1>2, <2>2, <2>3, <2>4, <2>5 DEF Correlate, QuietInv, Accounted, Ids
  <1>3. CASE Suppress
    <2>1. UNCHANGED <<PlainIds(occurrences, facts), baseline, accepted>>
      BY <1>3 DEF Suppress, PlainIds, PlainId, Singles, FoundIn
    <2>2. /\ Kept(findings) \subseteq findings
          /\ Ids(Kept(findings)) \cap baseline = {}
          /\ baseline = {} => Kept(findings) = findings
      BY DEF Kept, Ids
    <2> QED
      BY <1>3, <2>1, <2>2 DEF Suppress, QuietInv, Accounted
  <1>4. CASE Report
    <2>1. UNCHANGED <<PlainIds(occurrences, facts), baseline, accepted>>
      BY <1>4 DEF Report, PlainIds, PlainId, Singles, FoundIn
    <2>2. Accounted(findings)' /\ (Ids(findings) \cap baseline = {})'
      BY <1>4, <2>1 DEF Report, QuietInv, Accounted, Absorbed, Ids
    <2>3. Ids(findings) \subseteq ListedIds'
      <3> SUFFICES ASSUME NEW f \in findings PROVE f.id \in ListedIds'
        BY DEF Ids
      <3>1. CASE f \in Absorbed(findings)
        BY <1>4, <3>1 DEF Report, ListedIds, Ids
      <3>2. CASE f \notin Absorbed(findings)
        <4>1. PICK g \in findings : g.id.kind = "exposed-public-key-chain" /\ f.id \in g.id.of
          BY <3>2 DEF Absorbed, AbsorbedIds
        <4>2. g \in findings' /\ IsComposite(g)
          BY <1>4, <4>1 DEF Report, Absorbed, IsComposite, Rules
        <4> QED
          BY <4>1, <4>2 DEF ListedIds
      <3> QED
        BY <3>1, <3>2
    <2> QED
      BY <1>4, <2>1, <2>2, <2>3 DEF Report, QuietInv
  <1>5. CASE SaveReport
    BY <1>5 DEF SaveReport, SaveBaseline, QuietInv
  <1>6. CASE SaveList
    <2>1. PlainIds(occurrences, facts) \subseteq baseline'
      BY <1>6 DEF SaveList, SaveBaseline, QuietInv
    <2> QED
      BY <1>6, <2>1 DEF SaveList, SaveBaseline, QuietInv
  <1>7. CASE UNCHANGED vars
    <2>1. UNCHANGED PlainIds(occurrences, facts) /\ UNCHANGED ListedIds
      BY <1>7 DEF vars, PlainIds, PlainId, Singles, FoundIn, ListedIds
    <2> QED
      BY <1>7, <2>1 DEF vars, QuietInv, Accounted
  <1> QED
    BY <1>1, <1>2, <1>3, <1>4, <1>5, <1>6, <1>7 DEF Next

\* Once every id of a report is accepted, moving files brings no finding back,
\* except for the composites, whose ids depend on what else was found.
THEOREM MovedFilesStayQuiet == Spec => []MovesStayQuiet
  <1>1. Init => QuietInv
    BY DEF Init, QuietInv, Never
  <1>2. QuietInv => MovesStayQuiet
    <2> SUFFICES ASSUME QuietInv, stage = "reported", accepted.how = "list",
                        Contents(accepted.occurrences) = Contents(occurrences),
                        accepted.facts = facts, NEW f \in findings, ~IsComposite(f)
                 PROVE  FALSE
      BY DEF MovesStayQuiet
    <2>1. f.id \in PlainIds(occurrences, facts) /\ f.id \notin baseline
      BY DEF QuietInv, Accounted, Ids
    <2>2. PlainIds(occurrences, facts) \subseteq PlainIds(accepted.occurrences, facts)
      BY MovesKeepIds
    <2> QED
      BY <2>1, <2>2 DEF QuietInv
  <1> QED
    BY <1>1, <1>2, StageInit, StageNext, QuietNext, PTL DEF Spec
=============================================================================
