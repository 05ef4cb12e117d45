-------------------------- MODULE FindingPipeline --------------------------
(***************************************************************************)
(* The finding stages of vibescan-core's scan(): classified keys and other *)
(* findings are coalesced, correlated into kill chains, deduplicated, cut  *)
(* by the baseline, and rid of what a reported chain absorbs.  Scans are   *)
(* repeated while the repository changes between them and while reports    *)
(* become baselines, as in a CI job.                                       *)
(*                                                                         *)
(* A finding id, a hash in the code, is the tuple of what is hashed; it    *)
(* determines the class, the severity and the related ids of its finding,  *)
(* so a finding is an id with its locations.                               *)
(***************************************************************************)
EXTENDS Integers

CONSTANTS
    Keys,           \* secret values (fingerprints), by the rule that matched
    Class,          \* Class[k]: what the classifier or the detector makes of k
    Projects,       \* Supabase projects, by normalized URL
    NoProject,      \* a key whose project is not known
    Places,         \* locations
    ClientReachable,    \* the locations whose class is ClientReachable
    Committed,      \* the locations with a commit among their provenances
    Occurrences,    \* [key, project, place]: candidates a repository may hold
    Facts,          \* RLS and dependency findings that a scan may make
    About,          \* About[d]: [source, project, reads, severity]
    Gates,          \* severity gates considered
    MaxEdits        \* bound: single changes of the repository in a behaviour

Info == 0  Low == 1  Medium == 2  High == 3  Critical == 4
Severities == Info..Critical

Classes == {"public", "elevated", "unknown", "provider", "entropy"}
Supabase == {"public", "elevated", "unknown"}
Sources == {"tier0", "tier1", "dependency"}

ASSUME KeysAssumption ==
    /\ Class \in [Keys -> Classes]
    /\ NoProject \notin Projects
    /\ ClientReachable \subseteq Places
    /\ Committed \subseteq Places
    /\ Occurrences \subseteq
         [key : Keys, project : Projects \cup {NoProject}, place : Places]
    /\ \A o \in Occurrences :
         o.project # NoProject => Class[o.key] \in {"public", "elevated"}

ASSUME FactsAssumption ==
    /\ About \in [Facts -> [source : Sources, project : Projects \cup {NoProject},
                            reads : BOOLEAN, severity : Severities]]
    /\ \A d \in Facts :
         /\ About[d].source = "dependency" <=> About[d].project = NoProject
         /\ About[d].source = "dependency" => ~About[d].reads
    /\ Gates \subseteq Severities
    /\ MaxEdits \in Nat

VARIABLES
    occurrences,    \* the candidates in the repository
    facts,          \* what probes and dependency checks would find
    gate,           \* ScanConfig::severity_gate
    baseline,       \* the ids in the baseline file
    stage,          \* where scan() is
    findings,       \* the findings of the running or last scan
    exit,           \* its exit code
    accepted,       \* [how, occurrences, facts] when the baseline was saved
    edits           \* changes so far

vars == <<occurrences, facts, gate, baseline, stage, findings, exit, accepted, edits>>

Stages == {"idle", "classified", "gathered", "correlated", "suppressed", "reported"}

Never == [how |-> "never", occurrences |-> {}, facts |-> {}]

-----------------------------------------------------------------------------
\* coalesced_finding_id, correlation_id and the ids of RLS and dependency
\* findings, as what they hash.
KeyId(k, p) == [kind |-> "key", key |-> k, project |-> p]
FactId(d) == [kind |-> "fact", fact |-> d]
ChainId(key, rls) == [kind |-> "exposed-public-key-chain", of |-> {key, rls}]
ElevatedId(ids) == [kind |-> "elevated-key-in-tree", of |-> ids]

Rules == {"exposed-public-key-chain", "elevated-key-in-tree"}

IsKey(f) == f.id.kind = "key"
IsFact(f) == f.id.kind = "fact"
IsComposite(f) == f.id.kind \in Rules

Ids(fs) == {f.id : f \in fs}

KeySeverity(k) ==
    CASE Class[k] = "elevated" -> Critical
      [] Class[k] = "provider" -> High
      [] Class[k] = "entropy"  -> Medium
      [] Class[k] = "unknown"  -> Low
      [] OTHER                 -> Info

\* Mutant: a chain is as severe as the key it starts from.
ChainRankedAsKey(f) ==
    CASE IsKey(f)  -> KeySeverity(f.id.key)
      [] IsFact(f) -> About[f.id.fact].severity
      [] OTHER     -> Info

Severity(f) ==
    CASE IsKey(f)  -> KeySeverity(f.id.key)
      [] IsFact(f) -> About[f.id.fact].severity
      [] OTHER     -> Critical

\* A candidate of the repository as a finding of its own, and an RLS or
\* dependency finding, whose location no property tells apart.
Single(o) == [id |-> KeyId(o.key, o.project), places |-> {o.place}]
FactFinding(d) == [id |-> FactId(d), places |-> {}]

-----------------------------------------------------------------------------
\* The projects that findings of key k name.
KnownProjects(fs, k) ==
    {f.id.project : f \in {g \in fs : IsKey(g) /\ g.id.key = k}} \ {NoProject}

\* Mutant: a finding without project joins a known one even when several are.
AdoptAny(fs, k, p) ==
    IF p = NoProject /\ KnownProjects(fs, k) # {}
      THEN CHOOSE q \in KnownProjects(fs, k) : TRUE
      ELSE p

\* A finding without project joins the only known project of its key.
Adopted(fs, k, p) ==
    IF p = NoProject /\ \E q \in Projects : KnownProjects(fs, k) = {q}
      THEN CHOOSE q \in Projects : KnownProjects(fs, k) = {q}
      ELSE p

\* Mutant: the id keeps the location that the raw finding's id hashes.
GroupIdByPlace(fs, f) ==
    [kind |-> "key", key |-> f.id.key, place |-> f.places,
     project |-> Adopted(fs, f.id.key, f.id.project)]

\* The id that coalescing gives to the group of a key finding.
GroupId(fs, f) == KeyId(f.id.key, Adopted(fs, f.id.key, f.id.project))

\* Mutant: a merge keeps the locations of one member.
FirstPlaces(fs, id) ==
    (CHOOSE f \in {g \in fs : IsKey(g) /\ GroupId(fs, g) = id} : TRUE).places

MergedPlaces(fs, id) ==
    UNION {f.places : f \in {g \in fs : IsKey(g) /\ GroupId(fs, g) = id}}

\* Mutant: findings of one key are left apart.
NotCoalesced(fs) == fs

\* coalesce_findings and coalesce_classified_key_facts.
Coalesced(fs) ==
    {f \in fs : ~IsKey(f)} \cup
    {[id |-> GroupId(fs, f), places |-> MergedPlaces(fs, GroupId(fs, f))] :
        f \in {g \in fs : IsKey(g)}}

-----------------------------------------------------------------------------
ProjectOf(f) == IF IsKey(f) THEN f.id.project ELSE About[f.id.fact].project

IsPublicKey(f) == IsKey(f) /\ Class[f.id.key] = "public"
IsElevatedKey(f) == IsKey(f) /\ Class[f.id.key] = "elevated"
IsRls(f) == IsFact(f) /\ About[f.id.fact].source \in {"tier0", "tier1"}
IsReadable(f) == IsRls(f) /\ About[f.id.fact].reads

IsCommitted(f) == f.places \cap Committed # {}
IsExposed(f) == f.places \cap ClientReachable # {} \/ IsCommitted(f)

\* Mutant: the projects of the two findings are not compared.
AnyProject(f, g) == TRUE

SameProject(f, g) == ProjectOf(f) # NoProject /\ ProjectOf(f) = ProjectOf(g)

\* A public key that a browser can have, and a table it can read.
Links(fs) ==
    {l \in [key : fs, rls : fs] :
        /\ IsPublicKey(l.key) /\ IsExposed(l.key)
        /\ IsReadable(l.rls)
        /\ SameProject(l.key, l.rls)}

Chains(fs) ==
    {[id |-> ChainId(l.key.id, l.rls.id), places |-> l.key.places \cup l.rls.places] :
        l \in Links(fs)}

\* The RLS findings that a committed elevated key makes moot.
Mooted(fs, f) == {r \in fs : IsRls(r) /\ SameProject(f, r)}

ElevatedChains(fs) ==
    {[id |-> ElevatedId({f.id} \cup Ids(Mooted(fs, f))), places |-> f.places] :
        f \in {k \in fs : IsElevatedKey(k) /\ IsCommitted(k) /\ Mooted(fs, k) # {}}}

\* correlate_findings; dedup_findings has no effect on a set of these ids.
Correlated(fs) == fs \cup Chains(fs) \cup ElevatedChains(fs)

\* Findings that the baseline does not name.
Kept(fs) == {f \in fs : f.id \notin baseline}

\* The ids related to a composite whose rule absorbs.
AbsorbedIds(fs) ==
    UNION {f.id.of : f \in {g \in fs : g.id.kind = "exposed-public-key-chain"}}

Absorbed(fs) == {f \in fs : IsComposite(f) \/ f.id \notin AbsorbedIds(fs)}

ExitCode(fs) == IF \E f \in fs : Severity(f) >= gate THEN 1 ELSE 0

-----------------------------------------------------------------------------
Init ==
    /\ occurrences \in SUBSET Occurrences
    /\ facts \in SUBSET Facts
    /\ gate \in Gates
    /\ baseline = {}
    /\ stage = "idle"
    /\ findings = {}
    /\ exit = 0
    /\ accepted = Never
    /\ edits = 0

\* Classified candidates, coalesced.
Classify ==
    /\ stage = "idle"
    /\ stage' = "classified"
    /\ findings' = Coalesced({Single(o) : o \in
                        {u \in occurrences : Class[u.key] \in Supabase}})
    /\ UNCHANGED <<occurrences, facts, gate, baseline, exit, accepted, edits>>

\* Tier 0 reaches only the projects that a classified public key names.
Found(d) ==
    About[d].source = "tier0" =>
        \E f \in findings : IsPublicKey(f) /\ ProjectOf(f) = About[d].project

\* Generic candidates, dependency findings, and what the probes add.
Gather ==
    /\ stage = "classified"
    /\ stage' = "gathered"
    /\ findings' = findings
         \cup {Single(o) : o \in {u \in occurrences : Class[u.key] \notin Supabase}}
         \cup {FactFinding(d) : d \in {e \in facts : Found(e)}}
    /\ UNCHANGED <<occurrences, facts, gate, baseline, exit, accepted, edits>>

Correlate ==
    /\ stage = "gathered"
    /\ stage' = "correlated"
    /\ findings' = Correlated(Coalesced(findings))
    /\ UNCHANGED <<occurrences, facts, gate, baseline, exit, accepted, edits>>

Suppress ==
    /\ stage = "correlated"
    /\ stage' = "suppressed"
    /\ findings' = Kept(findings)
    /\ UNCHANGED <<occurrences, facts, gate, baseline, exit, accepted, edits>>

Report ==
    /\ stage = "suppressed"
    /\ stage' = "reported"
    /\ findings' = Absorbed(findings)
    /\ exit' = ExitCode(Absorbed(findings))
    /\ UNCHANGED <<occurrences, facts, gate, baseline, accepted, edits>>

\* The ids a reader of the report can list: its findings' and their related.
ListedIds == Ids(findings) \cup UNION {f.id.of : f \in {g \in findings : IsComposite(g)}}

\* One baseline per behaviour.
SaveBaseline(how, ids) ==
    /\ stage = "reported"
    /\ baseline = {}
    /\ baseline' = ids
    /\ accepted' = [how |-> how, occurrences |-> occurrences, facts |-> facts]
    /\ stage' = "idle"
    /\ findings' = {}
    /\ exit' = 0
    /\ UNCHANGED <<occurrences, facts, gate, edits>>

\* The two files Baseline::load accepts: a report, and a list of ids.
SaveReport == SaveBaseline("report", Ids(findings))
SaveList == SaveBaseline("list", ListedIds)

\* The next scan of the same repository with the same baseline.
Rescan ==
    /\ stage = "reported"
    /\ stage' = "idle"
    /\ findings' = {}
    /\ exit' = 0
    /\ UNCHANGED <<occurrences, facts, gate, baseline, accepted, edits>>

Toggled(S, x) == IF x \in S THEN S \ {x} ELSE S \cup {x}

\* The repository or its backend changes between two scans.
Edit ==
    /\ stage \in {"idle", "reported"}
    /\ edits < MaxEdits
    /\ edits' = edits + 1
    /\ \/ /\ \E o \in Occurrences : occurrences' = Toggled(occurrences, o)
          /\ UNCHANGED facts
       \/ /\ \E d \in Facts : facts' = Toggled(facts, d)
          /\ UNCHANGED occurrences
    /\ stage' = "idle"
    /\ findings' = {}
    /\ exit' = 0
    /\ UNCHANGED <<gate, baseline, accepted>>

Next ==
    \/ Classify \/ Gather \/ Correlate \/ Suppress \/ Report
    \/ SaveReport \/ SaveList \/ Rescan \/ Edit

Spec == Init /\ [][Next]_vars

-----------------------------------------------------------------------------
IdsOfScan ==
    {KeyId(k, p) : k \in Keys, p \in Projects \cup {NoProject}}
        \cup {FactId(d) : d \in Facts}

IsFinding(f) ==
    /\ f.places \subseteq Places
    /\ \/ f.id \in IdsOfScan
       \/ f.id.kind \in Rules /\ f.id.of \subseteq IdsOfScan

\* The variables keep their types, and from coalescing on no two findings
\* share an id, which is what baselines and related ids are keyed by.
TypeOK ==
    /\ occurrences \subseteq Occurrences
    /\ facts \subseteq Facts
    /\ gate \in Gates
    /\ stage \in Stages
    /\ exit \in {0, 1}
    /\ \A f \in findings : IsFinding(f)
    /\ edits \in 0..MaxEdits
    /\ stage # "gathered" => \A f, g \in findings : f.id = g.id => f = g
    /\ accepted.how \in {"never", "report", "list"}

\* The findings of key k, or the composites that absorb them.
Carries(f, id) == f.id = id \/ (f.id.kind = "exposed-public-key-chain" /\ id \in f.id.of)

\* The id under which an occurrence is reported: that of its key, with its
\* project or the only one its key is known with.
ReportId(o) ==
    KeyId(o.key, Adopted({Single(u) : u \in occurrences}, o.key, o.project))

\* Nothing is silently lost between detection and report: each place where a
\* key was seen is a location of a reported finding of that key, or of the
\* reported chain that absorbed it, unless the baseline names the finding.
NothingLost ==
    stage = "reported" =>
        \A o \in occurrences :
            \/ ReportId(o) \in baseline
            \/ \E f \in findings : Carries(f, ReportId(o)) /\ o.place \in f.places

\* The exit code ignores absorption: it is 1 exactly if the scan has a
\* finding, absorbed or not, that the baseline does not name and that meets
\* the gate (vibescan-architecture.md section 13.4).
GateSeesAll ==
    [][stage' = "reported" =>
        (exit' = 1 <=> \E f \in findings : Severity(f) >= gate)]_vars

\* A chain is reported only with its two links in the repository: a public
\* key seen with the very project whose table is readable, and some place of
\* the same key that a browser or a clone reaches.
ChainIsWitnessed ==
    stage = "reported" =>
        \A f \in findings : f.id.kind = "exposed-public-key-chain" =>
            \E o, u \in occurrences : \E d \in facts :
                /\ f.id.of = {KeyId(o.key, o.project), FactId(d)}
                /\ Class[o.key] = "public" /\ u.key = o.key
                /\ u.project \in {o.project, NoProject}
                /\ u.place \in ClientReachable \cup Committed
                /\ About[d].reads /\ About[d].project = o.project

Contents(os) == {<<o.key, o.project>> : o \in os}

\* vibescan-architecture.md:100: "a file move must therefore not resurrect a
\* suppressed finding".  Once every id of a report is accepted, scans of the
\* same keys at other places report composites at most.
MovesStayQuiet ==
    /\ stage = "reported"
    /\ accepted.how = "list"
    /\ Contents(accepted.occurrences) = Contents(occurrences)
    /\ accepted.facts = facts
    => \A f \in findings : IsComposite(f)

\* tests/baseline.rs:4-39: a scan of an unchanged repository, with the ids of
\* the previous scan's findings as baseline, reports nothing.
RescanIsClean ==
    /\ stage = "reported"
    /\ accepted.how # "never"
    /\ accepted.occurrences = occurrences
    /\ accepted.facts = facts
    => findings = {}
=============================================================================
