---------------------------- MODULE ScanNetwork ----------------------------
(***************************************************************************)
(* What a scan asks of the network, in the order of vibescan-core's scan():*)
(* registry checks over the parsed dependencies, the Tier 0 read probe of  *)
(* every project a public key names, and the Tier 1 catalog introspection. *)
(* Every request may fail; only some failures fail the scan.               *)
(*                                                                         *)
(* sent is what leaves the machine, as a server would log it, and actions  *)
(* is what the report says of it.  The answers of servers that do answer   *)
(* are true of world, so that findings and silence can be compared with it.*)
(* The files of the repository are read one after another, twice, and may  *)
(* be edited before and after each of them is read.                        *)
(***************************************************************************)
EXTENDS DependencyManifests

CONSTANTS
    Package,        \* Package[d]: PackageKey, ecosystem and normalized name
    Sensitive,      \* coordinates that may contain a secret
    Direct,         \* version requirements that name a URL, a path or git
    Scoped,         \* dependencies with a scoped name
    Projects,       \* Supabase projects that public keys name
    Database,       \* the project of the database URL
    Tables,
    Candidates,     \* Candidates[p]: tables the repository associates with p
    Worlds,         \* [private, malicious, missing, readable, listed] considered
    Checkouts,      \* the manifests that a scan may find
    MaxEdits,       \* MaxEdits[a]: how many for the features asked for
    Files,          \* network sections of vibescan.toml considered
    Askings         \* sets of features considered on the command line

Features == {"registry", "tier0", "tier1"}

Packages == {Package[d] : d \in Dependencies}

ASSUME DependenciesAssumption ==
    /\ \A d, e \in Dependencies : Package[d] = Package[e] => Ecosystem[d] = Ecosystem[e]
    /\ Sensitive \subseteq Dependencies
    /\ Direct \subseteq Dependencies
    /\ Scoped \subseteq Dependencies
    /\ \A c \in Checkouts : \A f \in Manifests : c[f] \in Texts[f]
    /\ \A c \in Checkouts : c = [f \in Manifests |-> c[f]]
    /\ MaxEdits \in [SUBSET Features -> Nat]

ASSUME ProjectsAssumption ==
    /\ Candidates \in [Projects \cup {Database} -> SUBSET Tables]
    /\ Files \subseteq [Features -> {"unset", "on", "off"}]
    /\ Askings \subseteq SUBSET Features
    /\ Worlds \subseteq [private : SUBSET Ecosystems,
                         malicious : SUBSET Dependencies, missing : SUBSET Packages,
                         readable : SUBSET (Projects \X Tables),
                         listed : SUBSET (Projects \X Tables)]

VARIABLES
    world,          \* ecosystems that the environment makes private, malicious
                    \* versions, missing packages, tables the key reads or lists
    files,          \* the manifests, which others edit
    edits,
    declared,       \* eligible coordinates of the manifests parsed so far
    private,        \* ecosystems with a registry of their own found so far
    reading,        \* the position of the file that is read next
    stated,         \* auxiliary: what manifests declare since the scan began
    kept,           \* auxiliary: registries that were there since then
    file,           \* the [network] section of the repository's vibescan.toml
    asked,          \* features that the command line asks for
    credential,     \* VIBESCAN_SUPABASE_DB_URL, which only Tier 1 looks at
    config,         \* the features ScanConfig enables
    stage,          \* where the process is
    pending,        \* ecosystems, packages, projects or tables to ask about
    snapshots,      \* ecosystems whose advisories are at hand
    probed,         \* the project whose tables are pending, and those left
    sent,           \* <<kind, subject>>: requests that left
    actions,        \* <<kind, subject, outcome>>: NetworkScope::actions
    findings,       \* <<reason, subject>>
    warnings        \* <<cause, subject>>

vars == <<world, files, edits, declared, private, reading, stated, kept, file, asked,
          credential, config, stage, pending, snapshots, probed, sent, actions, findings, warnings>>

repository == <<files, edits, stated, kept>>
command == <<world, file, asked, credential>>
inputs == <<command, repository, declared, private, reading>>
report == <<sent, actions, findings, warnings>>

Stages == {"start", "local", "registry", "registries", "advisories", "existence",
           "tier0", "projects", "tables", "tier1", "states", "catalog", "report",
           "returned", "failed"}

\* Requests that scan scope accounts for: all but snapshot downloads, which
\* carry no name, and the connection that the catalog queries run on.
Audited == {"existence", "root", "table", "catalog"}

-----------------------------------------------------------------------------
\* Mutant: what the repository's file turns on stays on.
FileOrAsked == asked \cup {f \in Features : file[f] = "on"}

\* run() clears the flags that ScanConfig::load set and applies its own.
Enabled == asked

\* What run_registry_checks keeps, and the names it may ask for: not those of
\* scoped packages, of private ecosystems, or of packages found malicious.
Suppressed == declared \cap (Sensitive \cup Direct)
Checkable == declared \ Suppressed

Matched == {d \in Checkable : Ecosystem[d] \in snapshots /\ d \in world.malicious}

\* Mutant: a package is left out by coordinate, not by name.
AskableCoordinates ==
    {Package[d] : d \in {e \in Checkable \ Scoped : Ecosystem[e] \notin private} \ Matched}

Askable ==
    {Package[d] : d \in {e \in Checkable \ Scoped : Ecosystem[e] \notin private}}
        \ {Package[d] : d \in Matched}

-----------------------------------------------------------------------------
Init ==
    /\ world \in Worlds
    /\ files \in Checkouts
    /\ edits = 0
    /\ declared = {}
    /\ private = {}
    /\ reading = 1
    /\ stated = Parsed(files)
    /\ kept = Registries(files)
    /\ file \in Files
    /\ asked \in Askings
    /\ credential \in IF "tier1" \in asked THEN {"missing", "invalid", "valid"}
                                         ELSE {"missing"}
    /\ config = {}
    /\ stage = "start"
    /\ pending = {}
    /\ snapshots = {}
    /\ probed = {}
    /\ sent = {}
    /\ actions = {}
    /\ findings = {}
    /\ warnings = {}

Go(s) == stage' = s

Fail ==
    /\ Go("failed")
    /\ UNCHANGED <<inputs, config, pending, snapshots, probed, report>>

\* The registries of before that are still there, or that have moved to a file
\* which is looked through later, while they were in both.
Handed(before, after) ==
    {x \in after : \E y \in before : y[1] = x[1] /\ y[2] <= x[2]}

\* Somebody edits a file between the first and the last reading of one.
EditManifest(f, text) ==
    /\ stage \in {"local", "registry", "registries"}
    /\ edits < MaxEdits[asked]
    /\ edits' = edits + 1
    /\ files[f] # text
    /\ files' = [files EXCEPT ![f] = text]
    /\ stated' = stated \cap Parsed(files')
    /\ kept' = Handed(kept, Registries(files'))
    /\ UNCHANGED <<command, declared, private, reading, config, stage, pending,
                   snapshots, probed, report>>

\* The command line is applied to the loaded configuration.
Configure ==
    /\ stage = "start"
    /\ ~("tier1" \in asked /\ credential = "missing")
    /\ Go("local")
    /\ config' = Enabled
    /\ UNCHANGED <<inputs, pending, snapshots, probed, report>>

ConfigureFails ==
    /\ stage = "start"
    /\ "tier1" \in asked /\ credential = "missing"
    /\ Fail

\* scan_dependency_integrity, file by file; what is eligible is decided in each
\* file alone.  Baseline, repository and detector were read before.
ReadManifest ==
    /\ stage = "local"
    /\ reading \in DOMAIN ManifestOrder
    /\ LET f == ManifestOrder[reading] IN
         /\ declared' = declared \cup Eligible(files[f])
         /\ findings' = findings \cup {<<"Flawed", <<n, f>>>> : n \in files[f].flawed}
    /\ reading' = reading + 1
    /\ UNCHANGED <<command, repository, private, config, stage, pending, snapshots,
                   probed, sent, actions, warnings>>

EndManifests ==
    /\ stage = "local"
    /\ reading \notin DOMAIN ManifestOrder
    /\ Go("registry")
    /\ reading' = 1
    /\ UNCHANGED <<command, repository, declared, private, config, pending, snapshots,
                   probed, report>>

ScanLocallyFails == stage = "local" /\ Fail

-----------------------------------------------------------------------------
\* A client is built; the environment is looked at first for registries.
StartRegistry ==
    /\ stage = "registry"
    /\ "registry" \in config
    /\ Go("registries")
    /\ private' = world.private
    /\ UNCHANGED <<command, repository, declared, reading, config, pending, snapshots,
                   probed, report>>

\* Mutant: the search ends with the first registry that is found.
StopAtFirst ==
    /\ stage = "registries"
    /\ reading \in DOMAIN RegistryOrder
    /\ private' = private \cup files[RegistryOrder[reading]].private
    /\ reading' = IF private' = {} THEN reading + 1 ELSE Len(RegistryOrder) + 1
    /\ UNCHANGED <<command, repository, declared, config, stage, pending, snapshots,
                   probed, report>>

\* private_registry_ecosystems, file by file, in a second reading.
ReadRegistryFile ==
    /\ stage = "registries"
    /\ reading \in DOMAIN RegistryOrder
    /\ private' = private \cup files[RegistryOrder[reading]].private
    /\ reading' = reading + 1
    /\ UNCHANGED <<command, repository, declared, config, stage, pending, snapshots,
                   probed, report>>

\* Suppressed coordinates are left out with a warning.
EndRegistries ==
    /\ stage = "registries"
    /\ reading \notin DOMAIN RegistryOrder
    /\ Go("advisories")
    /\ reading' = 1
    /\ pending' = {Ecosystem[d] : d \in Checkable}
    /\ warnings' = warnings
         \cup {<<"SensitiveCoordinateSuppressed", "any">> : d \in declared \cap Sensitive}
         \cup {<<"NonRegistryCoordinateSuppressed", "any">> :
                d \in (declared \cap Direct) \ Sensitive}
    /\ UNCHANGED <<command, repository, declared, private, config, snapshots, probed,
                   sent, actions, findings>>

\* A client that cannot be built, or a manifest that cannot be read again.
StartRegistryFails ==
    /\ stage \in {"registry", "registries"}
    /\ "registry" \in config
    /\ Fail

SkipRegistry ==
    /\ stage = "registry"
    /\ "registry" \notin config
    /\ Go("tier0")
    /\ UNCHANGED <<inputs, config, pending, snapshots, probed, report>>

\* advisories_for: from the cache, downloaded, or not to be had.
Advisories(e) ==
    /\ stage = "advisories"
    /\ e \in pending
    /\ pending' = pending \ {e}
    /\ \/ /\ snapshots' = snapshots \cup {e}
          /\ \/ UNCHANGED sent
             \/ sent' = sent \cup {<<"snapshot", e>>}
          /\ UNCHANGED warnings
       \/ /\ sent' = sent \cup {<<"snapshot", e>>}
          /\ warnings' = warnings \cup {<<"OsvSnapshotUnavailable", e>>}
          /\ UNCHANGED snapshots
    /\ UNCHANGED <<inputs, config, stage, probed, actions, findings>>

\* Exact versions are matched here, before any name is asked for.
MatchAdvisories ==
    /\ stage = "advisories"
    /\ pending = {}
    /\ Go("existence")
    /\ findings' = findings \cup {<<"KnownMalicious", d>> : d \in Matched}
    /\ pending' = Askable
    /\ UNCHANGED <<inputs, config, snapshots, probed, sent, actions, warnings>>

EcosystemOf(k) == CHOOSE e \in Ecosystems : \E d \in Dependencies :
                      Package[d] = k /\ Ecosystem[d] = e

Verdict(k) == IF k \in world.missing THEN {<<"NonexistentPackage", k>>} ELSE {}

\* resolves, answered by the cache: no request, no action.
KnownPackage(k) ==
    /\ stage = "existence"
    /\ k \in pending
    /\ pending' = pending \ {k}
    /\ findings' = findings \cup Verdict(k)
    /\ UNCHANGED <<inputs, config, stage, snapshots, probed, sent, actions, warnings>>

\* resolves, answered by the registry.
ResolvePackage(k) ==
    /\ stage = "existence"
    /\ k \in pending
    /\ pending' = pending \ {k}
    /\ sent' = sent \cup {<<"existence", k>>}
    /\ actions' = actions \cup
         {<<"existence", k, IF k \in world.missing THEN "NotFound" ELSE "Resolved">>}
    /\ findings' = findings \cup Verdict(k)
    /\ UNCHANGED <<inputs, config, stage, snapshots, probed, warnings>>

\* Mutant: an outage is taken for a missing package.
OutageMeansMissing(k) ==
    /\ stage = "existence"
    /\ k \in pending
    /\ pending' = pending \ {k}
    /\ sent' = sent \cup {<<"existence", k>>}
    /\ actions' = actions \cup {<<"existence", k, "Error">>}
    /\ findings' = findings \cup {<<"NonexistentPackage", k>>}
    /\ UNCHANGED <<inputs, config, stage, snapshots, probed, warnings>>

\* No connection, a rate limit or an unexpected status.
ResolveFails(k) ==
    /\ stage = "existence"
    /\ k \in pending
    /\ pending' = pending \ {k}
    /\ sent' = sent \cup {<<"existence", k>>}
    /\ actions' = actions \cup {<<"existence", k, "Error">>}
    /\ warnings' = warnings \cup {<<"Registry", EcosystemOf(k)>>}
    /\ UNCHANGED <<inputs, config, stage, snapshots, probed, findings>>

EndRegistry ==
    /\ stage = "existence"
    /\ pending = {}
    /\ Go("tier0")
    /\ UNCHANGED <<inputs, config, pending, snapshots, probed, report>>

-----------------------------------------------------------------------------
\* tier0_probe_inputs: one input per project.
StartTier0 ==
    /\ stage = "tier0"
    /\ Go(IF "tier0" \in config THEN "projects" ELSE "tier1")
    /\ pending' = IF "tier0" \in config THEN Projects ELSE {}
    /\ UNCHANGED <<inputs, config, snapshots, probed, report>>

Listed(p) == {t \in Tables : <<p, t>> \in world.listed}

\* Where the probe of p goes with the tables it knows of.
ProbeTables(p, ts) ==
    /\ pending' = pending \ {p}
    /\ probed' = {<<p, t>> : t \in ts}
    /\ IF ts = {} THEN UNCHANGED stage ELSE Go("tables")

NoTables(p, ts) == IF ts = {} THEN {<<"NoCandidateTables", p>>} ELSE {}

\* A URL that is not of a Supabase project is refused before any request.
RefuseProject(p) ==
    /\ stage = "projects"
    /\ p \in pending
    /\ pending' = pending \ {p}
    /\ warnings' = warnings \cup {<<"ProjectRefused", p>>}
    /\ UNCHANGED <<inputs, config, stage, snapshots, probed, sent, actions, findings>>

\* The OpenAPI root adds the tables it lists to the repository's candidates.
EnumerateRoot(p) ==
    /\ stage = "projects"
    /\ p \in pending
    /\ ProbeTables(p, Candidates[p] \cup Listed(p))
    /\ sent' = sent \cup {<<"root", p>>}
    /\ actions' = actions \cup {<<"root", p, "RootEnumerated">>}
    /\ warnings' = warnings \cup NoTables(p, Candidates[p] \cup Listed(p))
    /\ UNCHANGED <<inputs, config, snapshots, findings>>

\* Mutant: only a root that answers is recorded.
UnrecordedRoot(p) ==
    /\ stage = "projects"
    /\ p \in pending
    /\ ProbeTables(p, Candidates[p])
    /\ sent' = sent \cup {<<"root", p>>}
    /\ warnings' = warnings \cup {<<"Root", p>>} \cup NoTables(p, Candidates[p])
    /\ UNCHANGED <<inputs, config, snapshots, actions, findings>>

\* A root that answers 401 or 403, something else, or nothing.
EnumerateRootFails(p) ==
    /\ stage = "projects"
    /\ p \in pending
    /\ ProbeTables(p, Candidates[p])
    /\ sent' = sent \cup {<<"root", p>>}
    /\ actions' = actions \cup {<<"root", p, "Failed">>}
    /\ warnings' = warnings \cup {<<"Root", p>>} \cup NoTables(p, Candidates[p])
    /\ UNCHANGED <<inputs, config, snapshots, findings>>

\* Mutant: a table that was asked for ends the loop over tables.
AskOneTable(p, t, outcome) ==
    /\ stage = "tables"
    /\ <<p, t>> \in probed
    /\ probed' = probed \ {<<p, t>>}
    /\ sent' = sent \cup {<<"table", <<p, t>>>>}
    /\ actions' = actions \cup {<<"table", <<p, t>>, outcome>>}
    /\ Go("projects")
    /\ UNCHANGED <<inputs, config, pending, snapshots>>

AskTable(p, t, outcome) ==
    /\ stage = "tables"
    /\ <<p, t>> \in probed
    /\ probed' = probed \ {<<p, t>>}
    /\ sent' = sent \cup {<<"table", <<p, t>>>>}
    /\ actions' = actions \cup {<<"table", <<p, t>>, outcome>>}
    /\ Go(IF probed' = {} THEN "projects" ELSE "tables")
    /\ UNCHANGED <<inputs, config, pending, snapshots>>

TableExposed(p, t) ==
    /\ <<p, t>> \in world.readable
    /\ AskTable(p, t, "Exposed")
    /\ findings' = findings \cup {<<"RlsExposed", <<p, t>>>>}
    /\ UNCHANGED warnings

\* No rows, 403 or 404: an answer, and not a warning.
TableClosed(p, t) ==
    /\ <<p, t>> \notin world.readable
    /\ AskTable(p, t, "Closed")
    /\ UNCHANGED <<findings, warnings>>

\* Mutant: a table that could not be read counts as closed.
SilentTable(p, t) ==
    /\ AskTable(p, t, "Failed")
    /\ UNCHANGED <<findings, warnings>>

\* 401, another status, a body that is not a JSON array, or no connection;
\* warnings of one cause are merged over the tables of a project.
TableFails(p, t) ==
    /\ AskTable(p, t, "Failed")
    /\ warnings' = warnings \cup {<<"Probe", p>>}
    /\ UNCHANGED findings

EndTier0 ==
    /\ stage = "projects"
    /\ pending = {}
    /\ Go("tier1")
    /\ UNCHANGED <<inputs, config, pending, snapshots, probed, report>>

-----------------------------------------------------------------------------
SkipTier1 ==
    /\ stage = "tier1"
    /\ "tier1" \notin config
    /\ Go("report")
    /\ UNCHANGED <<inputs, config, pending, snapshots, probed, report>>

\* The database URL is validated, and then connected to.
ConnectTier1 ==
    /\ stage = "tier1"
    /\ "tier1" \in config
    /\ credential = "valid"
    /\ Go("states")
    /\ sent' = sent \cup {<<"connect", Database>>}
    /\ UNCHANGED <<inputs, config, pending, snapshots, probed, actions, findings, warnings>>

ConnectTier1Fails ==
    /\ stage = "tier1"
    /\ "tier1" \in config
    /\ Go("failed")
    /\ sent' = IF credential = "valid" THEN sent \cup {<<"connect", Database>>} ELSE sent
    /\ UNCHANGED <<inputs, config, pending, snapshots, probed, actions, findings, warnings>>

\* record_catalog_result, for a set of queries of which some fail.
Query(queries, failed) ==
    /\ sent' = sent \cup {<<"catalog", q>> : q \in queries}
    /\ actions' = actions \cup
         {<<"catalog", q, IF q \in failed THEN "Failed" ELSE "CatalogRead">> : q \in queries}
    /\ warnings' = warnings \cup {<<"CatalogQueryUnavailable", q>> : q \in failed}

QueryStates ==
    /\ stage = "states"
    /\ \E failed \in SUBSET {<<"TablesWithRowSecurity", Database>>} :
         Query({<<"TablesWithRowSecurity", Database>>}, failed)
    /\ pending' = Candidates[Database]
    /\ Go("catalog")
    /\ UNCHANGED <<inputs, config, snapshots, probed, findings>>

\* Policies and grants are asked for whether or not the states were read.
QueryTable(t) ==
    /\ stage = "catalog"
    /\ t \in pending
    /\ \E failed \in SUBSET {<<"Policies", t>>, <<"Grants", t>>} :
         Query({<<"Policies", t>>, <<"Grants", t>>}, failed)
    /\ pending' = pending \ {t}
    /\ UNCHANGED <<inputs, config, stage, snapshots, probed, findings>>

EndTier1 ==
    /\ stage = "catalog"
    /\ pending = {}
    /\ Go("report")
    /\ UNCHANGED <<inputs, config, pending, snapshots, probed, report>>

\* The result reaches its reader.
Return ==
    /\ stage = "report"
    /\ Go("returned")
    /\ UNCHANGED <<inputs, config, pending, snapshots, probed, report>>

Registry ==
    \/ StartRegistry \/ StartRegistryFails \/ SkipRegistry
    \/ ReadRegistryFile \/ EndRegistries \/ MatchAdvisories
    \/ \E e \in Ecosystems : Advisories(e)
    \/ \E k \in Packages : KnownPackage(k) \/ ResolvePackage(k) \/ ResolveFails(k)
    \/ EndRegistry

Tier0 ==
    \/ StartTier0 \/ EndTier0
    \/ \E p \in Projects : RefuseProject(p) \/ EnumerateRoot(p) \/ EnumerateRootFails(p)
    \/ \E p \in Projects : \E t \in Tables :
         TableExposed(p, t) \/ TableClosed(p, t) \/ TableFails(p, t)

Tier1 ==
    \/ SkipTier1 \/ ConnectTier1 \/ ConnectTier1Fails \/ QueryStates
    \/ \E t \in Tables : QueryTable(t)
    \/ EndTier1

Next ==
    \/ \E f \in Manifests : \E text \in Texts[f] : EditManifest(f, text)
    \/ Configure \/ ConfigureFails \/ ReadManifest \/ EndManifests \/ ScanLocallyFails
    \/ Registry \/ Tier0 \/ Tier1 \/ Return

Spec == Init /\ [][Next]_vars

-----------------------------------------------------------------------------
Subjects == Packages \cup Ecosystems \cup Projects \cup {Database, "any"}
    \cup (Projects \X Tables)
    \cup ({"TablesWithRowSecurity", "Policies", "Grants"} \X (Tables \cup {Database}))

\* The variables keep their types, a scan is at a file of the list that it
\* reads, and has work pending only while it is asking: tables of one project
\* at a time.
TypeOK ==
    /\ \A f \in Manifests : files[f] \in Texts[f]
    /\ edits \in 0..MaxEdits[asked]
    /\ declared \subseteq Dependencies
    /\ private \subseteq Ecosystems
    /\ config \subseteq Features
    /\ stage \in Stages
    /\ stage # "failed" => reading \in 1..
         (CASE stage = "local"      -> Len(ManifestOrder) + 1
            [] stage = "registries" -> Len(RegistryOrder) + 1
            [] OTHER                -> 1)
    /\ snapshots \subseteq Ecosystems
    /\ pending \subseteq Packages \cup Ecosystems \cup Projects \cup Tables
    /\ probed \subseteq Projects \X Tables
    /\ stage # "tables" /\ stage # "failed" => probed = {}
    /\ \A x, y \in probed : x[1] = y[1]
    /\ \A r \in sent : r[2] \in Subjects
    /\ \A a \in actions : a[2] \in Subjects
    /\ \A f \in findings : f[2] \in Subjects \cup Dependencies \cup (Names \X Manifests)
    /\ \A w \in warnings : w[2] \in Subjects

SentAudited == {r \in sent : r[1] \in Audited}

\* README.md:27: every attempted Tier 0 GET is in the report, and with it
\* every package name that left and every catalog query; and the report
\* lists no request that was not made (an answer from the cache is none).
AuditIsComplete ==
    stage = "returned" => SentAudited = {<<a[1], a[2]>> : a \in actions}

\* Ecosystems that had a registry of their own all along: the environment's,
\* and those for which the files kept one.
Homely == world.private \cup {x[1] : x \in kept}

\* README.md:221-225: names of scoped packages, of ecosystems with a private
\* registry, and of packages that an advisory matched in any version are not
\* sent, whatever other coordinates declare the same package, and although files
\* change while they are read: a registry counts that stays, or that moves to a
\* file which is looked through later.  One that moves the other way while the
\* files are looked through is missed, and nothing is claimed for it.
NamesStayHome ==
    \A k \in Packages : <<"existence", k>> \in sent =>
        /\ \E d \in Checkable \ Scoped :
             Package[d] = k /\ Ecosystem[d] \notin Homely
        /\ \A d \in Dependencies : <<"KnownMalicious", d>> \in findings => Package[d] # k

Malicious(k) == \E d \in Dependencies : Package[d] = k /\ <<"KnownMalicious", d>> \in findings

\* A scan that was asked to look is not silent about what there is to find:
\* a malicious version, a missing public package or a table that the public
\* key reads is a finding, or some failure on the way to it is a warning; a
\* coordinate that its manifest declares all along is asked about, or has in the
\* report a flaw in that manifest, whatever else is edited.
NothingPassesUnseen ==
    stage = "returned" =>
        /\ \A p \in stated :
             p[1] \in declared \/ <<"Flawed", <<Name[p[1]], p[2]>>>> \in findings
        /\ "registry" \in asked =>
             /\ \A d \in world.malicious \cap declared :
                  \/ <<"KnownMalicious", d>> \in findings
                  \/ <<"OsvSnapshotUnavailable", Ecosystem[d]>> \in warnings
                  \/ d \in Suppressed /\ \E w \in warnings : w[2] = "any"
             /\ \A d \in Checkable \ Scoped :
                  Package[d] \in world.missing /\ Ecosystem[d] \notin private =>
                    \/ <<"NonexistentPackage", Package[d]>> \in findings
                    \/ <<"Registry", Ecosystem[d]>> \in warnings
                    \/ Malicious(Package[d])
        /\ "tier0" \in asked =>
             \A p \in Projects : \A t \in Candidates[p] \cup Listed(p) :
                <<p, t>> \in world.readable =>
                    \/ <<"RlsExposed", <<p, t>>>> \in findings
                    \/ \E w \in warnings : w[2] = p

\* README.md:225: outages, rate limits and invalid responses are warnings and
\* never findings: each finding is true of the servers.
FailuresAccuseNobody ==
    /\ \A k \in Packages : <<"NonexistentPackage", k>> \in findings => k \in world.missing
    /\ \A d \in Dependencies : <<"KnownMalicious", d>> \in findings => d \in world.malicious
    /\ \A x \in Projects \X Tables : <<"RlsExposed", x>> \in findings => x \in world.readable

FeatureOf(kind) ==
    CASE kind \in {"snapshot", "existence"} -> "registry"
      [] kind \in {"root", "table"}         -> "tier0"
      [] OTHER                              -> "tier1"

\* config.rs:130-132: the file of the scanned repository never enables a
\* request; only the command line does.
RepositoryCannotConnect == \A r \in sent : FeatureOf(r[1]) \in asked

\* README.md:27: "Every attempted Tier 0 GET is recorded as redacted
\* scan-scope evidence in JSON, SARIF, TTY, and HTML", of which a failed scan
\* writes none.
AttemptsAreReported ==
    stage = "failed" => \A r \in sent : r[1] \notin {"root", "table"}
=============================================================================
