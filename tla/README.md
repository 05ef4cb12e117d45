# vibescan in TLA+

vibescan scans a git repository for leaked credentials, Supabase keys with the
tables they open, and suspicious dependencies. It scans the working tree and
the history, optionally asks package registries and the Supabase project, and
reports findings with an exit code for CI. This directory models the parts of
it in which order, repetition, failure and several actors decide whether the
report is right, checks them with TLC, and proves the central results with
TLAPS. Paths below are relative to `src/`.

## The system

One scan is one process; its steps are sequential, but for the detection, whose
parallel map over units keeps their order:
`run()` (vibescan-cli) builds a `ScanConfig` and calls `scan()` (vibescan-core),
which calls the other crates in a fixed order. The concurrency is around it:
other scans of the same user share the registry cache, the repository is edited
between (and during) scans, servers fail in any pattern, and reports become the
baselines of later scans.

| component | state it keeps | operations | what must be right |
|---|---|---|---|
| git history walk, `vibescan-git/src/history.rs` | candidate queue, seen set, commit list, statistics, warnings | read refs, pop and visit, cut at the budget, collect each commit's changes | reachable commits once each, newest kept, truncation reported, every content found and attributed |
| unit collector, working tree, `collector.rs`, `working_tree.rs`, `repository.rs` | units by content id | push, merge locations, sort | one unit per content, no location lost, independent of order; a tree that changes while it is read |
| ignore policy, locations, `ignore_policy.rs`, `location.rs` | compiled patterns, one list of the ignore files for the history | match a path, classify a path | what is reported from the tree is reported from the history; one verdict for one repository |
| secret detector, `vibescan-secrets` | rules | merge rulesets, detect candidates in a unit | an allowlist silences the places it matches and no other |
| key classifier, `classifier.rs`; API references, `correlation.rs` | maps by content and by workspace | classify, harvest, associate | a table is probed with the project it belongs to |
| finding pipeline, `findings.rs`, `correlation.rs`, `baseline.rs`, `pipeline.rs` | the findings of the running scan, the baseline file | coalesce, correlate, deduplicate, suppress, absorb, gate | nothing lost, no false chain, stable ids, exit code |
| dependency integrity, `dependencies.rs` | parsed manifests | parse, check, find private registries | no name of a private ecosystem is asked for; what is left out is told |
| registry checks, `vibescan-registry/src/checks.rs` | grouped coordinates, advisory sets | suppress, match advisories, ask for names | names that must stay home do; failures accuse nobody |
| registry cache, `cache.rs` | archive, metadata and existence files, shared by scans | fresh read, download, two-file write | no stale answer, no mismatched pair |
| Tier 0 read probe, `tier0.rs` | tables to ask about | root, then one GET for each table | every attempt audited, no failure taken for an answer |
| Tier 1 introspection, `tier1.rs`, `catalog.rs` | catalog rows | connect, query, judge policies and grants | conclusions only from facts that were read |
| orchestration, `main.rs`, `config.rs`, `pipeline.rs` | `ScanConfig`, audit list | configure, run the stages, return or fail | only the command line enables requests; the audit reaches the report |
| report formats, `vibescan-report` | - | render | - |
| release tooling, `scripts/`, `npm/scripts/`, `.github/workflows/publish-all.yml` | what registries have, the jobs of a run | publish in order, wait, fail, start again | nothing is out before its parts; every run ends |

Interactions. The walk feeds the collector, the collector's units the detector,
the detector's candidates the classifier; classified keys name the projects
that Tier 0 probes and the workspaces whose table names it tries. Manifests feed
the registry checks, which answer from the cache or the network. All findings
meet in the pipeline, which compares them with the baseline, the report of an
earlier scan. Shared state is the cache directory, the repository and the
baseline file; there are no callbacks.

What is hard here: object stores that lack objects (shallow and partial clones),
clocks that disagree with ancestry, merges; ids that must survive a moved file
but are hashes of what a scan happened to see; stages whose order decides what a
gate or a baseline sees; two files that are one record and two processes that
write them; failures of each single request; errors that drop what was already
done. `PROJECT.json` lists these hazards line by line with the properties that
watch them, or the reason why none does yet.

## Modules

| module | role |
|---|---|
| `CommitGraph` | the objects a scan reads: commits, trees, refs, what of them can be read; reachability, first-parent changes |
| `WalkPromise` | what a caller of the walk may rely on, in one step |
| `HistoryWalk` | `collect_history`, statement by statement; implements `WalkPromise` |
| `UnitCollector` | `collect_repository` over a repository that others change: the passes over the tree, then the history, and the units made of what they read |
| `FindingPipeline` | the finding stages of `scan()`, repeated over edits and baselines |
| `RegistryCache` | the cache directory under several scans, crashes and a clock that is set |
| `IgnoreRules` | operators: which paths of the tree and of the history the ignore policy admits |
| `SecretScan` | successive scans of a repository at rest while files, commits, ignore rules and detection rules change between them; extends `IgnoreRules` |
| `DependencyManifests` | operators: what the manifests declare, their flaws, private registries, and the order in which the files are read |
| `Publish` | the releases of several versions to crates.io, npm and Homebrew |
| `ScanNetwork` | the network stages of `scan()`, what leaves the machine and what is said of it; extends `DependencyManifests` |
| `ApiAssociation` | operators: which project the table references of a repository belong to, what is skipped, what Tier 0 probes |
| `Tier1Catalog` | Tier 1 against a database whose catalog changes between the queries; extends `ApiAssociation`, which gives its candidates |
| `MC...` | the finite instances |
| `HistoryWalkProofs`, `UnitCollectorProofs`, `SecretScanProofs`, `FindingPipelineProofs`, `RegistryCacheProofs`, `ScanNetworkProofs`, `Tier1CatalogProofs`, `PublishProofs` | theorems |

Definitions marked `Mutant:` stand beside the definition they alter. They are
plausible mistakes, used to see that each property notices one; no
specification refers to them.

### HistoryWalk

`phase` is the place in `collect_history`: `tips` (lines 12-28), `walk` (30-57),
`budget` (59-67), `collect` (69-82), then `done` or, after any `?`, `failed`.
`Visit` is one turn of the loop: the candidate the sort puts first leaves the
queue, is recorded, and unless the limit is reached its unseen parents are read
and queued. The vector that the code sorts before each pop is a bag, since the
sort key (time, then id) is total and equal elements are copies. `Limit` is
`max_commits + 1` in the width of `usize`. A repository is a record with
parents, committer times, tips, trees and what of this can be read: the commits and
blobs that are `present` (held, and decodable), the commits whose whole tree is
(`trees`), and whether the refs and the tags behind them are (`refs`). Any other read
fails (`ReadTipsFails`, `VisitFails`, `CollectCommitFails`), for whatever reason: an
I/O error, a missing object, one that does not decode. Blobs stand for (id, mode) pairs; `Kind` says whether
`push_content` scans one or leaves which warning. `ScannedPaths` is the verdict
of the ignore policy.

`WalkPromise` says: an answer names reachable commits only; it carries the
budget warning exactly if it misses some, and then holds exactly the ceiling;
a failure is possible only if something that a walk of the whole history reads is
missing or damaged (`Damaged`): a ref, a commit, a tree or a blob.
`HistoryWalk` maps its running, done and failed phases to it.

### UnitCollector

`stage` follows `collect_repository`: the `plain` pass of the walker, the `forced`
one over the files that must be scanned though they are ignored, then the
`history`; `pending` holds the parts that `WalkOptions` asks for and that are still
to be done, and `Due` the order in which the code takes them. A file is listed
(`ListDirectory`), yielded and measured (`OpenFile`) and read (`ReadFile`) in steps
of their own, and between any two steps others may `Write`, `Commit` or `Drop` a
commit. A file that is gone when it is opened or read leaves only `ScanFails`; one
that has grown is caught by the second size check, in `PushContent`. A directory's
entries are read at once.

`Pushed`, `Merged` and `Normalized` are `push`, `merge_unit_location` and
`normalize_provenances` on sets: the code sorts locations and provenances, and no
consumer depends on the order of units. Which commits are visited is
`HistoryWalk`'s matter; here every commit that a ref reaches when `ReadRefs`
happens is collected, in any order. Two auxiliary variables serve the properties:
`reads`, what `push_content` was given, and `steady`, what has been in view since
the scan began. A commit that is dropped takes its content out of `steady`: a scan
cannot promise to find what moves from a discarded commit into a file that it
has read already.

### IgnoreRules and SecretScan

A path is the sequence of its names. A pattern is a name, matched at any depth, or
the star, negated or not: enough for what differs between the two readers of the
rules. The walker takes each ignore file relative to its own directory, nearer ones
and `.vibescanignore` first (`TreeVerdict`), and prunes directories (`PlainAdmits`);
its precedence is that of the `ignore` crate with the builder calls of
`working_tree.rs:12-19`. `build_history_ignores` makes one list of all files,
in the order in which `read_dir` yields them (`ReadOrders`), with every
pattern relative to the root (`ListVerdict`), and matches a path and then the
directories above it (`HistoryVerdict`). What the force patterns and the hard
skips match is a constant.

`SecretScan` is a scan in three steps, as `scan()` has them: `BuildPolicy` (with the
order of the ignore files), `Collect` (units from tree and history), `Detect` or, for
a custom rule with a known id, `RulesRejected`. Between two scans the user edits a file,
commits one, edits an ignore file, adds a path allowlist, a custom rule or the
allowlisting of a commit. A line is what the detector notices of it (`LineFacts`);
`Retained` is the filter of the locations of a unit by allowlists. `changed` remembers
which sorts of edits came since the last report: `ReportedStaysReported` excuses
only an edit that asks for silence.

### FindingPipeline

A scan is `Classify` (the classified keys, coalesced once), `Gather` (generic
candidates, dependency findings, probes), `Correlate` (coalesced again, chains
added, deduplicated), `Suppress` (the baseline) and `Report` (absorption, exit
code). Between scans the repository and the backend change (`Edit`), and a
report is saved as a baseline in either form that `Baseline::load` reads:
`SaveReport`, the ids of a report's findings, or `SaveList`, every id it
mentions. A finding id, a hash in the code, is the tuple of what is hashed: so
distinct inputs have distinct ids, which is the one assumption about SHA-256.
Tier 1 and dependency facts are inputs; a Tier 0 fact is found only for a
project that a classified public key names, as `tier0_probe_inputs` has it.

### RegistryCache

One archive, one metadata file and one existence entry, several scans.
`atomic_write` is one step that happens or does not (`WriteFails`), because it
renames a complete temporary file. Everything around it is interleaved: the
read of the metadata, the read of the archive, the download, the time taken at
line 89, the two writes. The content of a file is the moment at which it was
the server's answer, so that the age of an answer can be stated. The clock is
true time plus a skew that `SetClock` changes at will within `MaxSkew`; `Damage`
makes the archive unreadable; `Crash` ends a scan anywhere.

The one assumption on timing is `Hold`: a scan does not sleep for longer than
that between steps that depend on each other. Without such a bound the code
promises nothing (a process stopped between download and write writes old data
under a current time), and the bounds proved are in terms of it.

### ScanNetwork

`sent` is what a server would log and `actions` what the report says, kept
apart on purpose: every step that sends has to record, and the audit property
compares the two. `world` says what is true of the servers; a server that
answers answers truly, and any request may fail instead. `config` is derived
from the command line and the file as `run()` derives it. Stage after stage
follows `scan()`: advisories of each ecosystem, exact matches, names to ask for,
roots and tables of each project, the Tier 1 connection and its queries. Its
constant `Candidates` is any association of tables with projects; the one the
code makes is `ApiAssociation`'s.

`files` are the manifests and registry configurations on disk, and `reading` the
position of the one that is read next. `ReadManifest` parses one of them after another, in
`ManifestOrder`, into `declared`, the coordinates without a flaw. For the registry checks
`StartRegistry` looks at the environment, and `ReadRegistryFile` goes through the
files again, in `RegistryOrder`, for `private`: the `.npmrc` and `pip.conf` of the
root, then requirements, `pyproject.toml` and the `.npmrc` beside each `package.json`.
`EditManifest` may come before, after and between any two of these reads. Two
auxiliary variables say what a scan owes although files change: `stated` holds the
declarations that have been in their manifest since the scan began, and `kept` the
registries that have been in their file since then, or have moved to a file that is
looked through later while both had them (`Handed`). `Homely` are the ecosystems of
these and of the environment; their names are the ones that a scan must keep. A
registry that moves to a file which was already looked through is missed; see the
remarks.

### Publish

`job`, `index` and `attempt` are the place of a run of `publish-all.yml`: the loop of
`publish-crates.sh`, then that of `publish-packages.mjs`, then the formula. Each step
publishes the next item (`Succeed`), publishes it and loses the answer
(`LoseAnswer`), fails (`Refuse`) or is told to wait (`RateLimit`, crates.io only).
A failed job may be started again from its first item (`Rerun`), which the
registries refuse if it is out, or a later version is released. What
a registry accepts (`Acceptable`) is external: no version twice, and no crate whose
dependencies it cannot resolve, in this version or a later one.

### ApiAssociation and Tier1Catalog

A unit is reduced to its content id, the scopes of its locations, the names of
the tables and functions it uses, and the projects its keys name, public and
elevated ones apart. `Associated` is the set among which `unique_project`
looks: the projects of the content or, if it names none, those of the scope. A
reference is resolved if that set has one member; `Skipped` is the coverage
warning. Each source counts with its own project and not with the one its key
adopts when it is coalesced, as `ClassifiedKeySource` has it. A repository does
not change during a scan, so these are operators and not actions.

`stage` of `Tier1Catalog` is the query that is next: `ReadStates` once, then
`ReadPolicies` and `ReadGrants` for each candidate, the second of which ends with
the judgement of that candidate (`Judged` is `detect_tier1_table_findings`).
Every query reads the catalog of its own moment, or fails. The administrator's
statements (`CreateTable` to `Revoke`) come between any two; dropping a table drops
what belongs to it. A policy is its table, command, kind and predicate, the
latter absent, literally true or anything else; the roles of a policy are read by
the code and not looked at, so they are left out. A finding is what its id
hashes. `seen`, which no action reads, collects the catalogs of a scan.

## Runs

| run | result | what it shows |
|---|---|---|
| `history_walk` | passes | types and no repeated visit; with agreeing clocks the newest commits are kept; the answer hangs together from the refs; first-parent diffs miss no content; attribution; `WalkPromise` holds; the walk returns |
| `history_shallow` | violates `ShallowDegrades` | a shallow clone makes the walk fail where the architecture promises a warning |
| `unit_collector` | passes | units are canonical in every order of reads and hold exactly what was read; a file is read once; what stays in view, in the tree or in a commit, is found or warned of |
| `findings` | passes | ids are unique; no place of a key is lost; chains are witnessed; moved files resurrect nothing; the gate sees what is absorbed |
| `baseline_report` | violates `RescanIsClean` | a report used as baseline brings absorbed findings back |
| `registry_cache` | passes | the age of an answer is bounded; metadata never overstate the archive; an archive is put back by one hold at most |
| `scan_network` | passes | audit, egress of names although manifests change between the reads of any two, no silent failure, no false finding, no request the command line did not ask for |
| `tier1_catalog` | passes | Critical findings were true of the table they name at some moment; what stays open is told; a failing query costs its own conclusions only; apps do not influence what is asked of each other's projects; a file that is added drops no probe in silence |
| `secret_scan` | passes | the allowlisting of one place of a content spares the others; what was reported stays reported while it is there and nobody asks for silence; two scans of one repository agree whatever `read_dir` does |
| `ignore_nested` | violates `DeletedStaysReported` | patterns of a nested ignore file silence the history of the whole repository |
| `publish` | passes | nothing is published before its parts, through refusals, lost answers and reruns; every run ends |
| `scan_audit` | violates `AttemptsAreReported` | a failing Tier 1 connection drops the record of the Tier 0 requests |

The four violations are disagreements of the code with the line of a document,
comment or test that the property quotes. `PROJECT.json` has both sides.

### Bounds

- History: four commits are enough for a branch, a merge of two lines, a commit
  queued through two children, several tips and skewed clocks; every
  combination of two committer times, all trees over two histories, each
  single missing object, unreadable refs, and the tree of each single commit damaged. Ceilings 0, 1, 2 and 4 lie below, at and at the end of
  the histories, next to no ceiling. `usize` is 64 values wide in the passing
  run, so nothing wraps there.
- Units: three paths in two directories, one admitted by both passes, one
  ignored and forced, one seen by the history alone; two texts, a binary and a
  large content; three commit ids, so that commits arrive against the order of
  their hashes; three edits: commit, remove and write again, or a change of a file
  before each of the steps that handle it.
- Findings: one public key that is seen with two projects and without any, a
  committed elevated key of one of them, a generic token; a readable table, a
  missing policy, a dependency; two edits. Two projects are the least with
  which adoption is ambiguous; two edits are a move (one place removed, one
  added), or two repairs.
- Cache: two scans, a TTL and a hold of one tick, five ticks: an entry expires
  twice, and a slow writer meets a fresh one. One damage. The scans are
  symmetric; no property names one.
- Network: two npm coordinates of one package and a git fork of it, a PyPI
  package, a scoped one, one with a token; one project with a table the
  repository names and one that only the root lists. Five files: a `package.json`
  with or without a flaw in one name, a lock file that declares the same name, an
  `.npmrc`, a `pip.conf` and a `requirements.txt` with or without a registry of their
  own. The file `vibescan.toml` turns every feature on; the command line asks for
  every set of features. Edits are bounded by that set (`MaxEdits`): three if it is
  the registry checks alone, of which two move an index from one file to another and
  the third does something else; one for a scan without network features; none where
  other network stages take part, for these read nothing of the files.
- Secrets: two files of one name in two directories, one that is forced and one
  that is also a hard skip; ignore files of two kinds at the root and one below;
  patterns that drop a name, a directory, or everything but a name; two contents of
  two lines each; two commits; three edits, which is a commit, a deletion and one
  more. `IgnoreNested.cfg` needs two.
- Releases: the crates, dependencies and platforms of the repository, twelve attempts
  as in the script, two versions.
- Tier 1: a table of one name in two schemas, named with and without its
  schema, since only then names and tables are not one to one; an opening policy
  on one, a restrictive one on the other, a write privilege; every catalog of
  these, and two changes, which is one between each pair of the queries of a
  candidate. For the association three files in two apps, one of them in both:
  two files give a scope two projects, the third is the reference that suffers.

`MaxTime`, `MaxDamage`, `MaxEdits`, `MaxChanges`, `Hold` and `MaxSkew` are the bounds on
counters; the theorems hold for all their values.

Deadlock is checked wherever an endless behaviour is meant (`findings`,
`registry_cache`, `secret_scan`). A release, a history walk, a collection, a scan of `ScanNetwork` and
an introspection end, so their configurations turn the check off.

### Fairness

`WalkReturns` assumes `WF_vars(Next)`: a sequential function is executed until it
returns. `RunEnds` assumes `WF_vars(Step(v))` for each version: a job that was started
is executed, by a hosted runner, and each call of `cargo` or `npm` returns. No
registry owes an answer other than a rate limit, and nobody has to start a
job again. Nothing else is assumed to happen; servers, clocks and other
processes owe nothing.

## Proofs

All of the following hold for every value of the constants that satisfies the
named assumptions of the modules.

**History walk.** `TypeSafe`, `ProvenanceIsRight` need no further assumption.
`WalkIsSettled`, `WalkKeepsContract` and `WalkKeepsNewest` assume `NoOverflow`,
that no ceiling sits at the top of `usize`, since there the limit wraps (see the
remarks). The invariant is `WalkInv`, the conjunction of
`TypeInv` (types, list and seen set agree), `Traced` (what is queued, seen and
collected is reachable), `Frontier` (while walking, each parent of a visited
commit is visited or queued: at an empty queue the visited set is therefore
closed and contains everything reachable), `Stopped` (why the loop ended),
`Settled` (what the budget cut) and `Unsettled` (no warning before it).
Reachability is "in every parent-closed set that contains the tips", so no
induction over paths is needed: `Frontier` makes the visited set such a set.
`WalkKeepsNewest` adds `NewestInv`: with agreeing clocks visits descend in time
and nothing queued is newer than what was visited. The refinement maps initial
states to initial states and each step to an answer, a failure or a stutter
(`StepMapped`); `FailureHasCause` names what is missing or damaged.
`AnswerIsConnected` follows the queue (`QueueConnected`: what waits is a tip or a
parent of a visited commit). `TreesAreCovered` is about diffs against first parents:
`ScannedCovered` says that the changes of each scanned commit are covered, and the
step to whole trees goes by contradiction over the set of the reachable commits whose
tree has one content at one path and does not have it covered: a member without a parent
in that set has a first parent with something else there, or none, so it changed the
path and was covered.
That there is such a commit is `AcyclicAssumption`: a commit id hashes the ids of
the parents, so no commit is its own ancestor. It is stated by sets (each nonempty set
of commits has one without a parent in it), which is the form that needs no induction.
`WalkAdvances` and `WalkIsNeverStuck` are the two halves of termination that are not about
fairness: each step goes to a later phase, visits one more commit, takes one occurrence
out of the queue or collects one more commit of the list, and a queue that is not
empty has a first candidate. The latter is the least of the finite sets of candidates
`Ahead` of one, by the library's well-foundedness of strict inclusion, and
`FiniteAssumption` (an object store is finite) is there for it.

**Units.** `CollectorInv` is the conjunction of the types, `UnitsInv` (the units
are canonical, and hold a triple of content, path and provenance exactly if it was
read), `ReadOnce` (a read file was yielded, is no longer open, and has one read) and
`StatsInv`. It rests on lemmas about the operators: `NormalizedAdds`, `MergedAdds`
and `PushedAdds` say that each adds one triple and keeps the order, whatever it is
applied to, so no induction over the reads is needed; `CanonicalIsFinal` that
`into_units` has nothing left to do. `SteadyIsFound` adds `Covered`, which says for
each stage where a steady content is to be found: still to be listed, listed, open,
read, or in a commit that is still to come. Its step from the tree to the
history, `ReadRefs`, is the one that needs the order of the two.

**Secrets and the ignore policy.** `PlaceInv` keeps the units canonical and the
report that of the units, from which `PlacesStayIndependent` follows: the unit of a
content is the only source of its candidates, and `Retained` judges one location
at a time. `RescansAgree` and `ReportsStay` rest on three facts: a scan under way holds an
order of reading that is possible for the rules as they are, and units collected with it
(`OrderInv`); the last report is that of the repository in some such order, until
something changes (`RescanInv`); and each reported place is justified (`StayInv`) by facts
that a change of the tree, a further commit or a further rule cannot take away. `StayInv`
also says that an allowlist names known commits only, so a later commit is not
allowlisted already. What is left is about the policy alone: without a negated
pattern every order of reading admits the same (`OrderIsImmaterial`), and with the
rules in one file at the root, moreover, history admits what the tree does
(`RootAdmits`), although the walker takes the verdict of every directory and the
history that of the nearest one. That the maxima in `Verdict`, `ListVerdict` and
`HistoryVerdict` exist is `GreatestExists`, from the library's well-foundedness of
the naturals. `IgnoreAssumption` and `SecretAssumption` say what this needs of the
constants: paths and rule lists are finite sequences, the files of rules are finitely
many, the first scan finds a well-typed repository.

**Findings.** `GateIsRight` rests on a single fact, `GateOverAbsorption`: what
is absorbed is absorbed by a composite that is there and is Critical.
`NothingIsLost` follows the places of a key through the five stages
(`StageInv`). Its core is `AdoptedTwice`: coalescing the classified keys and then
coalescing again, after other findings have joined, puts every key under the id
that a single coalescing of all occurrences would give it. `ChainsHavePlaces`
and `AbsorbedSights` carry the places over correlation and absorption.
`PipelineTypeSafe` needs that ids stay unique, which coalescing establishes and
correlation keeps (`ScanTypes`). `ChainsAreWitnessed` follows a project instead of a place:
whatever a key was adopted by was seen with it (`ProjectIsSeen`, `WitnessInv`).
`MovedFilesStayQuiet` rests on `QuietInv`: the ids of findings other than composites are a
function of the contents, not of where they are (`PlainIds`), at each stage all of them
are there or in the baseline, and so an accepted list of ids still names them when
files were moved.

**Cache.** `CacheInv` adds to the types that a scan between dependent steps is
prompt (`Prompt`), that files and stamps are no older or newer than one hold and
the skew allow (`FilesOnTime`, `StampsOnTime`) and that fresh metadata mean a
young archive (`FreshMeansYoung`). The last one is what no run of a test can
see: metadata of one download beside the archive of another still bound its age.
The three bounds and the type invariant follow, for any number of scans.

**Network.** `AuditIsAlwaysComplete` strengthens the property from the end of a
scan to each of its states (`AuditInv`). `ScopeInv` ties each stage that sends to
its feature, and every name that was sent to the set `Askable`, which is settled
before the first name is asked for: from it follow `NoFalseAccusation`,
`OnlyTheCommandLineConnects` and, with `RegistriesInv`, `NamesAlwaysStayHome`.
`RegistriesInv` follows the second reading: each registry that was `kept` is in its file,
and the reading has yet to come to that file unless the ecosystem is in `private`
already. An edit keeps this since `Handed` lets a registry move onwards only. `NothingIsPassedUnseen` needs to know
in each stage where what is due is: still pending, found, or covered by a warning
(`SeenInv`, with `ManifestsSeen`, `AdvisoriesSeen`, `PackagesSeen` and `ProbesSeen`); a
stage is left only when nothing is pending. `ScanTypeSafe` says that work is pending
in no other stage than its own.

**Tier 1 and association.** `ProjectsAreIsolated` and `DroppedProbesAreTold` are
about every repository with one unit for each content: in the units around a
project a content names what it names everywhere (`SelectedContent`), and a scope
where the project is named is there with all its units (`SelectedScope`), so a
reference is associated alike (`SameAssociation`). `CriticalWasTrue` rests on
`RowsWereTrue`: the rows at hand are those of a catalog there was. They may be of
two different catalogs; it holds since each Critical conclusion needs the rows of
one query only, and fails for a conclusion that needs two. `CatalogAccount` is the account
of a scan: the warnings are exactly the failed queries (`WarningsTell`), as long as no
catalog but the first was seen the findings are exactly what that catalog is good for
less what rests on a failed query (`JudgedExactly`), and whatever the catalogs were, the rows at
hand are judged at each candidate (`AskedAreTold`). `FailuresOnlySuppress` and
`OpenTablesTold` are its consequences at the end of a scan.

**Releases.** `NothingBeforeItsParts` adds to the types what a job has passed
(`Passed`): the items before `index` are out, and so is everything of the jobs that it
needs. A job that is started again has passed nothing, and whatever was published stays
(`OutGrows`), so neither a failure nor a rerun nor another version disturbs it;
`OutInOrder` is the one place where the order of the lists counts, by
`OrderAssumption`, which the run checks of the crates of the repository.

**Only model-checked.** Every invariant and every action property of a passing run is
proved. `WalkReturns` and `RunEnds` stay with TLC: liveness under fairness is outside
what the provers handle; of the first, `WalkAdvances` and `WalkIsNeverStuck` prove what is not
about fairness. The four properties that the code violates have their
counterexamples. Induction with an operator as its parameter is out of reach as well,
which rules out theorems about what a recursive definition computes; none of the
modules needs one, since reachability, acyclicity and maxima are stated by sets.

## Abstractions

- Names, contents, keys and URLs are values; the syntax that recognizes them
  (regular expressions and entropy of detector rules, globs beyond a name and the
  star, the formats of manifests, URL normalization, location classes) is not
  modelled. It keeps no state and meets no other actor.
- `SecretScan` finds the repository at rest during a scan; edits during one are
  `UnitCollector`'s. A commit there puts one content at one path.
- Formatting and rendering, statistics and timestamps are left out.
- The order of lists whose consumers sort or deduplicate them is left out:
  findings, warnings and actions are sets.
- A commit's parents are distinct: git writes no commit with the same parent twice.
- Files that appear or go during a scan are left out: an edit changes the text of one. A
  manifest that is gone when it is read again is an error of the code
  (`StartRegistryFails`).
- Builds without the network and registry features, and `registry_newcomer`,
  which always fails, are left out.

## Remarks on the code

Seen while modelling, and not the subject of a run of their own:

- A ceiling of `usize::MAX` wraps `max_commits + 1` (`history.rs:17`) to zero in a
  release build: the walk stops after one commit and no warning says so.
- Repairing one of several accepted RLS findings gives the elevated-key composite a
  new id (`correlation.rs:123`), which no baseline names: the gate fails.
- `run()` clears the network flags of `vibescan.toml` (`main.rs:160-175`), so a file
  cannot turn off what the command line turns on, though the comment at
  `config.rs:130` says that it may disable work.
- Provenances of one content at one path are merged, so an allowlisted commit also
  silences the file in the working tree, and later commits that bring the same
  content back (`detector.rs:222-226`).
- A name in `path_allowlists` prunes a directory of the working tree, and in the
  history matches only the path itself (`ignore_policy.rs:69`); `.git/info/exclude`
  and global ignore files count in the tree and not in the history.
- With negated patterns in two ignore files the verdict of the history depends on
  the order of `read_dir`; `RescanAgrees` is stated without them, or with one file at the
  root, and so says nothing of the case in which the order matters.
- A requirement with an environment marker and no version, such as
  `name; python_version < "3.9"`, is cut at the comparison (`dependencies.rs:580`),
  has an invalid name, and is reported; `.npmrc` lines with blanks around the `=`
  name no registry (`dependencies.rs:133`), nor does a file that cannot be read
  (`dependencies.rs:91`).
- The files are looked through for registries one after another
  (`dependencies.rs:88-128`). If `requirements.txt` names an index, and this moves to
  `pip.conf` (added there, then removed) after `pip.conf` was read and before
  `requirements.txt` is, none is seen and the names of the ecosystem are sent, though it
  had an index of its own at every moment and `README.md:223` excludes such
  ecosystems. `NamesStayHome` therefore speaks of registries that stay or move
  onwards; without that condition (in `Handed`) the run finds this sequence.
- A release that failed halfway cannot be completed, as its job begins with a crate
  that is out; a new version is the way on. Starting a failed formula job of an
  older version again puts the older formula back.
- A table that is open throughout a scan, first by a literal-true policy and then
  by disabled row security, is reported by neither query: `OpenTablesAreTold` is
  stated for one lasting reason.
- Medium and High conclusions of Tier 1 need the rows of two or three queries and
  may be true of no single catalog.
- With row security on and no policy for a command, `MissingOperationPolicy` says
  that the operation is denied, and `InferredWriteExposure` reports the same
  operation as exposed if an API role has the privilege (`tier1.rs:336`, `360`).
- Roles of policies are read and not looked at: a literal-true policy for a role
  that is not an API role is Critical.
- The coverage warnings of skipped references are appended only if Tier 0 runs
  (`pipeline.rs:135`); Tier 1 alone leaves them out. A table of a project that only
  an elevated key names is neither probed nor warned of.
- Scopes join units across revisions: a project that only an old commit of an app
  names is that app's project for the references of today, while
  `docs/HIGH_PRIORITY_GAPS_PLAN.md:488` has historical versions exchange no
  project context (and its rule 2, line 474, joins units by scope). `AppsAreIsolated` and
  `NothingDropsUntold` do not see this: they compare what one repository gives with
  what it gives without other apps or files.

## Plan

Done: `HistoryWalk` under `WalkPromise`, `UnitCollector`, `SecretScan` with `IgnoreRules`,
`FindingPipeline`, the modules with other actors, `RegistryCache`, `ScanNetwork` with
`DependencyManifests`, `Tier1Catalog` with `ApiAssociation`, and `Publish`. Next, in this
order:

1. The other halves of what is proved: `NoOverflow` replaced by what a wrapped ceiling
   still guarantees, the order of the releases of several versions, and for `RunEnds`
   that each step of a release advances it.
2. The choice of the probing key among several of a project
   (`probe_input_is_better`), refs in two files, and symlinks in `UnitCollector`.

## Not modelled

Report formats (`vibescan-report`): a pure function of a finished result, whose
property would be its wording. Data contracts (`vibescan-types`): types whose shapes the
modules use. Location classes (`location.rs`): path heuristics, constants of
`FindingPipeline`. Version and tarball checks of the release scripts, the dry runs, the
binary jobs and the npm launcher: checks of fixed inputs before anything is
published.
