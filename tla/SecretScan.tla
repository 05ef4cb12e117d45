----------------------------- MODULE SecretScan -----------------------------
(***************************************************************************)
(* Which secrets successive scans of one repository report, while files,   *)
(* commits, ignore rules and detection rules change between the scans:     *)
(* the ignore policy over tree and history (IgnoreRules), the units that   *)
(* collect_repository makes of what it admits, load_detector, and          *)
(* Detector::detect_units with its allowlists for each location.           *)
(*                                                                         *)
(* Here a scan finds the repository at rest; UnitCollector has the edits   *)
(* during one.  A commit is the content that it put at one path.           *)
(***************************************************************************)
EXTENDS IgnoreRules

CONSTANTS
    Contents, NoContent,
    Lines,          \* Lines[c]: the lines of a content, none if it is binary
    DefaultRules,   \* the ids of the embedded ruleset
    CustomRules,    \* the ids that a custom ruleset may use
    Generic,        \* the rules that look for generic high entropy
    RuleSkips,      \* RuleSkips[r]: the paths that r's and global allowlists name
    IgnoreTexts,    \* what a file of rules may say: sequences of [pattern, keep]
    Names,          \* what path_allowlists may name
    Repositories,   \* [tree, history, ignores] that the first scan may find
    CommitIds,
    MaxEdits

Rules == DefaultRules \cup CustomRules
WorkingTree == 0
Sources == {WorkingTree} \cup CommitIds

\* What the detector notices of a line: the rules whose keywords, regex and
\* entropy it satisfies, those whose stopwords or regexes allow it, the inline
\* marker, and a length above MINIFIED_GENERIC_LINE_THRESHOLD.
LineFacts == [hits : SUBSET Rules, allowed : SUBSET Rules, marked : BOOLEAN,
              minified : BOOLEAN]

ASSUME SecretAssumption ==
    /\ NoContent \notin Contents
    /\ Generic \subseteq Rules
    /\ CommitIds \subseteq Nat \ {0}
    /\ Lines \in [Contents -> SUBSET LineFacts]
    /\ RuleSkips \in [Rules -> SUBSET Paths]
    /\ <<>> \in IgnoreTexts
    /\ \A text \in IgnoreTexts : text \in Seq(Range(text))
    /\ \A r \in Repositories :
          /\ r.tree \in [Paths -> Contents \cup {NoContent}]
          /\ r.history \subseteq [id : CommitIds, path : Paths, content : Contents]
          /\ r.ignores \in [IgnoreFiles -> IgnoreTexts]
    /\ MaxEdits \in Nat

VARIABLES
    tree,           \* the working tree
    history,        \* the commits, [id, path, content]
    ignores,        \* what the files of rules say
    skips,          \* the path_allowlists of the configuration
    ruleset,        \* the custom ruleset: [rules, commits], of which the second
                    \* is what its allowlists name
    edits,
    stage,          \* where the scan is
    pos,            \* the order in which the files of rules were read
    units,          \* [content, locations]
    report,         \* the candidates of the last scan that succeeded
    changed         \* auxiliary: what was edited since that scan, and "all"
                    \* until there is one

repository == <<tree, history, ignores, skips, ruleset>>
vars == <<repository, edits, stage, pos, units, report, changed>>

-----------------------------------------------------------------------------
Init ==
    /\ \E r \in Repositories :
          tree = r.tree /\ history = r.history /\ ignores = r.ignores
    /\ skips = {}
    /\ ruleset = [rules |-> {}, commits |-> {}]
    /\ edits = 0
    /\ stage = "idle"
    /\ pos = <<>>
    /\ units = {}
    /\ report = {}
    /\ changed = {"all"}

Edit(what) ==
    /\ stage = "idle"
    /\ edits < MaxEdits
    /\ edits' = edits + 1
    /\ changed' = changed \cup {what}
    /\ UNCHANGED <<stage, pos, units, report>>

Write(p, c) ==
    /\ Edit("tree")
    /\ tree[p] # c
    /\ tree' = [tree EXCEPT ![p] = c]
    /\ UNCHANGED <<history, ignores, skips, ruleset>>

Commit(p, n) ==
    /\ Edit("history")
    /\ tree[p] # NoContent
    /\ \A k \in history : k.id # n
    /\ history' = history \cup {[id |-> n, path |-> p, content |-> tree[p]]}
    /\ UNCHANGED <<tree, ignores, skips, ruleset>>

\* With no text the file is gone.
WriteIgnoreFile(f, text) ==
    /\ Edit("ignores")
    /\ ignores[f] # text
    /\ ignores' = [ignores EXCEPT ![f] = text]
    /\ UNCHANGED <<tree, history, skips, ruleset>>

\* A pattern is added to [ignore] paths of the configuration file.
AddSkip(n) ==
    /\ Edit("ignores")
    /\ n \in Names \ skips
    /\ skips' = skips \cup {n}
    /\ UNCHANGED <<tree, history, ignores, ruleset>>

\* A known commit is added to an allowlist.
AllowCommit(k) ==
    /\ Edit("allow")
    /\ k \in history
    /\ k.id \notin ruleset.commits
    /\ ruleset' = [ruleset EXCEPT !.commits = @ \cup {k.id}]
    /\ UNCHANGED <<tree, history, ignores, skips>>

AddRule(r) ==
    /\ Edit("rules")
    /\ r \in CustomRules \ ruleset.rules
    /\ ruleset' = [ruleset EXCEPT !.rules = @ \cup {r}]
    /\ UNCHANGED <<tree, history, ignores, skips>>

-----------------------------------------------------------------------------
\* The scan.

\* IgnorePolicy::new.
BuildPolicy ==
    /\ stage = "idle"
    /\ stage' = "collect"
    /\ pos' \in ReadOrders({f \in IgnoreFiles : ignores[f] # <<>>})
    /\ UNCHANGED <<repository, edits, units, report, changed>>

\* Where a content was found at a path: in the tree, or in commits.
SourcesOf(c, p) ==
    {s \in Sources :
        \/ s = WorkingTree /\ tree[p] = c /\ TreeAdmits(skips, ignores, p)
        \/ /\ [id |-> s, path |-> p, content |-> c] \in history
           /\ HistoryAdmits(skips, ignores, pos, p)}

LocationsOf(c) ==
    {[path |-> p, sources |-> SourcesOf(c, p)] :
        p \in {q \in Paths : SourcesOf(c, q) # {}}}

\* Both passes over the tree and the walk, merged by content and path.
Collect ==
    /\ stage = "collect"
    /\ stage' = "detect"
    /\ units' = {[content |-> c, locations |-> LocationsOf(c)] :
                    c \in {d \in Contents : LocationsOf(d) # {}}}
    /\ UNCHANGED <<repository, edits, pos, report, changed>>

\* RulesetConfig::merge rejects a custom rule with a known id.
Mergeable == ruleset.rules \cap DefaultRules = {}

\* The embedded rules and the custom ones.
Loaded == DefaultRules \cup ruleset.rules

\* detect_line and the conditions of CompiledRule::detect on the match itself.
Fires(r, line) ==
    /\ r \in line.hits
    /\ ~line.marked
    /\ ~(r \in Generic /\ line.minified)

\* applies_to_path, and CompiledAllowlist::matches for the allowlists of the
\* rule and for the global ones.
Allowed(r, line, l) ==
    \/ l.path \in RuleSkips[r]
    \/ r \in line.allowed
    \/ l.sources \cap ruleset.commits # {}

\* Mutant: one allowed location silences the candidate.
AllOrNothing(r, line, u) ==
    IF \E l \in u.locations : Allowed(r, line, l) THEN {} ELSE u.locations

Retained(r, line, u) == {l \in u.locations : ~Allowed(r, line, l)}

\* Mutant: a candidate of which no location is left is kept.
HomelessKept(u) ==
    {[rule |-> m[1], line |-> m[2], content |-> u.content,
      locations |-> Retained(m[1], m[2], u)] :
        m \in {n \in Loaded \X Lines[u.content] : Fires(n[1], n[2])}}

\* detect_unit.
Candidates(u) ==
    {[rule |-> m[1], line |-> m[2], content |-> u.content,
      locations |-> Retained(m[1], m[2], u)] :
        m \in {n \in Loaded \X Lines[u.content] :
                 Fires(n[1], n[2]) /\ Retained(n[1], n[2], u) # {}}}

Detect ==
    /\ stage = "detect"
    /\ Mergeable
    /\ stage' = "idle"
    /\ report' = UNION {Candidates(u) : u \in units}
    /\ changed' = {}
    /\ UNCHANGED <<repository, edits, pos, units>>

\* The scan fails without a report; the last one stays what it was.
RulesRejected ==
    /\ stage = "detect"
    /\ ~Mergeable
    /\ stage' = "idle"
    /\ units' = {}
    /\ UNCHANGED <<repository, edits, pos, report, changed>>

Next ==
    \/ \E p \in Paths, c \in Contents \cup {NoContent} : Write(p, c)
    \/ \E p \in Paths, n \in CommitIds : Commit(p, n)
    \/ \E f \in IgnoreFiles, text \in IgnoreTexts : WriteIgnoreFile(f, text)
    \/ \E n \in Names : AddSkip(n)
    \/ \E k \in history : AllowCommit(k)
    \/ \E r \in CustomRules : AddRule(r)
    \/ BuildPolicy \/ Collect \/ Detect \/ RulesRejected

Spec == Init /\ [][Next]_vars

-----------------------------------------------------------------------------
Locations == [path : Paths, sources : (SUBSET Sources) \ {{}}]

\* The variables keep their types, and a candidate of the report is at a place
\* at least.
TypeOK ==
    /\ tree \in [Paths -> Contents \cup {NoContent}]
    /\ history \subseteq [id : CommitIds, path : Paths, content : Contents]
    /\ ignores \in [IgnoreFiles -> IgnoreTexts]
    /\ skips \subseteq Names
    /\ ruleset \in [rules : SUBSET CustomRules, commits : SUBSET CommitIds]
    /\ edits \in 0..MaxEdits
    /\ stage \in {"idle", "collect", "detect"}
    /\ DOMAIN pos \subseteq IgnoreFiles
    /\ units \subseteq [content : Contents, locations : (SUBSET Locations) \ {{}}]
    /\ \A f \in report :
          /\ f.rule \in Rules /\ f.content \in Contents
          /\ f.line \in Lines[f.content]
          /\ f.locations \in (SUBSET Locations) \ {{}}

Reports(r, line, c, p) ==
    \E f \in report : f.rule = r /\ f.line = line /\ f.content = c /\
        \E l \in f.locations : l.path = p

Held(c, p) ==
    tree[p] = c \/ \E k \in history : k.path = p /\ k.content = c

\* What a place of a content is reported for does not depend on the other
\* places of that content: an allowlist takes away the occurrences that it
\* matches and no other, although the content is scanned once for all of them
\* (docs/HIGH_PRIORITY_GAPS_PLAN.md:326).
PlacesAreIndependent ==
    stage = "idle" /\ changed = {} =>
        \A u \in units : \A l \in u.locations :
            \A r \in Loaded : \A line \in Lines[u.content] :
                Reports(r, line, u.content, l.path) <=>
                    \E f \in Candidates([u EXCEPT !.locations = {l}]) :
                        f.rule = r /\ f.line = line

\* All rules are in one file at the root.
RootRulesOnly ==
    \E g \in IgnoreFiles : g.dir = <<>> /\
        \A f \in IgnoreFiles : ignores[f] = <<>> \/ f = g

Stays(f, l) ==
    /\ Held(f.content, l.path)
    /\ changed \cap {"all", "ignores", "allow"} = {}

\* What one scan reported the next one reports, as long as the content is at
\* its path in the tree or in a commit and nobody asked to leave it out: not
\* by an ignore rule, not by an allowlist.  A file that is committed and then
\* deleted, and a custom rule that is added, take nothing away.  The rules are
\* in one file at the root, else DeletedStaysReported shows how it fails.
ReportedStaysReported ==
    [][\A f \in report : \A l \in f.locations :
        stage = "detect" /\ Mergeable /\ RootRulesOnly /\ Stays(f, l) =>
            Reports(f.rule, f.line, f.content, l.path)']_vars

NoNegation == \A f \in IgnoreFiles : \A i \in DOMAIN ignores[f] : ~ignores[f][i].keep

\* Two scans of an unchanged repository report the same, although read_dir may
\* list the files of rules in another order, unless there are several files of
\* them and a pattern is negated: an ignore of one file and a keep of another are
\* taken in the order read.
RescanAgrees ==
    [][stage = "detect" /\ stage' = "idle" /\ changed = {}
            /\ (NoNegation \/ RootRulesOnly) =>
        report' = report]_vars

\* ignore_policy.rs:73 has historical paths matched against the current ignore
\* rules.  Those let a file of the tree be scanned; once it is committed and
\* deleted, what was reported of it should be reported from the commit.
DeletedStaysReported ==
    [][\A f \in report : \A l \in f.locations :
        stage = "detect" /\ Mergeable /\ NoNegation /\ Stays(f, l) =>
            Reports(f.rule, f.line, f.content, l.path)']_vars
=============================================================================
