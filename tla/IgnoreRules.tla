---------------------------- MODULE IgnoreRules ----------------------------
(***************************************************************************)
(* Which files a scan looks at: the ignore policy of vibescan-git and the  *)
(* walker it configures.  A path is the sequence of its names.  A pattern  *)
(* is a single name, which matches at any depth below the directory that   *)
(* it is relative to, or the star.                                         *)
(*                                                                         *)
(* The same files of rules are read twice: by the walker, each relative to *)
(* its own directory, and by build_history_ignores, which puts all of them *)
(* in one list relative to the root.                                       *)
(***************************************************************************)
EXTENDS Naturals, Sequences, FiniteSets, FiniteSetsExt

CONSTANTS
    Paths,          \* the files that a repository may have
    Star,           \* the pattern *
    HardSkips,      \* the paths that ALWAYS_SKIP_PATTERNS match
    ForceScans,     \* the paths that ALWAYS_SCAN_PATTERNS match
    IgnoreFiles     \* where files of rules may be: [dir, kind]

\* Kinds in the order of their precedence in the walker.
GitIgnore == 1
Ignore == 2
VibescanIgnore == 3

ASSUME IgnoreAssumption ==
    /\ \A p \in Paths : p \in Seq(Range(p)) /\ p # <<>>
    /\ HardSkips \subseteq Paths
    /\ ForceScans \subseteq Paths
    /\ IsFiniteSet(IgnoreFiles)
    /\ \A f \in IgnoreFiles : f.kind \in {GitIgnore, Ignore, VibescanIgnore}

\* The directories on the way to a path, the root not among them.
Parents(p) == {SubSeq(p, 1, i) : i \in 1..(Len(p) - 1)}

IsBelow(e, dir) == Len(dir) < Len(e) /\ SubSeq(e, 1, Len(dir)) = dir

-----------------------------------------------------------------------------
\* What a list of rules says of a file or directory; a rule with keep is a
\* negated pattern.  The last match decides.

NameMatches(pattern, e) == pattern \in {Star, e[Len(e)]}

Verdict(rules, e) ==
    LET hits == {i \in DOMAIN rules : NameMatches(rules[i].pattern, e)}
    IN  IF hits = {} THEN "none"
        ELSE IF rules[Max(hits)].keep THEN "keep" ELSE "ignore"

\* The path_allowlists of the configuration; none can be negated.
ConfigSkipped(skips, e) == \E pattern \in skips : NameMatches(pattern, e)

-----------------------------------------------------------------------------
\* The working tree.

\* A kind that says something outranks the lesser ones, and in a kind the
\* nearest directory outranks those above it.
Outranks(f, g) ==
    \/ f.kind > g.kind
    \/ f.kind = g.kind /\ Len(f.dir) >= Len(g.dir)

TreeVerdict(ignores, e) ==
    LET heard == {f \in IgnoreFiles :
                    IsBelow(e, f.dir) /\ Verdict(ignores[f], e) # "none"}
    IN  IF heard = {} THEN "none"
        ELSE Verdict(ignores[CHOOSE f \in heard : \A g \in heard : Outranks(f, g)], e)

\* The first pass: neither the file nor a directory above it is ignored, where
\* overrides come before the files of rules.
PlainAdmits(skips, ignores, p) ==
    /\ p \notin HardSkips
    /\ \A e \in Parents(p) \cup {p} :
          ~ConfigSkipped(skips, e) /\ TreeVerdict(ignores, e) # "ignore"

\* should_force_scan, the filter of the second pass.
ForceAdmits(p) == p \in ForceScans \ HardSkips

TreeAdmits(skips, ignores, p) == PlainAdmits(skips, ignores, p) \/ ForceAdmits(p)

-----------------------------------------------------------------------------
\* The history.

\* read_dir lists a directory in any order and the recursion finishes each
\* subdirectory before the next entry.
ReadOrders(files) ==
    {pos \in [files -> 1..Cardinality(files)] :
        /\ \A f, g \in files : pos[f] = pos[g] => f = g
        /\ \A f, g, h \in files :
              pos[f] < pos[g] /\ pos[g] < pos[h] =>
                  \A n \in 0..Len(f.dir) :
                      LET dir == SubSeq(f.dir, 1, n)
                      IN  n <= Len(h.dir) /\ SubSeq(h.dir, 1, n) = dir =>
                              n <= Len(g.dir) /\ SubSeq(g.dir, 1, n) = dir}

\* Mutant: only the first file of rules that was read counts.
FirstFileOnly(ignores, pos, e) ==
    LET first == {f \in DOMAIN pos : pos[f] = 1}
    IN  IF first = {} THEN "none"
        ELSE Verdict(ignores[CHOOSE f \in first : TRUE], e)

\* Every file of rules is one list, in the order in which they were read; all
\* of its patterns are relative to the root, wherever they were written.
ListVerdict(ignores, pos, e) ==
    LET heard == {f \in DOMAIN pos : Verdict(ignores[f], e) # "none"}
    IN  IF heard = {} THEN "none"
        ELSE Verdict(ignores[CHOOSE f \in heard :
                                \A g \in heard : pos[g] <= pos[f]], e)

\* matched_path_or_any_parents: the path, or else the nearest directory above
\* it that a rule matches.
HistoryVerdict(ignores, pos, p) ==
    LET heard == {e \in Parents(p) \cup {p} : ListVerdict(ignores, pos, e) # "none"}
    IN  IF heard = {} THEN "none"
        ELSE ListVerdict(ignores, pos,
                CHOOSE e \in heard : \A d \in heard : Len(d) <= Len(e))

\* Mutant: what must be scanned is not exempt from ignore rules here.
Unforced(skips, ignores, pos, p) ==
    /\ p \notin HardSkips
    /\ ~ConfigSkipped(skips, p)
    /\ HistoryVerdict(ignores, pos, p) # "ignore"

\* should_scan_path.
HistoryAdmits(skips, ignores, pos, p) ==
    /\ p \notin HardSkips
    /\ \/ p \in ForceScans
       \/ /\ ~ConfigSkipped(skips, p)
          /\ HistoryVerdict(ignores, pos, p) # "ignore"
=============================================================================
