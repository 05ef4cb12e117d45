---------------------------- MODULE MCSecretScan ----------------------------
(***************************************************************************)
(* Two files of one name, one that is forced, and one that is both forced  *)
(* and always skipped (.env.sample); rules in two files of the root and in *)
(* one of a directory.                                                     *)
(***************************************************************************)
EXTENDS SecretScan

CONSTANTS key, token, conf, env, sample, lib

MCPaths == {<<conf>>, <<lib, conf>>, <<lib, env>>, <<lib, sample>>}
MCForceScans == {<<lib, env>>, <<lib, sample>>}
MCHardSkips == {<<lib, sample>>}

RootGit == [dir |-> <<>>, kind |-> GitIgnore]
RootOwn == [dir |-> <<>>, kind |-> VibescanIgnore]
NestedGit == [dir |-> <<lib>>, kind |-> GitIgnore]
MCIgnoreFiles == {RootGit, RootOwn, NestedGit}

Drops(n) == [pattern |-> n, keep |-> FALSE]
Keeps(n) == [pattern |-> n, keep |-> TRUE]
MCIgnoreTexts == {<<>>, <<Drops(conf)>>, <<Drops(Star), Keeps(conf)>>, <<Drops(lib)>>}

\* One line that a rule matches, and one, minified, that a generic rule and a
\* custom one match, with a stopword of the latter.
KeyLine == [hits |-> {"provider"}, allowed |-> {}, marked |-> FALSE, minified |-> FALSE]
BundleLine == [hits |-> {"generic", "provider", "custom"}, allowed |-> {"custom"},
               marked |-> FALSE, minified |-> TRUE]
TokenLine == [hits |-> {"generic", "custom"}, allowed |-> {}, marked |-> FALSE,
              minified |-> FALSE]
MarkedLine == [TokenLine EXCEPT !.marked = TRUE]
MCLines == [c \in {key, token} |->
              IF c = key THEN {KeyLine, MarkedLine} ELSE {BundleLine, TokenLine}]
MCRuleSkips == [r \in {"provider", "generic", "custom"} |->
                  IF r = "generic" THEN {<<lib, conf>>} ELSE {}]

Tree(a, b, c) == [p \in MCPaths |->
    CASE p = <<conf>> -> a [] p = <<lib, conf>> -> b [] OTHER -> c]
NoIgnores == [f \in MCIgnoreFiles |-> <<>>]
At(n, p, c) == [id |-> n, path |-> p, content |-> c]
MCRepositories ==
    [tree : {Tree(key, key, NoContent), Tree(NoContent, token, key)},
     history : {{}, {At(1, <<lib, conf>>, key)}, {At(1, <<conf>>, token)}},
     ignores : {NoIgnores,
                [NoIgnores EXCEPT ![NestedGit] = <<Drops(conf)>>],
                [NoIgnores EXCEPT ![RootOwn] = <<Drops(lib)>>],
                [NoIgnores EXCEPT ![RootGit] = <<Drops(Star), Keeps(conf)>>]}]
=============================================================================
