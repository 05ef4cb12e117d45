--------------------------- MODULE MCScanNetwork ---------------------------
(***************************************************************************)
(* A repository with three npm coordinates of one package, of which one    *)
(* names a git URL, a scoped package, a coordinate that holds a token, and *)
(* a PyPI package; and one project, with a table that the repository names *)
(* and one that only the OpenAPI root lists.  Edits may change manifests   *)
(* and registry configurations during the scan: two move a registry from   *)
(* one file to another.                                                    *)
(***************************************************************************)
EXTENDS ScanNetwork, FiniteSets

CONSTANTS Old, New, Wheel, Corp, Token, Fork, Npm, PyPI,
          Left, Snake, Inner, Hidden, Web, Lock, Npmrc, PipConf, Requirements,
          Project, Users, Orders

MCDependencies == {Old, New, Wheel, Corp, Token, Fork}
MCPackage == [d \in MCDependencies |->
    CASE d \in {Old, New, Fork} -> Left
      [] d = Wheel              -> Snake
      [] d = Corp               -> Inner
      [] OTHER                  -> Hidden]
MCEcosystem == [d \in MCDependencies |-> IF d = Wheel THEN PyPI ELSE Npm]
MCSensitive == {Token}
MCDirect == {Fork}
MCScoped == {Corp}

\* The names are those of the packages.
MCName == MCPackage

\* All in the root: the .npmrc is looked through again beside package.json.
MCManifests == {Web, Lock, Npmrc, PipConf, Requirements}
MCManifestOrder == <<Lock, Web, Requirements>>
MCRegistryOrder == <<Npmrc, PipConf, Npmrc, Requirements>>
Says(es, ns, own) ==
    [entries |-> es, flawed |-> ns, private |-> own]

\* package.json, where an empty version of the package with three coordinates
\* may stand beside the others; a lock file that resolves one of them; .npmrc,
\* pip.conf and requirements.txt, which may name an index.
MCTexts == [f \in MCManifests |->
    CASE f = Web   -> {Says({Old, Corp, Token, Fork}, flaw, {}) : flaw \in {{}, {Left}}}
      [] f = Lock  -> {Says({New}, {}, {})}
      [] f = Npmrc -> {Says({}, {}, p) : p \in {{}, {Npm}}}
      [] f = PipConf -> {Says({}, {}, p) : p \in {{}, {PyPI}}}
      [] OTHER     -> {Says({Wheel}, {}, p) : p \in {{}, {PyPI}}}]
\* The flaw comes and goes by an edit.
MCCheckouts == {c \in [MCManifests -> UNION {MCTexts[f] : f \in MCManifests}] :
                   c[Web].flawed = {} /\ \A f \in MCManifests : c[f] \in MCTexts[f]}

MCProjects == {Project}
MCTables == {Users, Orders}
MCCandidates == [p \in MCProjects |-> {Users}]

\* Advisories for some versions, with all packages or none; an environment that
\* names an index; and any readable tables with or without a listing by the
\* OpenAPI root of the table that the repository does not name.
World(environment, malicious, missing, readable, listed) ==
    [private |-> environment, malicious |-> malicious, missing |-> missing,
     readable |-> readable, listed |-> listed]
MCWorlds ==
    {World({}, m, k, {<<Project, Users>>}, {<<Project, Orders>>}) :
        m \in {{}, {Old}, {Token, Wheel}}, k \in {{}, {Left, Inner, Snake, Hidden}}}
    \cup {World({PyPI}, {}, {Left}, r, l) :
        r \in SUBSET (MCProjects \X MCTables), l \in {{}, {<<Project, Orders>>}}}

All(setting) == [f \in Features |-> setting]
MCFiles == {All("on")}

MCAskings == SUBSET Features

\* Three edits for the registry checks, which alone depend on them.
MCMaxEdits == [a \in SUBSET Features |->
    CASE a = {}           -> 1
      [] a = {"registry"} -> 3
      [] OTHER            -> 0]
=============================================================================
