------------------------ MODULE DependencyManifests ------------------------
(***************************************************************************)
(* What vibescan-core reads of the manifests of a repository: the          *)
(* coordinates they declare, the flaws it reports in them, those that may  *)
(* be asked about, and the ecosystems that have a registry of their own;   *)
(* and the order in which it reads the files, for they may change while it *)
(* does.  A file is its path and what the parser of its kind finds in it.  *)
(***************************************************************************)
EXTENDS Integers, Sequences

CONSTANTS
    Dependencies,   \* coordinates: ecosystem, name and version requirement
    Name,           \* Name[d]: the name of d, as it is written
    Ecosystem,      \* Ecosystem[d]
    Manifests,      \* manifests, and files that configure a registry
    Texts,          \* Texts[f]: what f may say, [entries, flawed, private]
    ManifestOrder,  \* the manifests, by path: the order they are parsed in
    RegistryOrder   \* the files that are looked through for registries

Names == {Name[d] : d \in Dependencies}
Ecosystems == {Ecosystem[d] : d \in Dependencies}

\* entries: the coordinates of package.json's sections, of a lock file, of
\* requirements and of pyproject.toml; those that the parsers pass over, such
\* as URLs in requirements, are not among them.  flawed: names with a finding,
\* for an invalid name or an empty version.  private: ecosystems for which the
\* file names another registry.
ASSUME TextsAssumption ==
    Texts \in [Manifests -> SUBSET [entries : SUBSET Dependencies,
                                    flawed : SUBSET Names,
                                    private : SUBSET Ecosystems]]

\* collect_manifest_paths sorts by path.  For registries the .npmrc and pip.conf
\* of the root come first, and then, in the order of the manifests,
\* requirements.txt and pyproject.toml themselves and the .npmrc beside each
\* package.json: that of the root a second time, if it has a package.json.
ASSUME OrderAssumption ==
    /\ ManifestOrder \in Seq(Manifests)
    /\ RegistryOrder \in Seq(Manifests)

\* What the parsers find in the files that they read, and where.
Parsed(files) ==
    {p \in Dependencies \X {ManifestOrder[i] : i \in DOMAIN ManifestOrder} :
        p[1] \in files[p[2]].entries}

\* registry_eligible_dependencies: a name with a flaw is left out in the
\* manifest with that flaw, and stays in the others.
Eligible(text) == {d \in text.entries : Name[d] \notin text.flawed}

\* <<e, i>>: the i-th file looked through names a registry for e.
Registries(files) ==
    {x \in Ecosystems \X DOMAIN RegistryOrder :
        x[1] \in files[RegistryOrder[x[2]]].private}
=============================================================================
