--------------------------- MODULE ApiAssociation ---------------------------
(***************************************************************************)
(* Which Supabase project a table reference in the repository belongs to:  *)
(* the file that holds the reference decides, if a key in it names a       *)
(* project; otherwise the app or package (the scope) that the file is in.  *)
(*                                                                         *)
(* A unit is a content of the repository with everything in it that counts *)
(* here.  Its scopes are those of all its locations, of the working tree   *)
(* and of commits alike; its projects are those that classification found  *)
(* in that content for a key there, never one that a key adopted when it   *)
(* was coalesced with copies of it elsewhere.                              *)
(***************************************************************************)

CONSTANTS
    Contents,       \* content ids
    Scopes,         \* apps, packages and services, and the rest
    Names,          \* names of tables and functions, qualified or not
    Projects        \* Supabase projects, by normalized URL

Unit == [content : Contents,
         scopes : (SUBSET Scopes) \ {{}},
         tables : SUBSET Names,         \* .from() and /rest/v1/
         rpcs : SUBSET Names,           \* .rpc()
         public : SUBSET Projects,      \* projects that its public keys name
         elevated : SUBSET Projects]    \* projects that its other keys name

\* What collect_repository returns: one unit for each content.
IsRepository(units) ==
    /\ units \subseteq Unit
    /\ \A u, v \in units : u.content = v.content => u = v

Named(u) == u.public \cup u.elevated

\* harvest_api_references, of one unit and of all.
ReferencesIn(u) ==
    [kind : {"table"}, content : {u.content}, scope : u.scopes, name : u.tables]
      \cup [kind : {"rpc"}, content : {u.content}, scope : u.scopes, name : u.rpcs]

References(units) == UNION {ReferencesIn(u) : u \in units}

ProjectsByContent(units, c) == UNION {Named(u) : u \in {v \in units : v.content = c}}

ProjectsByScope(units, s) == UNION {Named(u) : u \in {v \in units : s \in v.scopes}}

\* Mutant: a scope without project falls back to the whole repository.
RepositoryWide(units, r) ==
    CASE ProjectsByContent(units, r.content) # {} -> ProjectsByContent(units, r.content)
      [] ProjectsByScope(units, r.scope) # {}     -> ProjectsByScope(units, r.scope)
      [] OTHER                                    -> UNION {Named(u) : u \in units}

\* associated_project: the projects among which it asks for a unique one.
Associated(units, r) ==
    IF ProjectsByContent(units, r.content) # {}
      THEN ProjectsByContent(units, r.content)
      ELSE ProjectsByScope(units, r.scope)

TableReferences(units) == {r \in References(units) : r.kind = "table"}

\* tables_by_project of associate_api_references.
CandidateTables(units, p) ==
    {r.name : r \in {q \in TableReferences(units) : Associated(units, q) = {p}}}

\* Mutant: a reference with several projects is dropped without a warning.
MissingOnly(units) ==
    {<<r.name, r.scope>> : r \in {q \in TableReferences(units) : Associated(units, q) = {}}}

\* Its coverage warnings.
Skipped(units) ==
    {<<r.name, r.scope>> : r \in {q \in TableReferences(units) :
        \A p \in Projects : Associated(units, q) # {p}}}

\* tier0_probe_inputs: the projects that a public key names, and the tables
\* that each is asked for.
Probes(units) ==
    {x \in Projects \X Names :
        /\ \E u \in units : x[1] \in u.public
        /\ x[2] \in CandidateTables(units, x[1])}
=============================================================================
