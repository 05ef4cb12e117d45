--------------------------- MODULE MCTier1Catalog ---------------------------
(***************************************************************************)
(* A database with a table of one name in the public and in another schema,*)
(* named in the repository with and without its schema; and repositories   *)
(* of up to three files in two apps with keys of two projects.             *)
(***************************************************************************)
EXTENDS Tier1Catalog

CONSTANTS Page, Admin, Library, Web, Shop, Ours, Theirs

Table(schema) == [schema |-> schema, table |-> "users"]

MCContents == {Page, Admin, Library}
MCScopes == {Web, Shop}
MCProjects == {Ours, Theirs}
MCNames == {Table("any"), Table("private")}
MCTables == {Table("public"), Table("private")}

Policy(schema, command, permissive, using) ==
    [table |-> Table(schema), command |-> command, permissive |-> permissive, using |-> using]

MCPolicies == {Policy("public", "SELECT", TRUE, "true"),
               Policy("private", "ALL", FALSE, "true")}

MCGrants == {[table |-> Table("public"), grantee |-> "anon", privilege |-> "INSERT"]}

\* One file with both names and a key of the database's project.
MCOneFile ==
    [content |-> Page, scopes |-> {Web}, tables |-> MCNames, rpcs |-> {},
     public |-> {Ours}, elevated |-> {}]

MCCatalogs == {c \in Catalog : IsCatalog(c)}

\* A file of an app or of both, with at most one key, and a table or a
\* function; and a library file that uses the table and names no project.
MCFiles(c, app) ==
    {u \in [content : {c}, scopes : {{app}, {Web, Shop}},
            tables : {{}, {Table("any")}}, rpcs : {{}, {Table("any")}},
            public : {{}, {Ours}, {Theirs}}, elevated : {{}, {Theirs}}] :
        /\ u.public = {} \/ u.elevated = {}
        /\ u.rpcs = {} \/ u.tables = {}}

MCLibrary ==
    [content |-> Library, scopes |-> {Web}, tables |-> {Table("any")}, rpcs |-> {},
     public |-> {}, elevated |-> {}]

MCRepositories ==
    {{u, v, MCLibrary} : u \in MCFiles(Page, Web), v \in MCFiles(Admin, Shop)}

MCBare == [tables |-> {}, secured |-> {}, policies |-> {}, grants |-> {}]

MCSituations ==
    [units : {{MCOneFile}}, catalog : MCCatalogs]
      \cup [units : MCRepositories, catalog : {MCBare}]
=============================================================================
