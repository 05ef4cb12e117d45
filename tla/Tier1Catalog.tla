---------------------------- MODULE Tier1Catalog ----------------------------
(***************************************************************************)
(* Tier 1: vibescan-supabase reads the row security of the tables that the *)
(* repository uses from the catalog of a live database, and judges it.     *)
(*                                                                         *)
(* There is one query for the states of all tables, and then one for the   *)
(* policies and one for the grants of every candidate; they run outside a  *)
(* transaction, and each may fail.  The administrator changes the catalog  *)
(* meanwhile.  seen holds every catalog there was since the scan began.    *)
(***************************************************************************)
EXTENDS ApiAssociation, Integers

CONSTANTS
    Database,       \* the project of the database URL
    Tables,         \* [schema, table]: what the database may hold
    Policies,       \* policies that the database may hold
    Grants,         \* privileges that the database may hold
    Situations,     \* [units, catalog]: repositories and databases considered
    MaxChanges      \* bound: changes of the catalog during a scan

Commands == {"SELECT", "INSERT", "UPDATE", "DELETE"}        \* POLICY_COMMANDS
WriteCommands == Commands \ {"SELECT"}                      \* WRITE_COMMANDS
ApiRoles == {"anon", "authenticated"}                       \* is_api_role

Catalog == [tables : SUBSET Tables, secured : SUBSET Tables,
            policies : SUBSET Policies, grants : SUBSET Grants]

\* Only existing tables have properties.
IsCatalog(c) ==
    /\ c \in Catalog
    /\ c.secured \subseteq c.tables
    /\ \A p \in c.policies : p.table \in c.tables
    /\ \A g \in c.grants : g.table \in c.tables

ASSUME CatalogAssumption ==
    /\ Database \in Projects
    /\ \A n \in Names : DOMAIN n = {"schema", "table"}
    /\ \A t \in Tables : DOMAIN t = {"schema", "table"} /\ t.schema # "any"
    /\ Policies \subseteq [table : Tables, command : Commands \cup {"ALL"},
                           permissive : BOOLEAN, using : {"none", "true", "condition"}]
    /\ Grants \subseteq [table : Tables, grantee : STRING, privilege : STRING]
    /\ MaxChanges \in Nat
    /\ \A s \in Situations : IsRepository(s.units) /\ IsCatalog(s.catalog)

VARIABLES
    units,          \* what the repository holds
    catalog,        \* the catalog now
    seen,           \* catalogs since the scan began
    changes,        \* changes so far
    stage,          \* the query that is next
    pending,        \* candidate tables not yet asked about
    current,        \* the candidate whose policies were asked for
    states,         \* rows of the first query
    policies,       \* rows of the last policies query
    findings,       \* [exposure, table, command, detail]: what an id hashes
    warnings        \* <<query, table>>: CatalogQueryUnavailable

vars == <<units, catalog, seen, changes, stage, pending, current, states,
          policies, findings, warnings>>

Stages == {"states", "policies", "grants", "done"}

NoName == [schema |-> "none", table |-> "none"]

\* What the rows of a query that failed, or of none yet, are taken for.
Unread == [rows |-> {}, read |-> FALSE]
Read(rows) == [rows |-> rows, read |-> TRUE]

-----------------------------------------------------------------------------
\* catalog_table_matches, and the filter of the two queries by table.
Matches(n, t) == t.table = n.table /\ n.schema \in {"any", t.schema}

\* Mutant: findings carry the name that the repository uses.
AsReferenced(n, t) == n

\* evidence_table_name
EvidenceName(n, t) == IF t.schema = "public" THEN n ELSE t

Covers(p, command) == p.command \in {"ALL", command}

\* A policy that admits every row.
Opens(p) == p.permissive /\ p.using = "true"

Finding(exposure, n, command, detail) ==
    [exposure |-> exposure, table |-> n, command |-> command, detail |-> detail]

Disabled(n) == Finding("RlsDisabled", n, "ALL", "none")
LiteralTrue(n, p) == Finding("PermissivePolicy", n, p.command, p.command)
MissingOperation(n, command) == Finding("MissingOperationPolicy", n, command, "none")
InferredWrite(n, g) == Finding("InferredWriteExposure", n, g.privilege, g.grantee)

\* Mutant: policies that could not be read are taken for none.
JudgedWithoutPolicies(n, s, ps, gs) ==
    IF ~s.secured THEN {Disabled(n)} ELSE
    LET of == {p \in ps.rows : p.table = s.table} IN
        {LiteralTrue(n, p) : p \in {q \in of : Opens(q)}}
        \cup {MissingOperation(n, c) : c \in {d \in Commands :
                of # {} /\ \A p \in of : ~Covers(p, d)}}
        \cup {InferredWrite(n, g) : g \in {h \in gs.rows :
                /\ h.table = s.table
                /\ h.grantee \in ApiRoles
                /\ h.privilege \in WriteCommands
                /\ \A p \in of : ~Covers(p, h.privilege)}}

\* Mutant: policies are asked for before row security is looked at.
JudgedPoliciesFirst(n, s, ps, gs) ==
    IF ~ps.read THEN {} ELSE
    IF ~s.secured THEN {Disabled(n)} ELSE
        {LiteralTrue(n, p) : p \in {q \in ps.rows : q.table = s.table /\ Opens(q)}}

\* detect_tier1_table_findings; n is the name that findings carry.
Judged(n, s, ps, gs) ==
    IF ~s.secured THEN {Disabled(n)} ELSE
    IF ~ps.read THEN {} ELSE
    LET of == {p \in ps.rows : p.table = s.table} IN
        {LiteralTrue(n, p) : p \in {q \in of : Opens(q)}}
        \cup {MissingOperation(n, c) : c \in {d \in Commands :
                of # {} /\ \A p \in of : ~Covers(p, d)}}
        \cup {InferredWrite(n, g) : g \in {h \in gs.rows :
                /\ h.table = s.table
                /\ h.grantee \in ApiRoles
                /\ h.privilege \in WriteCommands
                /\ \A p \in of : ~Covers(p, h.privilege)}}

\* All tables that a candidate matches.
JudgedFor(n, sts, ps, gs) ==
    UNION {Judged(EvidenceName(n, s.table), s, ps, gs) :
              s \in {r \in sts.rows : Matches(n, r.table)}}

-----------------------------------------------------------------------------
\* The rows of the three queries.
StateRows(c) == {[table |-> t, secured |-> t \in c.secured] : t \in c.tables}
PolicyRows(c, n) == {p \in c.policies : Matches(n, p.table)}
GrantRows(c, n) == {g \in c.grants : Matches(n, g.table)}

Init ==
    /\ \E s \in Situations : units = s.units /\ catalog = s.catalog
    /\ seen = {catalog}
    /\ changes = 0
    /\ stage = "states"
    /\ pending = CandidateTables(units, Database)
    /\ current = NoName
    /\ states = Unread
    /\ policies = Unread
    /\ findings = {}
    /\ warnings = {}

\* The administrator's statements, one at a time.
Change(c) ==
    /\ stage # "done"
    /\ changes < MaxChanges
    /\ changes' = changes + 1
    /\ catalog' = c
    /\ seen' = seen \cup {c}
    /\ UNCHANGED <<units, stage, pending, current, states, policies, findings, warnings>>

CreateTable(t) ==
    /\ t \notin catalog.tables
    /\ Change([catalog EXCEPT !.tables = @ \cup {t}])

DropTable(t) ==
    /\ t \in catalog.tables
    /\ Change([tables |-> catalog.tables \ {t},
               secured |-> catalog.secured \ {t},
               policies |-> {p \in catalog.policies : p.table # t},
               grants |-> {g \in catalog.grants : g.table # t}])

EnableRls(t) ==
    /\ t \in catalog.tables \ catalog.secured
    /\ Change([catalog EXCEPT !.secured = @ \cup {t}])

DisableRls(t) ==
    /\ t \in catalog.secured
    /\ Change([catalog EXCEPT !.secured = @ \ {t}])

CreatePolicy(p) ==
    /\ p.table \in catalog.tables
    /\ p \notin catalog.policies
    /\ Change([catalog EXCEPT !.policies = @ \cup {p}])

DropPolicy(p) ==
    /\ p \in catalog.policies
    /\ Change([catalog EXCEPT !.policies = @ \ {p}])

Grant(g) ==
    /\ g.table \in catalog.tables
    /\ g \notin catalog.grants
    /\ Change([catalog EXCEPT !.grants = @ \cup {g}])

Revoke(g) ==
    /\ g \in catalog.grants
    /\ Change([catalog EXCEPT !.grants = @ \ {g}])

Administrator ==
    \/ \E t \in Tables : CreateTable(t) \/ DropTable(t) \/ EnableRls(t) \/ DisableRls(t)
    \/ \E p \in Policies : CreatePolicy(p) \/ DropPolicy(p)
    \/ \E g \in Grants : Grant(g) \/ Revoke(g)

-----------------------------------------------------------------------------
\* record_catalog_result
Failure(query, n) == warnings' = warnings \cup {<<query, n>>}

ReadStates ==
    /\ stage = "states"
    /\ stage' = "policies"
    /\ \/ /\ states' = Read(StateRows(catalog))
          /\ UNCHANGED warnings
       \/ /\ states' = Unread
          /\ Failure("TablesWithRowSecurity", NoName)
    /\ UNCHANGED <<units, catalog, seen, changes, pending, current, policies, findings>>

ReadPolicies(n) ==
    /\ stage = "policies"
    /\ n \in pending
    /\ stage' = "grants"
    /\ pending' = pending \ {n}
    /\ current' = n
    /\ \/ /\ policies' = Read(PolicyRows(catalog, n))
          /\ UNCHANGED warnings
       \/ /\ policies' = Unread
          /\ Failure("Policies", n)
    /\ UNCHANGED <<units, catalog, seen, changes, states, findings>>

\* Mutant: the policies of a candidate are still at hand for the next one.
GrantsReadPoliciesKept ==
    /\ stage = "grants"
    /\ stage' = "policies"
    /\ findings' = findings
         \cup JudgedFor(current, states, policies, Read(GrantRows(catalog, current)))
    /\ current' = NoName
    /\ UNCHANGED <<units, catalog, seen, changes, pending, states, policies, warnings>>

\* Grants are the last rows of a candidate, which is judged at once.
ReadGrants ==
    /\ stage = "grants"
    /\ stage' = "policies"
    /\ \/ /\ findings' = findings
               \cup JudgedFor(current, states, policies, Read(GrantRows(catalog, current)))
          /\ UNCHANGED warnings
       \/ /\ findings' = findings \cup JudgedFor(current, states, policies, Unread)
          /\ Failure("Grants", current)
    /\ current' = NoName
    /\ policies' = Unread
    /\ UNCHANGED <<units, catalog, seen, changes, pending, states>>

Finish ==
    /\ stage = "policies"
    /\ pending = {}
    /\ stage' = "done"
    /\ UNCHANGED <<units, catalog, seen, changes, pending, current, states,
                   policies, findings, warnings>>

Introspection == ReadStates \/ (\E n \in Names : ReadPolicies(n)) \/ ReadGrants \/ Finish

Next == Administrator \/ Introspection

Spec == Init /\ [][Next]_vars

-----------------------------------------------------------------------------
Exposures == {"RlsDisabled", "PermissivePolicy", "MissingOperationPolicy",
              "InferredWriteExposure"}

\* The variables keep their types, rows are held only while they are needed,
\* and the catalog never has a property of a table that is gone.
TypeOK ==
    /\ IsRepository(units)
    /\ IsCatalog(catalog)
    /\ catalog \in seen
    /\ \A c \in seen : IsCatalog(c)
    /\ changes \in 0..MaxChanges
    /\ stage \in Stages
    /\ pending \subseteq CandidateTables(units, Database)
    /\ current \in CandidateTables(units, Database) \cup {NoName}
    /\ stage # "grants" => policies = Unread
    /\ stage = "states" => states = Unread
    /\ stage = "done" => pending = {}
    /\ \A f \in findings : f.exposure \in Exposures /\ f.table \in Names \cup Tables
    /\ \A w \in warnings : w[2] \in Names \cup {NoName}

\* The table that a reader of a finding takes its name for.
Denotes(n, t) ==
    /\ t.table = n.table
    /\ t.schema = (IF n.schema = "any" THEN "public" ELSE n.schema)

Open(c, t) == t \in c.tables \ c.secured \/ \E p \in c.policies : p.table = t /\ Opens(p)

\* vibescan-architecture.md:263-265: a Critical finding is confirmed by the
\* catalog.  At one moment of the scan the table that it names, and no other
\* of that name, had row security disabled or a literal-true policy.
CriticalIsEarned ==
    \A f \in findings : f.exposure \in {"RlsDisabled", "PermissivePolicy"} =>
        \E c \in seen : \E t \in c.tables :
            /\ Denotes(f.table, t)
            /\ IF f.exposure = "RlsDisabled" THEN t \notin c.secured
               ELSE \E p \in c.policies : p.table = t /\ Opens(p) /\ p.command = f.command

Critical(t, exposures) ==
    \E f \in findings : f.exposure \in exposures /\ Denotes(f.table, t)

\* vibescan-architecture.md:264-265: a table that a candidate names and that
\* stayed open throughout the scan, for one and the same reason, is reported
\* as Critical, unless a query that the conclusion needs failed.  (A table
\* whose policy is replaced by disabled row security may be missed.)
OpenTablesAreTold ==
    stage = "done" =>
        \A n \in CandidateTables(units, Database) : \A t \in Tables :
            Matches(n, t) /\ <<"TablesWithRowSecurity", NoName>> \notin warnings =>
                /\ (\A c \in seen : t \in c.tables \ c.secured) =>
                      Critical(t, {"RlsDisabled"})
                /\ \A p \in Policies :
                     /\ p.table = t
                     /\ Opens(p)
                     /\ \A c \in seen : p \in c.policies
                     => \/ Critical(t, {"RlsDisabled", "PermissivePolicy"})
                        \/ <<"Policies", n>> \in warnings

\* Queries that a conclusion rests on.
Needed(f, n) ==
    {<<"TablesWithRowSecurity", NoName>>}
    \cup (IF f.exposure = "RlsDisabled" THEN {} ELSE {<<"Policies", n>>})
    \cup (IF f.exposure = "InferredWriteExposure" THEN {<<"Grants", n>>} ELSE {})

\* tier1.rs:180-182: query failures "suppress only conclusions that require
\* the missing catalog facts".  With a catalog that did not change, the
\* findings are those of a scan without failures, less the ones that rest on
\* a query that failed.
FailuresSuppressOnly ==
    stage = "done" /\ seen = {catalog} =>
        findings = UNION {{f \in JudgedFor(n, Read(StateRows(catalog)),
                                Read(PolicyRows(catalog, n)), Read(GrantRows(catalog, n))) :
                              Needed(f, n) \cap warnings = {}} :
                            n \in CandidateTables(units, Database)}

\* The units in the scopes where keys name project p, and what calls of
\* functions they hold left out.
Around(p) ==
    {[u EXCEPT !.rpcs = {}] : u \in {v \in units :
        \E w \in units : p \in Named(w) /\ v.scopes \cap w.scopes # {}}}

\* docs/HIGH_PRIORITY_GAPS_PLAN.md:473-486: what is asked of a project does
\* not depend on anything outside the apps whose files name it, whatever
\* projects and tables other apps have, nor on functions that are called.
AppsAreIsolated ==
    \A p \in Projects : CandidateTables(units, p) = CandidateTables(Around(p), p)

\* docs/HIGH_PRIORITY_GAPS_PLAN.md:476-478,487: a file that is added to the
\* repository never takes a probe away without a word, and never redirects it
\* to another project: the table is still read in the project it was, or a
\* coverage warning names it.
NothingDropsUntold ==
    \A u \in units : \A x \in Probes(units \ {u}) :
        \/ x \in Probes(units)
        \/ \E s \in Scopes : <<x[2], s>> \in Skipped(units)
=============================================================================
