------------------------- MODULE Tier1CatalogProofs -------------------------
(***************************************************************************)
(* Proofs about Tier1Catalog and the operators of ApiAssociation, for any  *)
(* repositories, databases and number of changes: apps are isolated, no    *)
(* probe is dropped in silence, Critical findings were true, open tables   *)
(* are told, and a failed query suppresses only what rests on it.          *)
(***************************************************************************)
EXTENDS Tier1Catalog, TLAPS

-----------------------------------------------------------------------------
(* The operators of ApiAssociation by their members.                       *)

LEMMA ContentMember ==
    ASSUME NEW us, NEW c, NEW q
    PROVE  q \in ProjectsByContent(us, c) <=> \E v \in us : v.content = c /\ q \in Named(v)
  BY DEF ProjectsByContent

LEMMA ScopeMember ==
    ASSUME NEW us, NEW s, NEW q
    PROVE  q \in ProjectsByScope(us, s) <=> \E v \in us : s \in v.scopes /\ q \in Named(v)
  BY DEF ProjectsByScope

LEMMA TableMember ==
    ASSUME NEW us, NEW r
    PROVE  r \in TableReferences(us) <=>
              \E v \in us : r \in [kind : {"table"}, content : {v.content},
                                   scope : v.scopes, name : v.tables]
  <1>1. ASSUME NEW v \in us, r \in [kind : {"rpc"}, content : {v.content},
                                    scope : v.scopes, name : v.rpcs]
        PROVE  r.kind = "rpc"
    BY <1>1
  <1>2. ASSUME NEW v \in us, r \in [kind : {"table"}, content : {v.content},
                                    scope : v.scopes, name : v.tables]
        PROVE  r.kind = "table"
    BY <1>2
  <1>3. r \in References(us) <=> \E v \in us : r \in ReferencesIn(v)
    BY DEF References
  <1> QED
    BY <1>1, <1>2, <1>3 DEF TableReferences, ReferencesIn

\* The content of a reference belongs to the unit it was found in alone.
LEMMA OwnProjects ==
    ASSUME NEW us, \A u, v \in us : u.content = v.content => u = v,
           NEW u \in us
    PROVE  ProjectsByContent(us, u.content) = Named(u)
  <1>1. {v \in us : v.content = u.content} = {u}
    OBVIOUS
  <1> QED
    BY <1>1 DEF ProjectsByContent

-----------------------------------------------------------------------------
(* Apps are isolated.                                                      *)

Stripped(u) == [u EXCEPT !.rpcs = {}]
Selected(p) == {v \in units : \E w \in units : p \in Named(w) /\ v.scopes \cap w.scopes # {}}

LEMMA StrippedFields ==
    ASSUME NEW u \in Unit
    PROVE  /\ Stripped(u) \in Unit
           /\ Stripped(u).content = u.content
           /\ Stripped(u).scopes = u.scopes
           /\ Stripped(u).tables = u.tables
           /\ Named(Stripped(u)) = Named(u)
  BY DEF Unit, Stripped, Named

LEMMA AroundIsSelected ==
    ASSUME NEW p
    PROVE  Around(p) = {Stripped(v) : v \in Selected(p)}
  BY DEF Around, Stripped, Selected

\* In the selection a content names what it names in the repository.
LEMMA SelectedContent ==
    ASSUME IsRepository(units), NEW p, NEW v \in Selected(p)
    PROVE  /\ ProjectsByContent(Around(p), v.content) = Named(v)
           /\ ProjectsByContent(units, v.content) = Named(v)
  <1>1. /\ v \in units
        /\ \A u, w \in units : u.content = w.content => u = w
        /\ \A u \in units : u \in Unit
    BY DEF Selected, IsRepository
  <1>2. ProjectsByContent(units, v.content) = Named(v)
    BY <1>1, OwnProjects
  <1>3. Stripped(v) \in Around(p)
    BY AroundIsSelected
  <1>4. ASSUME NEW q
        PROVE  q \in ProjectsByContent(Around(p), v.content) <=> q \in Named(v)
    <2>1. ASSUME q \in Named(v)
          PROVE  q \in ProjectsByContent(Around(p), v.content)
      BY <1>1, <1>3, <2>1, StrippedFields, ContentMember
    <2>2. ASSUME q \in ProjectsByContent(Around(p), v.content)
          PROVE  q \in Named(v)
      <3>1. PICK x \in Around(p) : x.content = v.content /\ q \in Named(x)
        BY <2>2, ContentMember
      <3>2. PICK y \in Selected(p) : x = Stripped(y)
        BY <3>1, AroundIsSelected
      <3>3. y \in units /\ y \in Unit
        BY <1>1 DEF Selected
      <3>4. y.content = v.content /\ q \in Named(y)
        BY <3>1, <3>2, <3>3, StrippedFields
      <3> QED
        BY <1>1, <3>3, <3>4
    <2> QED
      BY <2>1, <2>2
  <1>5. ProjectsByContent(Around(p), v.content) = Named(v)
    BY <1>4
  <1> QED
    BY <1>2, <1>5

\* A scope where project p is named is selected with all its units.
LEMMA SelectedScope ==
    ASSUME IsRepository(units), NEW p, NEW s,
           NEW w \in units, s \in w.scopes, p \in Named(w)
    PROVE  ProjectsByScope(Around(p), s) = ProjectsByScope(units, s)
  <1>1. \A u \in units : u \in Unit
    BY DEF IsRepository
  <1>2. ASSUME NEW q
        PROVE  q \in ProjectsByScope(Around(p), s) <=> q \in ProjectsByScope(units, s)
    <2>1. ASSUME q \in ProjectsByScope(units, s)
          PROVE  q \in ProjectsByScope(Around(p), s)
      <3>1. PICK v \in units : s \in v.scopes /\ q \in Named(v)
        BY <2>1, ScopeMember
      <3>2. v \in Selected(p)
        BY <3>1 DEF Selected
      <3>3. Stripped(v) \in Around(p)
        BY <3>2, AroundIsSelected
      <3> QED
        BY <1>1, <3>1, <3>3, StrippedFields, ScopeMember
    <2>2. ASSUME q \in ProjectsByScope(Around(p), s)
          PROVE  q \in ProjectsByScope(units, s)
      <3>1. PICK x \in Around(p) : s \in x.scopes /\ q \in Named(x)
        BY <2>2, ScopeMember
      <3>2. PICK v \in Selected(p) : x = Stripped(v)
        BY <3>1, AroundIsSelected
      <3>3. v \in units /\ v \in Unit
        BY <1>1 DEF Selected
      <3>4. s \in v.scopes /\ q \in Named(v)
        BY <3>1, <3>2, <3>3, StrippedFields
      <3> QED
        BY <3>3, <3>4, ScopeMember
    <2> QED
      BY <2>1, <2>2
  <1> QED
    BY <1>2

\* A table that is asked of project p comes from a selected unit.
LEMMA CandidateIsSelected ==
    ASSUME IsRepository(units), NEW p, NEW u \in units,
           NEW s \in u.scopes,
           (IF Named(u) # {} THEN Named(u) ELSE ProjectsByScope(units, s)) = {p}
    PROVE  u \in Selected(p)
  <1>1. CASE Named(u) # {}
    <2>1. p \in Named(u) /\ s \in u.scopes \cap u.scopes
      BY <1>1
    <2> QED
      BY <2>1 DEF Selected
  <1>2. CASE Named(u) = {}
    <2>1. PICK w \in units : s \in w.scopes /\ p \in Named(w)
      BY <1>2, ScopeMember
    <2> QED
      BY <2>1 DEF Selected
  <1> QED
    BY <1>1, <1>2

\* In the units around p a reference has the projects it has in all units,
\* if either says that it is p's.
LEMMA SameAssociation ==
    ASSUME IsRepository(units), NEW p, NEW u \in Selected(p), NEW s \in u.scopes,
           NEW r, r.content = u.content, r.scope = s
    PROVE  Associated(units, r) = {p} <=> Associated(Around(p), r) = {p}
  <1>1. /\ ProjectsByContent(Around(p), r.content) = Named(u)
        /\ ProjectsByContent(units, r.content) = Named(u)
    BY SelectedContent
  <1>2. CASE Named(u) # {}
    BY <1>1, <1>2 DEF Associated
  <1>3. CASE Named(u) = {}
    <2>1. /\ Associated(units, r) = ProjectsByScope(units, s)
          /\ Associated(Around(p), r) = ProjectsByScope(Around(p), s)
      BY <1>1, <1>3 DEF Associated
    <2>2. ASSUME p \in ProjectsByScope(units, s) \/ p \in ProjectsByScope(Around(p), s)
          PROVE  ProjectsByScope(Around(p), s) = ProjectsByScope(units, s)
      <3>1. CASE p \in ProjectsByScope(units, s)
        <4>1. PICK w \in units : s \in w.scopes /\ p \in Named(w)
          BY <3>1, ScopeMember
        <4> QED
          BY <4>1, SelectedScope
      <3>2. CASE p \in ProjectsByScope(Around(p), s)
        <4>1. PICK x \in Around(p) : s \in x.scopes /\ p \in Named(x)
          BY <3>2, ScopeMember
        <4>2. PICK w \in Selected(p) : x = Stripped(w)
          BY <4>1, AroundIsSelected
        <4>3. w \in units /\ w \in Unit
          BY DEF Selected, IsRepository
        <4>4. s \in w.scopes /\ p \in Named(w)
          BY <4>1, <4>2, <4>3, StrippedFields
        <4> QED
          BY <4>3, <4>4, SelectedScope
      <3> QED
        BY <2>2, <3>1, <3>2
    <2> QED
      BY <2>1, <2>2
  <1> QED
    BY <1>2, <1>3

\* For any repository: what is asked of a project depends on the apps whose
\* files name it and on nothing else.
LEMMA Isolation ==
    ASSUME IsRepository(units)
    PROVE  AppsAreIsolated
  <1> SUFFICES ASSUME NEW p \in Projects, NEW n
               PROVE  n \in CandidateTables(units, p) <=> n \in CandidateTables(Around(p), p)
    <2>1. (\A p \in Projects : \A n : n \in CandidateTables(units, p)
                                  <=> n \in CandidateTables(Around(p), p))
          => AppsAreIsolated
      BY DEF AppsAreIsolated
    <2> QED
      BY <2>1
  <1>1. /\ \A u \in units : u \in Unit
        /\ \A u, v \in units : u.content = v.content => u = v
    BY DEF IsRepository
  <1>2. ASSUME n \in CandidateTables(units, p)
        PROVE  n \in CandidateTables(Around(p), p)
    <2>1. PICK r \in TableReferences(units) : r.name = n /\ Associated(units, r) = {p}
      BY <1>2 DEF CandidateTables
    <2>2. PICK u \in units : r \in [kind : {"table"}, content : {u.content},
                                    scope : u.scopes, name : u.tables]
      BY <2>1, TableMember
    <2>3. r.content = u.content /\ r.scope \in u.scopes
      BY <2>2
    <2>4. ProjectsByContent(units, u.content) = Named(u)
      BY <1>1, OwnProjects
    <2>5. u \in Selected(p)
      BY <2>1, <2>3, <2>4, CandidateIsSelected DEF Associated
    <2>6. Associated(Around(p), r) = {p}
      BY <2>1, <2>3, <2>5, SameAssociation
    <2>7. Stripped(u) \in Around(p)
      BY <2>5, AroundIsSelected
    <2>8. r \in TableReferences(Around(p))
      BY <1>1, <2>2, <2>7, StrippedFields, TableMember
    <2> QED
      BY <2>1, <2>6, <2>8 DEF CandidateTables
  <1>3. ASSUME n \in CandidateTables(Around(p), p)
        PROVE  n \in CandidateTables(units, p)
    <2>1. PICK r \in TableReferences(Around(p)) :
              r.name = n /\ Associated(Around(p), r) = {p}
      BY <1>3 DEF CandidateTables
    <2>2. PICK x \in Around(p) : r \in [kind : {"table"}, content : {x.content},
                                        scope : x.scopes, name : x.tables]
      BY <2>1, TableMember
    <2>3. PICK u \in Selected(p) : x = Stripped(u)
      BY <2>2, AroundIsSelected
    <2>4. u \in units /\ u \in Unit
      BY <1>1 DEF Selected
    <2>5. r \in [kind : {"table"}, content : {u.content}, scope : u.scopes, name : u.tables]
      BY <2>2, <2>3, <2>4, StrippedFields
    <2>6. r.content = u.content /\ r.scope \in u.scopes
      BY <2>5
    <2>7. Associated(units, r) = {p}
      BY <2>1, <2>6, SameAssociation
    <2>8. r \in TableReferences(units)
      BY <2>4, <2>5, TableMember
    <2> QED
      BY <2>1, <2>7, <2>8 DEF CandidateTables
  <1> QED
    BY <1>2, <1>3

-----------------------------------------------------------------------------
(* No probe is dropped in silence.                                         *)

\* A unit that is added leaves a reference its project, or adds others.
LEMMA ProjectStays ==
    ASSUME IsRepository(units), NEW u \in units, NEW p,
           NEW r \in TableReferences(units \ {u}),
           Associated(units \ {u}, r) = {p}
    PROVE  p \in Associated(units, r)
  <1>1. \A v, w \in units : v.content = w.content => v = w
    BY DEF IsRepository
  <1>2. PICK v \in units \ {u} : r \in [kind : {"table"}, content : {v.content},
                                        scope : v.scopes, name : v.tables]
    BY TableMember
  <1>3. r.content = v.content
    BY <1>2
  <1>4. /\ ProjectsByContent(units, r.content) = Named(v)
        /\ ProjectsByContent(units \ {u}, r.content) = Named(v)
    <2>1. \A x, y \in units \ {u} : x.content = y.content => x = y
      BY <1>1
    <2>2. ProjectsByContent(units \ {u}, v.content) = Named(v)
      BY <2>1, OwnProjects
    <2>3. ProjectsByContent(units, v.content) = Named(v)
      BY <1>1, OwnProjects
    <2> QED
      BY <1>3, <2>2, <2>3
  <1>5. CASE Named(v) # {}
    BY <1>4, <1>5 DEF Associated
  <1>6. CASE Named(v) = {}
    <2>1. p \in ProjectsByScope(units \ {u}, r.scope)
      BY <1>4, <1>6 DEF Associated
    <2>2. p \in ProjectsByScope(units, r.scope)
      BY <2>1, ScopeMember
    <2> QED
      BY <1>4, <1>6, <2>2 DEF Associated
  <1> QED
    BY <1>5, <1>6

\* For any repository: adding a file to it leaves every probe, or says so.
LEMMA DropsAreTold ==
    ASSUME IsRepository(units)
    PROVE  NothingDropsUntold
  <1> SUFFICES ASSUME NEW u \in units, NEW x \in Probes(units \ {u}), x \notin Probes(units)
               PROVE  \E s \in Scopes : <<x[2], s>> \in Skipped(units)
    BY DEF NothingDropsUntold
  <1> DEFINE p == x[1]
  <1>1. /\ x \in Projects \X Names
        /\ \E v \in units \ {u} : p \in v.public
        /\ x[2] \in CandidateTables(units \ {u}, p)
    BY DEF Probes
  <1>2. PICK r \in TableReferences(units \ {u}) :
            r.name = x[2] /\ Associated(units \ {u}, r) = {p}
    BY <1>1 DEF CandidateTables
  <1>3. r \in TableReferences(units)
    BY <1>2, TableMember
  <1>4. r.scope \in Scopes
    <2>1. PICK v \in units : r \in [kind : {"table"}, content : {v.content},
                                    scope : v.scopes, name : v.tables]
      BY <1>3, TableMember
    <2>2. v \in Unit
      BY DEF IsRepository
    <2> QED
      BY <2>1, <2>2 DEF Unit
  <1>5. Associated(units, r) # {p}
    <2>1. x[2] \notin CandidateTables(units, p)
      BY <1>1 DEF Probes
    <2> QED
      BY <1>2, <1>3, <2>1 DEF CandidateTables
  <1>6. p \in Associated(units, r)
    BY <1>2, ProjectStays
  <1>7. <<r.name, r.scope>> \in Skipped(units)
    BY <1>3, <1>5, <1>6 DEF Skipped
  <1> QED
    BY <1>2, <1>4, <1>7

-----------------------------------------------------------------------------
(* The state machine.                                                      *)

\* The rows at hand are those of some catalog there was.
RowsWereTrue ==
    /\ states = Unread \/ \E c \in seen : states = Read(StateRows(c))
    /\ policies = Unread \/ \E c \in seen : policies = Read(PolicyRows(c, current))
    /\ stage = "grants" => current \in CandidateTables(units, Database)

IInv == TypeOK /\ RowsWereTrue /\ CriticalIsEarned

LEMMA CandidatesAreNames ==
    ASSUME NEW us, IsRepository(us), NEW p
    PROVE  CandidateTables(us, p) \subseteq Names
  <1> SUFFICES ASSUME NEW r \in TableReferences(us)
               PROVE  r.name \in Names
    BY DEF CandidateTables
  <1>1. PICK v \in us : r \in [kind : {"table"}, content : {v.content},
                               scope : v.scopes, name : v.tables]
    BY TableMember
  <1>2. v \in Unit
    BY DEF IsRepository
  <1> QED
    BY <1>1, <1>2 DEF Unit

\* What a Critical finding rests on, and the types of all findings.
LEMMA JudgedMember ==
    ASSUME NEW e, NEW s, NEW ps, NEW gs, NEW f \in Judged(e, s, ps, gs)
    PROVE  /\ f.exposure \in Exposures
           /\ f.table = e
           /\ f.exposure = "RlsDisabled" => ~s.secured
           /\ f.exposure = "PermissivePolicy" =>
                \E p \in ps.rows : p.table = s.table /\ Opens(p) /\ p.command = f.command
  <1>1. CASE ~s.secured
    <2>1. f = Disabled(e)
      BY <1>1 DEF Judged
    <2> QED
      BY <1>1, <2>1 DEF Disabled, Finding, Exposures
  <1>2. CASE s.secured
    <2> DEFINE of == {p \in ps.rows : p.table = s.table}
    <2>1. ASSUME NEW p \in of, Opens(p), f = LiteralTrue(e, p)
          PROVE  f.exposure = "PermissivePolicy" /\ f.table = e /\ f.command = p.command
      BY <2>1 DEF LiteralTrue, Finding
    <2>2. ASSUME NEW c, f = MissingOperation(e, c)
          PROVE  f.exposure = "MissingOperationPolicy" /\ f.table = e
      BY <2>2 DEF MissingOperation, Finding
    <2>3. ASSUME NEW g, f = InferredWrite(e, g)
          PROVE  f.exposure = "InferredWriteExposure" /\ f.table = e
      BY <2>3 DEF InferredWrite, Finding
    <2>4. \/ \E p \in of : Opens(p) /\ f = LiteralTrue(e, p)
          \/ \E c : f = MissingOperation(e, c)
          \/ \E g : f = InferredWrite(e, g)
      BY <1>2 DEF Judged
    <2> QED
      BY <2>1, <2>2, <2>3, <2>4 DEF Exposures
  <1> QED
    BY <1>1, <1>2

\* A finding names the table it is about, for any candidate that matches.
LEMMA NamesDenote ==
    ASSUME NEW n, NEW t \in Tables, Matches(n, t)
    PROVE  Denotes(EvidenceName(n, t), t) /\ EvidenceName(n, t) \in {n, t}
  BY CatalogAssumption DEF Matches, Denotes, EvidenceName

LEMMA TypesAtStart == Init => IInv
  <1> SUFFICES ASSUME Init PROVE IInv
    OBVIOUS
  <1>1. PICK s \in Situations : units = s.units /\ catalog = s.catalog
    BY DEF Init
  <1>2. IsRepository(units) /\ IsCatalog(catalog)
    BY <1>1, CatalogAssumption
  <1>3. changes \in 0..MaxChanges
    BY CatalogAssumption DEF Init
  <1>4. TypeOK
    BY <1>2, <1>3 DEF Init, TypeOK, Stages
  <1>5. RowsWereTrue /\ CriticalIsEarned
    BY DEF Init, RowsWereTrue, CriticalIsEarned
  <1> QED
    BY <1>4, <1>5 DEF IInv

\* Statements of the administrator leave the scan alone; what was true of
\* some catalog stays so.
LEMMA ChangeKeeps ==
    ASSUME IInv, NEW c, IsCatalog(c), Change(c)
    PROVE  IInv'
  <1> USE DEF IInv
  <1>1. TypeOK'
    <2>1. changes' \in 0..MaxChanges
      BY CatalogAssumption DEF Change, TypeOK
    <2>2. (\A d \in seen : IsCatalog(d))'
      BY DEF Change, TypeOK, IsCatalog, Catalog
    <2>3. IsCatalog(catalog)' /\ (catalog \in seen)'
      BY DEF Change, IsCatalog, Catalog
    <2>4. IsRepository(units)'
      BY DEF Change, TypeOK
    <2> QED
      BY <2>1, <2>2, <2>3, <2>4 DEF Change, TypeOK
  <1>2. RowsWereTrue'
    BY DEF Change, RowsWereTrue
  <1>3. CriticalIsEarned'
    BY DEF Change, CriticalIsEarned
  <1> QED
    BY <1>1, <1>2, <1>3

LEMMA AdministratorKeeps ==
    ASSUME IInv, Administrator
    PROVE  IInv'
  <1>1. IsCatalog(catalog) /\ catalog \in Catalog
    BY DEF IInv, TypeOK, IsCatalog
  <1>2. ASSUME NEW t \in Tables, CreateTable(t) PROVE IInv'
    <2>1. IsCatalog([catalog EXCEPT !.tables = @ \cup {t}])
      BY <1>1 DEF IsCatalog, Catalog
    <2> QED
      BY <1>2, <2>1, ChangeKeeps DEF CreateTable
  <1>3. ASSUME NEW t \in Tables, DropTable(t) PROVE IInv'
    <2>1. IsCatalog([tables |-> catalog.tables \ {t},
                     secured |-> catalog.secured \ {t},
                     policies |-> {p \in catalog.policies : p.table # t},
                     grants |-> {g \in catalog.grants : g.table # t}])
      BY <1>1 DEF IsCatalog, Catalog
    <2> QED
      BY <1>3, <2>1, ChangeKeeps DEF DropTable
  <1>4. ASSUME NEW t \in Tables, EnableRls(t) PROVE IInv'
    <2>1. IsCatalog([catalog EXCEPT !.secured = @ \cup {t}])
      BY <1>1, <1>4 DEF IsCatalog, Catalog, EnableRls
    <2> QED
      BY <1>4, <2>1, ChangeKeeps DEF EnableRls
  <1>5. ASSUME NEW t \in Tables, DisableRls(t) PROVE IInv'
    <2>1. IsCatalog([catalog EXCEPT !.secured = @ \ {t}])
      BY <1>1 DEF IsCatalog, Catalog
    <2> QED
      BY <1>5, <2>1, ChangeKeeps DEF DisableRls
  <1>6. ASSUME NEW p \in Policies, CreatePolicy(p) PROVE IInv'
    <2>1. IsCatalog([catalog EXCEPT !.policies = @ \cup {p}])
      BY <1>1, <1>6 DEF IsCatalog, Catalog, CreatePolicy
    <2> QED
      BY <1>6, <2>1, ChangeKeeps DEF CreatePolicy
  <1>7. ASSUME NEW p \in Policies, DropPolicy(p) PROVE IInv'
    <2>1. IsCatalog([catalog EXCEPT !.policies = @ \ {p}])
      BY <1>1 DEF IsCatalog, Catalog
    <2> QED
      BY <1>7, <2>1, ChangeKeeps DEF DropPolicy
  <1>8. ASSUME NEW g \in Grants, Grant(g) PROVE IInv'
    <2>1. IsCatalog([catalog EXCEPT !.grants = @ \cup {g}])
      BY <1>1, <1>8 DEF IsCatalog, Catalog, Grant
    <2> QED
      BY <1>8, <2>1, ChangeKeeps DEF Grant
  <1>9. ASSUME NEW g \in Grants, Revoke(g) PROVE IInv'
    <2>1. IsCatalog([catalog EXCEPT !.grants = @ \ {g}])
      BY <1>1 DEF IsCatalog, Catalog
    <2> QED
      BY <1>9, <2>1, ChangeKeeps DEF Revoke
  <1> QED
    BY <1>2, <1>3, <1>4, <1>5, <1>6, <1>7, <1>8, <1>9 DEF Administrator

\* What is judged at a candidate is typed, and Critical for a reason that
\* some catalog gave.
LEMMA JudgedIsTrue ==
    ASSUME IInv, stage = "grants", NEW gs,
           NEW f \in JudgedFor(current, states, policies, gs)
    PROVE  /\ f.exposure \in Exposures
           /\ f.table \in Names \cup Tables
           /\ f.exposure \in {"RlsDisabled", "PermissivePolicy"} =>
                \E c \in seen : \E t \in c.tables :
                  /\ Denotes(f.table, t)
                  /\ IF f.exposure = "RlsDisabled" THEN t \notin c.secured
                     ELSE \E p \in c.policies : p.table = t /\ Opens(p) /\ p.command = f.command
  <1>1. PICK s \in states.rows :
            /\ Matches(current, s.table)
            /\ f \in Judged(EvidenceName(current, s.table), s, policies, gs)
    BY DEF JudgedFor
  <1>2. states # Unread
    BY <1>1 DEF Unread
  <1>3. PICK c \in seen : states = Read(StateRows(c))
    BY <1>2 DEF IInv, RowsWereTrue
  <1>4. PICK t \in c.tables : s = [table |-> t, secured |-> t \in c.secured]
    BY <1>1, <1>3 DEF Read, StateRows
  <1>5. s.table = t /\ (~s.secured => t \notin c.secured)
    BY <1>4
  <1>6. IsCatalog(c) /\ t \in Tables
    BY <1>3, <1>4 DEF IInv, TypeOK, IsCatalog, Catalog
  <1>7. /\ Denotes(EvidenceName(current, t), t)
        /\ EvidenceName(current, t) \in {current, t}
    BY <1>1, <1>5, <1>6, NamesDenote
  <1>8. current \in Names
    BY CandidatesAreNames DEF IInv, RowsWereTrue, TypeOK
  <1>9. /\ f.exposure \in Exposures
        /\ f.table = EvidenceName(current, t)
        /\ f.exposure = "RlsDisabled" => ~s.secured
        /\ f.exposure = "PermissivePolicy" =>
             \E p \in policies.rows : p.table = t /\ Opens(p) /\ p.command = f.command
    BY <1>1, <1>5, JudgedMember
  <1>10. ASSUME f.exposure = "PermissivePolicy"
         PROVE  \E d \in seen : \E p \in d.policies :
                   p.table = t /\ Opens(p) /\ p.command = f.command /\ t \in d.tables
    <2>1. PICK p \in policies.rows : p.table = t /\ Opens(p) /\ p.command = f.command
      BY <1>9, <1>10
    <2>2. policies # Unread
      BY <2>1 DEF Unread
    <2>3. PICK d \in seen : policies = Read(PolicyRows(d, current))
      BY <2>2 DEF IInv, RowsWereTrue
    <2>4. p \in d.policies
      BY <2>1, <2>3 DEF Read, PolicyRows
    <2>5. t \in d.tables
      BY <2>1, <2>3, <2>4 DEF IInv, TypeOK, IsCatalog
    <2> QED
      BY <2>1, <2>3, <2>4, <2>5
  <1> QED
    BY <1>3, <1>4, <1>5, <1>6, <1>7, <1>8, <1>9, <1>10

LEMMA IntrospectionKeeps ==
    ASSUME IInv, Introspection
    PROVE  IInv'
  <1> USE DEF IInv
  <1>1. ASSUME ReadStates PROVE IInv'
    <2>1. TypeOK'
      <3>1. IsRepository(units)' /\ (\A d \in seen : IsCatalog(d))' /\ IsCatalog(catalog)'
        BY <1>1 DEF ReadStates, TypeOK, IsCatalog, Catalog
      <3>2. (\A w \in warnings : w[2] \in Names \cup {NoName})'
        BY <1>1 DEF ReadStates, TypeOK, Failure
      <3> QED
        BY <1>1, <3>1, <3>2 DEF ReadStates, TypeOK, Stages
    <2>2. RowsWereTrue'
      BY <1>1 DEF ReadStates, TypeOK, RowsWereTrue
    <2>3. CriticalIsEarned'
      BY <1>1 DEF ReadStates, CriticalIsEarned
    <2> QED
      BY <2>1, <2>2, <2>3
  <1>2. ASSUME NEW n \in Names, ReadPolicies(n) PROVE IInv'
    <2>1. n \in CandidateTables(units, Database)
      BY <1>2 DEF ReadPolicies, TypeOK
    <2>2. TypeOK'
      <3>1. IsRepository(units)' /\ (\A d \in seen : IsCatalog(d))' /\ IsCatalog(catalog)'
        BY <1>2 DEF ReadPolicies, TypeOK, IsCatalog, Catalog
      <3>2. (\A w \in warnings : w[2] \in Names \cup {NoName})'
        BY <1>2 DEF ReadPolicies, TypeOK, Failure
      <3> QED
        BY <1>2, <2>1, <3>1, <3>2 DEF ReadPolicies, TypeOK, Stages
    <2>3. RowsWereTrue'
      BY <1>2, <2>1 DEF ReadPolicies, TypeOK, RowsWereTrue
    <2>4. CriticalIsEarned'
      BY <1>2 DEF ReadPolicies, CriticalIsEarned
    <2> QED
      BY <2>2, <2>3, <2>4
  <1>3. ASSUME ReadGrants PROVE IInv'
    <2>1. PICK gs : findings' = findings \cup JudgedFor(current, states, policies, gs)
      BY <1>3 DEF ReadGrants
    <2>2. stage = "grants" /\ UNCHANGED <<units, catalog, seen, changes, pending, states>>
      BY <1>3 DEF ReadGrants
    <2>3. current \in Names
      BY <2>2, CandidatesAreNames DEF RowsWereTrue, TypeOK
    <2>4. TypeOK'
      <3>1. IsRepository(units)' /\ (\A d \in seen : IsCatalog(d))' /\ IsCatalog(catalog)'
        BY <2>2 DEF TypeOK, IsCatalog, Catalog
      <3>2. (\A w \in warnings : w[2] \in Names \cup {NoName})'
        BY <1>3, <2>3 DEF ReadGrants, TypeOK, Failure
      <3>3. (\A f \in findings : f.exposure \in Exposures /\ f.table \in Names \cup Tables)'
        BY <2>1, <2>2, JudgedIsTrue DEF TypeOK
      <3> QED
        BY <1>3, <3>1, <3>2, <3>3 DEF ReadGrants, TypeOK, Stages
    <2>5. RowsWereTrue'
      BY <1>3 DEF ReadGrants, RowsWereTrue
    <2>6. CriticalIsEarned'
      <3>1. seen' = seen
        BY <2>2
      <3> QED
        BY <2>1, <2>2, <3>1, JudgedIsTrue DEF CriticalIsEarned
    <2> QED
      BY <2>4, <2>5, <2>6
  <1>4. ASSUME Finish PROVE IInv'
    <2>1. TypeOK'
      BY <1>4 DEF Finish, TypeOK, Stages, IsCatalog, Catalog, IsRepository
    <2>2. RowsWereTrue' /\ CriticalIsEarned'
      BY <1>4 DEF Finish, RowsWereTrue, CriticalIsEarned
    <2> QED
      BY <2>1, <2>2
  <1> QED
    BY <1>1, <1>2, <1>3, <1>4 DEF Introspection

\* The inductive invariant of a scan of a changing database: the rows at hand
\* were true of a catalog that there was.
THEOREM CatalogInvariant == Spec => []IInv
  <1>1. Init => IInv
    BY TypesAtStart
  <1>2. IInv /\ [Next]_vars => IInv'
    <2> SUFFICES ASSUME IInv, [Next]_vars PROVE IInv'
      OBVIOUS
    <2>1. CASE Administrator
      BY <2>1, AdministratorKeeps
    <2>2. CASE Introspection
      BY <2>2, IntrospectionKeeps
    <2>3. CASE UNCHANGED vars
      <3>1. TypeOK'
        BY <2>3 DEF vars, IInv, TypeOK, IsCatalog, Catalog, IsRepository
      <3>2. RowsWereTrue' /\ CriticalIsEarned'
        BY <2>3 DEF vars, IInv, RowsWereTrue, CriticalIsEarned
      <3> QED
        BY <3>1, <3>2 DEF IInv
    <2> QED
      BY <2>1, <2>2, <2>3 DEF Next
  <1> QED
    BY <1>1, <1>2, PTL DEF Spec

\* The types, and a catalog whose policies and grants are of existing tables.
THEOREM CatalogTypeSafe == Spec => []TypeOK
  <1>1. IInv => TypeOK
    BY DEF IInv
  <1> QED
    BY <1>1, CatalogInvariant, PTL

\* A Critical finding was true of the table it names at one moment of the
\* scan, however the database changes between its queries.
THEOREM CriticalWasTrue == Spec => []CriticalIsEarned
  <1>1. IInv => CriticalIsEarned
    BY DEF IInv
  <1> QED
    BY <1>1, CatalogInvariant, PTL

\* What is asked of a project depends only on the apps whose files name it.
THEOREM ProjectsAreIsolated == Spec => []AppsAreIsolated
  <1>1. TypeOK => AppsAreIsolated
    BY Isolation DEF TypeOK
  <1> QED
    BY <1>1, CatalogTypeSafe, PTL

\* A file added to the repository takes no probe away without a warning.
THEOREM DroppedProbesAreTold == Spec => []NothingDropsUntold
  <1>1. TypeOK => NothingDropsUntold
    BY DropsAreTold DEF TypeOK
  <1> QED
    BY <1>1, CatalogTypeSafe, PTL

-----------------------------------------------------------------------------
(* A query that fails suppresses what rests on it, and nothing else.       *)

Of(s, ps) == {p \in ps.rows : p.table = s.table}

\* The four conclusions, one by one.
LEMMA JudgedCases ==
    ASSUME NEW e, NEW s, NEW ps, NEW gs, NEW f
    PROVE  f \in Judged(e, s, ps, gs) <=>
             \/ ~s.secured /\ f = Disabled(e)
             \/ /\ s.secured /\ ps.read
                /\ \/ \E p \in Of(s, ps) : Opens(p) /\ f = LiteralTrue(e, p)
                   \/ \E c \in Commands :
                        /\ Of(s, ps) # {} /\ \A p \in Of(s, ps) : ~Covers(p, c)
                        /\ f = MissingOperation(e, c)
                   \/ \E g \in gs.rows :
                        /\ g.table = s.table /\ g.grantee \in ApiRoles
                        /\ g.privilege \in WriteCommands
                        /\ \A p \in Of(s, ps) : ~Covers(p, g.privilege)
                        /\ f = InferredWrite(e, g)
  BY DEF Judged, Of

\* The exposure of each of them.
LEMMA ExposureOf ==
    ASSUME NEW e
    PROVE  /\ Disabled(e).exposure = "RlsDisabled"
           /\ \A p : LiteralTrue(e, p).exposure = "PermissivePolicy"
           /\ \A c : MissingOperation(e, c).exposure = "MissingOperationPolicy"
           /\ \A g : InferredWrite(e, g).exposure = "InferredWriteExposure"
  BY DEF Disabled, LiteralTrue, MissingOperation, InferredWrite, Finding

\* Rows that were read differ from those of a query that failed.
LEMMA ReadOrNot ==
    ASSUME NEW rows
    PROVE  /\ Read(rows) # Unread /\ Read(rows).read /\ Read(rows).rows = rows
           /\ ~Unread.read /\ Unread.rows = {}
  BY DEF Read, Unread

\* What is concluded of a table from the rows that could be read is what would
\* be concluded from all rows, less what rests on the others.
LEMMA JudgedLess ==
    ASSUME NEW e, NEW s, NEW RP, NEW RG,
           NEW ps \in {Unread, Read(RP)}, NEW gs \in {Unread, Read(RG)}, NEW f
    PROVE  f \in Judged(e, s, ps, gs) <=>
             /\ f \in Judged(e, s, Read(RP), Read(RG))
             /\ f.exposure # "RlsDisabled" => ps # Unread
             /\ f.exposure = "InferredWriteExposure" => gs # Unread
  <1>1. CASE ~s.secured
    BY <1>1, JudgedCases, ExposureOf
  <1>2. CASE s.secured /\ ps = Unread
    <2>1. f \notin Judged(e, s, ps, gs)
      BY <1>2, JudgedCases, ReadOrNot
    <2>2. f \in Judged(e, s, Read(RP), Read(RG)) => f.exposure # "RlsDisabled"
      BY <1>2, JudgedMember
    <2> QED
      BY <1>2, <2>1, <2>2
  <1>3. CASE s.secured /\ ps # Unread /\ gs # Unread
    BY <1>3, ReadOrNot
  <1>4. CASE s.secured /\ ps = Read(RP) /\ gs = Unread
    <2>1. f \in Judged(e, s, Read(RP), Unread) => f \in Judged(e, s, Read(RP), Read(RG))
      BY <1>4, JudgedCases, ReadOrNot
    <2>2. ASSUME f \in Judged(e, s, Read(RP), Unread)
          PROVE  f.exposure # "InferredWriteExposure"
      <3>1. \/ \E p \in Of(s, Read(RP)) : f = LiteralTrue(e, p)
            \/ \E c \in Commands : f = MissingOperation(e, c)
        BY <1>4, <2>2, JudgedCases, ReadOrNot
      <3> QED
        BY <3>1, ExposureOf
    <2>3. f \in Judged(e, s, Read(RP), Read(RG)) /\ f.exposure # "InferredWriteExposure"
            => f \in Judged(e, s, Read(RP), Unread)
      BY <1>4, JudgedCases, ExposureOf, ReadOrNot
    <2> QED
      BY <1>4, <2>1, <2>2, <2>3, ReadOrNot
  <1> QED
    BY <1>1, <1>2, <1>3, <1>4

StatesFailed == <<"TablesWithRowSecurity", NoName>>

\* The same of a candidate, with the warnings for the queries that failed.
LEMMA JudgedForLess ==
    ASSUME NEW n, NEW RS, NEW RP, NEW RG, NEW W,
           NEW sts \in {Unread, Read(RS)}, sts = Unread <=> StatesFailed \in W,
           NEW ps \in {Unread, Read(RP)}, ps = Unread <=> <<"Policies", n>> \in W,
           NEW gs \in {Unread, Read(RG)}, gs = Unread <=> <<"Grants", n>> \in W
    PROVE  JudgedFor(n, sts, ps, gs) =
             {f \in JudgedFor(n, Read(RS), Read(RP), Read(RG)) : Needed(f, n) \cap W = {}}
  <1>1. ASSUME NEW f
        PROVE  Needed(f, n) \cap W = {} <=>
                 /\ sts # Unread
                 /\ f.exposure # "RlsDisabled" => ps # Unread
                 /\ f.exposure = "InferredWriteExposure" => gs # Unread
    BY DEF Needed, StatesFailed
  <1>2. CASE sts = Unread
    <2>1. JudgedFor(n, sts, ps, gs) = {}
      BY <1>2, ReadOrNot DEF JudgedFor
    <2> QED
      BY <1>1, <1>2, <2>1
  <1>3. CASE sts = Read(RS)
    <2>1. ASSUME NEW f, NEW s \in Read(RS).rows
          PROVE  f \in Judged(EvidenceName(n, s.table), s, ps, gs) <=>
                   /\ f \in Judged(EvidenceName(n, s.table), s, Read(RP), Read(RG))
                   /\ f.exposure # "RlsDisabled" => ps # Unread
                   /\ f.exposure = "InferredWriteExposure" => gs # Unread
      BY JudgedLess
    <2>2. sts # Unread
      BY <1>3, ReadOrNot
    <2>3. ASSUME NEW f
          PROVE  f \in JudgedFor(n, sts, ps, gs) <=>
                   f \in JudgedFor(n, Read(RS), Read(RP), Read(RG)) /\ Needed(f, n) \cap W = {}
      BY <1>1, <1>3, <2>1, <2>2 DEF JudgedFor
    <2> QED
      BY <2>3
  <1> QED
    BY <1>2, <1>3

\* The candidates that have been judged.
Asked == {n \in CandidateTables(units, Database) :
            n \notin pending /\ (stage = "grants" => n # current)}

\* The warnings are exactly the queries that failed.
WarningsTell ==
    /\ stage = "states" => /\ warnings = {} /\ findings = {}
                           /\ pending = CandidateTables(units, Database)
    /\ stage # "states" => (states = Unread <=> StatesFailed \in warnings)
    /\ stage = "grants" => /\ current \notin pending
                           /\ policies = Unread <=> <<"Policies", current>> \in warnings
                           /\ <<"Grants", current>> \notin warnings
    /\ \A n \in pending : <<"Policies", n>> \notin warnings /\ <<"Grants", n>> \notin warnings

\* What the catalog c says of candidate n, less what rests on a query in W.
Wanted(c, n, W) ==
    {f \in JudgedFor(n, Read(StateRows(c)), Read(PolicyRows(c, n)), Read(GrantRows(c, n))) :
        Needed(f, n) \cap W = {}}

\* While the catalog stays as it was, the findings are exactly those.
JudgedExactly ==
    seen = {catalog} => findings = UNION {Wanted(catalog, n, warnings) : n \in Asked}

\* The rows that were read are judged at each candidate.
AskedAreTold ==
    \A n \in Asked : \A s \in states.rows : Matches(n, s.table) =>
        /\ ~s.secured => Disabled(EvidenceName(n, s.table)) \in findings
        /\ s.secured => \A p \in Policies :
             p.table = s.table /\ Opens(p) /\ (\A c \in seen : p \in c.policies) =>
               \/ <<"Policies", n>> \in warnings
               \/ LiteralTrue(EvidenceName(n, s.table), p) \in findings

AccountInv == IInv /\ WarningsTell /\ JudgedExactly /\ AskedAreTold

\* Each action leaves the candidates that are judged, but for the last query
\* of one.
LEMMA AskedNext ==
    ASSUME IInv, WarningsTell
    PROVE  /\ \A c : Change(c) => Asked' = Asked
           /\ ReadStates => Asked' = Asked /\ Asked = {}
           /\ \A n \in Names : ReadPolicies(n) => Asked' = Asked /\ n \notin Asked
           /\ ReadGrants => Asked' = Asked \cup {current}
           /\ Finish => Asked' = Asked
  <1>1. ASSUME NEW c, Change(c) PROVE Asked' = Asked
    BY <1>1 DEF Change, Asked
  <1>2. ASSUME ReadStates PROVE Asked' = Asked /\ Asked = {}
    BY <1>2 DEF ReadStates, Asked, WarningsTell
  <1>3. ASSUME NEW n \in Names, ReadPolicies(n) PROVE Asked' = Asked /\ n \notin Asked
    BY <1>3 DEF ReadPolicies, Asked
  <1>4. ASSUME ReadGrants PROVE Asked' = Asked \cup {current}
    BY <1>4 DEF ReadGrants, Asked, WarningsTell, IInv, RowsWereTrue
  <1>5. ASSUME Finish PROVE Asked' = Asked
    BY <1>5 DEF Finish, Asked
  <1> QED
    BY <1>1, <1>2, <1>3, <1>4, <1>5

\* The warnings stay exact: a query is asked once.
LEMMA WarningsNext ==
    ASSUME IInv, WarningsTell, Next
    PROVE  WarningsTell'
  <1>1. ASSUME NEW c, Change(c) PROVE WarningsTell'
    BY <1>1 DEF Change, WarningsTell
  <1>2. ASSUME ReadStates PROVE WarningsTell'
    BY <1>2, ReadOrNot DEF ReadStates, WarningsTell, Failure, StatesFailed
  <1>3. ASSUME NEW n \in Names, ReadPolicies(n) PROVE WarningsTell'
    BY <1>3, ReadOrNot DEF ReadPolicies, WarningsTell, Failure, StatesFailed
  <1>4. ASSUME ReadGrants PROVE WarningsTell'
    BY <1>4 DEF ReadGrants, WarningsTell, Failure, StatesFailed
  <1>5. ASSUME Finish PROVE WarningsTell'
    BY <1>5 DEF Finish, WarningsTell
  <1>6. Administrator => \E c : Change(c)
    BY DEF Administrator, CreateTable, DropTable, EnableRls, DisableRls,
           CreatePolicy, DropPolicy, Grant, Revoke
  <1> QED
    BY <1>1, <1>2, <1>3, <1>4, <1>5, <1>6 DEF Next, Introspection

\* W and V differ in queries of candidate n at most.
OthersSame(n, W, V) ==
    V = W \/ V = W \cup {<<"Policies", n>>} \/ V = W \cup {<<"Grants", n>>}

\* A failed query of another candidate leaves what is wanted of this one.
LEMMA WantedElsewhere ==
    ASSUME NEW c, NEW n, NEW m, m # n, NEW W, NEW V, OthersSame(n, W, V)
    PROVE  Wanted(c, m, V) = Wanted(c, m, W)
  <1>1. ASSUME NEW f
        PROVE  <<"Policies", n>> \notin Needed(f, m) /\ <<"Grants", n>> \notin Needed(f, m)
    BY DEF Needed
  <1>2. ASSUME NEW f
        PROVE  Needed(f, m) \cap V = {} <=> Needed(f, m) \cap W = {}
    BY <1>1 DEF OthersSame
  <1> QED
    BY <1>2 DEF Wanted

\* With one catalog, a candidate whose queries are over has what is wanted.
LEMMA CurrentExactly ==
    ASSUME IInv, WarningsTell, ReadGrants, seen = {catalog}
    PROVE  findings' = findings \cup Wanted(catalog, current, warnings')
  <1>1. /\ states \in {Unread, Read(StateRows(catalog))}
        /\ policies \in {Unread, Read(PolicyRows(catalog, current))}
    BY DEF IInv, RowsWereTrue
  <1>2. PICK gs \in {Unread, Read(GrantRows(catalog, current))} :
            /\ findings' = findings \cup JudgedFor(current, states, policies, gs)
            /\ gs = Unread <=> <<"Grants", current>> \in warnings'
    BY ReadOrNot DEF ReadGrants, Failure, WarningsTell
  <1>3. /\ states = Unread <=> StatesFailed \in warnings'
        /\ policies = Unread <=> <<"Policies", current>> \in warnings'
    BY DEF ReadGrants, Failure, WarningsTell, StatesFailed
  <1>4. JudgedFor(current, states, policies, gs) = Wanted(catalog, current, warnings')
    BY <1>1, <1>2, <1>3, JudgedForLess DEF Wanted
  <1> QED
    BY <1>2, <1>4

\* Each candidate adds what is wanted of it, and takes nothing from others.
LEMMA ExactNext ==
    ASSUME IInv, WarningsTell, JudgedExactly, Next
    PROVE  JudgedExactly'
  <1>1. ASSUME NEW c, Change(c) PROVE JudgedExactly'
    <2>1. ASSUME seen' = {catalog'}
          PROVE  catalog' = catalog /\ seen = {catalog}
      BY <1>1, <2>1 DEF Change, IInv, TypeOK
    <2>2. Asked' = Asked /\ UNCHANGED <<findings, warnings>>
      BY <1>1, AskedNext DEF Change
    <2> QED
      BY <2>1, <2>2 DEF JudgedExactly
  <1>2. ASSUME ReadStates PROVE JudgedExactly'
    BY <1>2, AskedNext DEF ReadStates, JudgedExactly, WarningsTell
  <1>3. ASSUME NEW n \in Names, ReadPolicies(n) PROVE JudgedExactly'
    <2>1. ASSUME NEW m \in Asked
          PROVE  Wanted(catalog, m, warnings') = Wanted(catalog, m, warnings)
      <3>1. m # n
        BY <1>3, AskedNext
      <3>2. OthersSame(n, warnings, warnings')
        BY <1>3 DEF ReadPolicies, Failure, OthersSame
      <3> QED
        BY <3>1, <3>2, WantedElsewhere
    <2>2. Asked' = Asked /\ UNCHANGED <<catalog, seen, findings>>
      BY <1>3, AskedNext DEF ReadPolicies
    <2> QED
      BY <2>1, <2>2 DEF JudgedExactly
  <1>4. ASSUME ReadGrants PROVE JudgedExactly'
    <2> SUFFICES ASSUME seen = {catalog}
                 PROVE  findings' = UNION {Wanted(catalog, n, warnings') : n \in Asked'}
      BY <1>4 DEF ReadGrants, JudgedExactly
    <2>1. current \notin Asked
      BY <1>4 DEF ReadGrants, Asked
    <2>2. ASSUME NEW m \in Asked
          PROVE  Wanted(catalog, m, warnings') = Wanted(catalog, m, warnings)
      <3>1. m # current
        BY <2>1
      <3>2. OthersSame(current, warnings, warnings')
        BY <1>4 DEF ReadGrants, Failure, OthersSame
      <3> QED
        BY <3>1, <3>2, WantedElsewhere
    <2>3. findings' = findings \cup Wanted(catalog, current, warnings')
      BY <1>4, CurrentExactly
    <2>4. Asked' = Asked \cup {current}
      BY <1>4, AskedNext
    <2> QED
      BY <2>2, <2>3, <2>4 DEF JudgedExactly
  <1>5. ASSUME Finish PROVE JudgedExactly'
    BY <1>5, AskedNext DEF Finish, JudgedExactly
  <1>6. Administrator => \E c : Change(c)
    BY DEF Administrator, CreateTable, DropTable, EnableRls, DisableRls,
           CreatePolicy, DropPolicy, Grant, Revoke
  <1> QED
    BY <1>1, <1>2, <1>3, <1>4, <1>5, <1>6 DEF Next, Introspection

\* The rows of one table are told when its candidate is judged.
LEMMA CurrentTold ==
    ASSUME IInv, WarningsTell, ReadGrants,
           NEW s \in states.rows, Matches(current, s.table)
    PROVE  /\ ~s.secured => Disabled(EvidenceName(current, s.table)) \in findings'
           /\ s.secured => \A p \in Policies :
                p.table = s.table /\ Opens(p) /\ (\A c \in seen : p \in c.policies) =>
                  \/ <<"Policies", current>> \in warnings
                  \/ LiteralTrue(EvidenceName(current, s.table), p) \in findings'
  <1> DEFINE e == EvidenceName(current, s.table)
  <1>1. PICK gs : JudgedFor(current, states, policies, gs) \subseteq findings'
    BY DEF ReadGrants
  <1>2. Judged(e, s, policies, gs) \subseteq findings'
    BY <1>1 DEF JudgedFor
  <1>3. ~s.secured => Disabled(e) \in findings'
    BY <1>2, JudgedCases
  <1>4. ASSUME s.secured, policies # Unread, NEW p \in Policies, p.table = s.table,
               Opens(p), \A c \in seen : p \in c.policies
        PROVE  LiteralTrue(e, p) \in findings'
    <2>1. PICK c \in seen : policies = Read(PolicyRows(c, current))
      BY <1>4 DEF IInv, RowsWereTrue
    <2>2. policies.read /\ p \in Of(s, policies)
      BY <1>4, <2>1, ReadOrNot DEF PolicyRows, Of
    <2> QED
      BY <1>2, <1>4, <2>2, JudgedCases
  <1>5. policies = Unread => <<"Policies", current>> \in warnings
    BY DEF WarningsTell, ReadGrants
  <1> QED
    BY <1>3, <1>4, <1>5

\* What is told stays told, and the next candidate is.
LEMMA ToldNext ==
    ASSUME IInv, WarningsTell, AskedAreTold, Next
    PROVE  AskedAreTold'
  <1>1. /\ seen \subseteq seen' /\ findings \subseteq findings' /\ warnings \subseteq warnings'
    BY DEF Next, Administrator, CreateTable, DropTable, EnableRls, DisableRls,
           CreatePolicy, DropPolicy, Grant, Revoke, Change, Introspection, ReadStates,
           ReadPolicies, ReadGrants, Finish, Failure
  <1>2. ASSUME Asked' = Asked, states' = states PROVE AskedAreTold'
    BY <1>1, <1>2 DEF AskedAreTold
  <1>3. ASSUME ReadStates PROVE AskedAreTold'
    BY <1>3, AskedNext DEF AskedAreTold
  <1>4. ASSUME ReadGrants PROVE AskedAreTold'
    <2>1. Asked' = Asked \cup {current} /\ states' = states
      BY <1>4, AskedNext DEF ReadGrants
    <2> QED
      BY <1>1, <1>4, <2>1, CurrentTold DEF AskedAreTold
  <1>5. ASSUME NEW n \in Names, ReadPolicies(n) PROVE Asked' = Asked /\ states' = states
    BY <1>5, AskedNext DEF ReadPolicies
  <1>6. ASSUME Finish PROVE Asked' = Asked /\ states' = states
    BY <1>6, AskedNext DEF Finish
  <1>7. ASSUME NEW c, Change(c) PROVE Asked' = Asked /\ states' = states
    BY <1>7, AskedNext DEF Change
  <1>8. Administrator => \E c : Change(c)
    BY DEF Administrator, CreateTable, DropTable, EnableRls, DisableRls,
           CreatePolicy, DropPolicy, Grant, Revoke
  <1> QED
    BY <1>2, <1>3, <1>4, <1>5, <1>6, <1>7, <1>8 DEF Next, Introspection

\* The account of a scan: the warnings are the failures, and each candidate
\* whose queries are over has the findings that the rows read are good for.
THEOREM CatalogAccount == Spec => []AccountInv
  <1>1. Init => WarningsTell /\ JudgedExactly /\ AskedAreTold
    <2> SUFFICES ASSUME Init PROVE WarningsTell /\ JudgedExactly /\ AskedAreTold
      OBVIOUS
    <2>1. WarningsTell
      BY DEF Init, WarningsTell
    <2>2. Asked = {} /\ findings = {}
      BY DEF Init, Asked
    <2> QED
      BY <2>1, <2>2 DEF JudgedExactly, AskedAreTold
  <1>2. ASSUME IInv, WarningsTell, JudgedExactly, AskedAreTold, [Next]_vars
        PROVE  WarningsTell' /\ JudgedExactly' /\ AskedAreTold'
    <2>1. CASE Next
      BY <1>2, <2>1, WarningsNext, ExactNext, ToldNext
    <2>2. CASE UNCHANGED vars
      <3>1. Asked' = Asked
        BY <2>2 DEF vars, Asked
      <3> QED
        BY <1>2, <2>2, <3>1 DEF vars, WarningsTell, JudgedExactly, AskedAreTold
    <2> QED
      BY <1>2, <2>1, <2>2
  <1> QED
    BY <1>1, <1>2, CatalogInvariant, PTL DEF Spec, AccountInv

\* Without change of the catalog, the findings are those of a scan without
\* failures, less what rests on a query that failed.
THEOREM FailuresOnlySuppress == Spec => []FailuresSuppressOnly
  <1>1. AccountInv => FailuresSuppressOnly
    <2> SUFFICES ASSUME AccountInv, stage = "done", seen = {catalog}
                 PROVE  findings = UNION {Wanted(catalog, n, warnings) :
                                            n \in CandidateTables(units, Database)}
      BY DEF FailuresSuppressOnly, Wanted
    <2>1. Asked = CandidateTables(units, Database)
      BY DEF AccountInv, IInv, TypeOK, Asked
    <2> QED
      BY <2>1 DEF AccountInv, JudgedExactly
  <1> QED
    BY <1>1, CatalogAccount, PTL

\* A table open throughout the scan for one reason is reported as Critical,
\* unless the query that would tell failed.
THEOREM OpenTablesTold == Spec => []OpenTablesAreTold
  <1>1. AccountInv => OpenTablesAreTold
    <2> SUFFICES ASSUME AccountInv, stage = "done",
                        NEW n \in CandidateTables(units, Database), NEW t \in Tables,
                        Matches(n, t), StatesFailed \notin warnings
                 PROVE  /\ (\A c \in seen : t \in c.tables \ c.secured) =>
                             Critical(t, {"RlsDisabled"})
                        /\ \A p \in Policies :
                             /\ p.table = t
                             /\ Opens(p)
                             /\ \A c \in seen : p \in c.policies
                             => \/ Critical(t, {"RlsDisabled", "PermissivePolicy"})
                                \/ <<"Policies", n>> \in warnings
      BY DEF OpenTablesAreTold, StatesFailed
    <2>1. n \in Asked
      BY DEF AccountInv, IInv, TypeOK, Asked
    <2>2. PICK c \in seen : states = Read(StateRows(c)) /\ IsCatalog(c)
      BY DEF AccountInv, IInv, TypeOK, RowsWereTrue, WarningsTell
    <2> DEFINE e == EvidenceName(n, t)
               s == [table |-> t, secured |-> t \in c.secured]
    <2>3. Denotes(e, t)
      BY NamesDenote
    <2>4. ASSUME t \in c.tables
          PROVE  /\ t \notin c.secured => Disabled(e) \in findings
                 /\ t \in c.secured => \A p \in Policies :
                      p.table = t /\ Opens(p) /\ (\A d \in seen : p \in d.policies) =>
                        \/ <<"Policies", n>> \in warnings
                        \/ LiteralTrue(e, p) \in findings
      <3>1. s \in states.rows /\ s.table = t /\ (s.secured <=> t \in c.secured)
        BY <2>2, <2>4, ReadOrNot DEF StateRows
      <3> HIDE DEF s
      <3> QED
        BY <2>1, <3>1 DEF AccountInv, AskedAreTold
    <2>5. Disabled(e) \in findings =>
            Critical(t, {"RlsDisabled"}) /\ Critical(t, {"RlsDisabled", "PermissivePolicy"})
      <3>1. Disabled(e).exposure = "RlsDisabled" /\ Disabled(e).table = e
        BY DEF Disabled, Finding
      <3> QED
        BY <2>3, <3>1 DEF Critical
    <2>6. ASSUME NEW p, LiteralTrue(e, p) \in findings
          PROVE  Critical(t, {"RlsDisabled", "PermissivePolicy"})
      <3>1. LiteralTrue(e, p).exposure = "PermissivePolicy" /\ LiteralTrue(e, p).table = e
        BY DEF LiteralTrue, Finding
      <3> QED
        BY <2>3, <2>6, <3>1 DEF Critical
    <2>7. ASSUME NEW p \in Policies, p.table = t, \A d \in seen : p \in d.policies
          PROVE  t \in c.tables
      BY <2>2, <2>7 DEF IsCatalog
    <2> QED
      BY <2>2, <2>4, <2>5, <2>6, <2>7
  <1> QED
    BY <1>1, CatalogAccount, PTL
=============================================================================
