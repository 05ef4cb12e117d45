------------------------- MODULE ScanNetworkProofs -------------------------
(***************************************************************************)
(* What a scan sends, reports and finds, and that nothing it was asked to  *)
(* look for passes it unseen, for any repository, any servers, any         *)
(* configuration file and any command line.                                *)
(***************************************************************************)
EXTENDS ScanNetwork, TLAPS

-----------------------------------------------------------------------------
(***************************************************************************)
(* The audit.                                                              *)
(***************************************************************************)
Recorded == {<<a[1], a[2]>> : a \in actions}

\* The audit is complete after every step, not only when the scan returns.
AuditInv == SentAudited = Recorded

\* Nothing was sent and nothing is recorded when the process starts.
LEMMA AuditInit == Init => AuditInv
  BY DEF Init, AuditInv, SentAudited, Recorded

\* Requests and actions that match keep the audit complete.
LEMMA AuditGrows ==
  ASSUME AuditInv, NEW R, NEW A,
         sent' = sent \cup R, actions' = actions \cup A,
         {r \in R : r[1] \in Audited} = {<<a[1], a[2]>> : a \in A}
  PROVE  AuditInv'
  <1>1. SentAudited' = SentAudited \cup {r \in R : r[1] \in Audited}
    BY DEF SentAudited
  <1>2. Recorded' = Recorded \cup {<<a[1], a[2]>> : a \in A}
    BY DEF Recorded
  <1> QED
    BY <1>1, <1>2 DEF AuditInv

\* One request of an audited kind and its action match.
LEMMA OneAudited ==
  ASSUME AuditInv, NEW kind \in Audited, NEW q, NEW o,
         sent' = sent \cup {<<kind, q>>}, actions' = actions \cup {<<kind, q, o>>}
  PROVE  AuditInv'
  <1>1. {r \in {<<kind, q>>} : r[1] \in Audited} = {<<kind, q>>}
    OBVIOUS
  <1>2. {<<a[1], a[2]>> : a \in {<<kind, q, o>>}} = {<<kind, q>>}
    OBVIOUS
  <1> QED
    BY <1>1, <1>2, AuditGrows, Zenon

\* A request that is not audited needs no action.
LEMMA Unaudited ==
  ASSUME AuditInv, NEW kind, kind \notin Audited, NEW q,
         sent' = sent \cup {<<kind, q>>}, UNCHANGED actions
  PROVE  AuditInv'
  BY DEF AuditInv, SentAudited, Recorded

\* Each catalog query, failed or not, has its action.
LEMMA AuditQuery ==
  ASSUME AuditInv, NEW Q, NEW F, Query(Q, F)
  PROVE  AuditInv'
  <1> DEFINE R == {<<"catalog", q>> : q \in Q}
             A == {<<"catalog", q, IF q \in F THEN "Failed" ELSE "CatalogRead">> : q \in Q}
  <1>1. {r \in R : r[1] \in Audited} = R
    BY DEF Audited
  <1>2. {<<a[1], a[2]>> : a \in A} = R
    <2> DEFINE outcome(q) == IF q \in F THEN "Failed" ELSE "CatalogRead"
    <2>1. ASSUME NEW q \in Q
          PROVE  \E a \in A : a[1] = "catalog" /\ a[2] = q
      <3>1. <<"catalog", q, outcome(q)>> \in A
        OBVIOUS
      <3> HIDE DEF A, outcome
      <3> QED
        BY <3>1
    <2>2. \A a \in A : a[1] = "catalog" /\ a[2] \in Q
      OBVIOUS
    <2> QED
      BY <2>1, <2>2
  <1>3. sent' = sent \cup R /\ actions' = actions \cup A
    BY DEF Query
  <1> QED
    BY <1>1, <1>2, <1>3, AuditGrows, Zenon

\* Every step of a scan keeps the audit complete.
LEMMA AuditNext == AuditInv /\ [Next]_vars => AuditInv'
  <1> SUFFICES ASSUME AuditInv, [Next]_vars PROVE AuditInv'
    OBVIOUS
  <1>1. CASE UNCHANGED <<sent, actions>>
    BY <1>1 DEF AuditInv, SentAudited, Recorded
  <1>2. ASSUME NEW e \in Ecosystems, Advisories(e) PROVE AuditInv'
    BY <1>1, <1>2, Unaudited DEF Advisories, Audited
  <1>3. ASSUME NEW k \in Packages, ResolvePackage(k) PROVE AuditInv'
    BY <1>3, OneAudited DEF ResolvePackage, Audited
  <1>4. ASSUME NEW k \in Packages, ResolveFails(k) PROVE AuditInv'
    BY <1>4, OneAudited DEF ResolveFails, Audited
  <1>5. ASSUME NEW p \in Projects, EnumerateRoot(p) PROVE AuditInv'
    BY <1>5, OneAudited DEF EnumerateRoot, Audited
  <1>6. ASSUME NEW p \in Projects, EnumerateRootFails(p) PROVE AuditInv'
    BY <1>6, OneAudited DEF EnumerateRootFails, Audited
  <1>7. ASSUME NEW p \in Projects, NEW t \in Tables,
               TableExposed(p, t) \/ TableClosed(p, t) \/ TableFails(p, t)
        PROVE  AuditInv'
    <2>1. PICK o \in {"Exposed", "Closed", "Failed"} : AskTable(p, t, o)
      BY <1>7 DEF TableExposed, TableClosed, TableFails
    <2> QED
      BY <2>1, OneAudited DEF AskTable, Audited
  <1>8. CASE ConnectTier1 \/ ConnectTier1Fails
    BY <1>1, <1>8, Unaudited DEF ConnectTier1, ConnectTier1Fails, Audited
  <1>9. CASE QueryStates
    BY <1>9, AuditQuery DEF QueryStates
  <1>10. ASSUME NEW t \in Tables, QueryTable(t) PROVE AuditInv'
    BY <1>10, AuditQuery DEF QueryTable
  <1>11. CASE UNCHANGED vars
    BY <1>1, <1>11 DEF vars
  <1>12. CASE \/ Configure \/ ConfigureFails \/ ReadManifest \/ EndManifests
              \/ ScanLocallyFails \/ Return
    BY <1>1, <1>12 DEF Configure, ConfigureFails, ReadManifest, EndManifests,
       ScanLocallyFails, Return, Fail, report
  <1>13. CASE Registry
    BY <1>1, <1>2, <1>3, <1>4, <1>13 DEF Registry, StartRegistry, StartRegistryFails,
       SkipRegistry, ReadRegistryFile, EndRegistries, MatchAdvisories, KnownPackage,
       EndRegistry, Fail, report
  <1>14. CASE Tier0
    BY <1>1, <1>5, <1>6, <1>7, <1>14 DEF Tier0, StartTier0, EndTier0, RefuseProject,
       report
  <1>15. CASE Tier1
    BY <1>1, <1>8, <1>9, <1>10, <1>15 DEF Tier1, SkipTier1, EndTier1, report
  <1>16. ASSUME NEW f \in Manifests, NEW text, EditManifest(f, text)
         PROVE  AuditInv'
    BY <1>1, <1>16 DEF EditManifest, report
  <1> QED
    BY <1>11, <1>12, <1>13, <1>14, <1>15, <1>16 DEF Next

\* A returned report lists each audited request that was sent, and no other.
THEOREM AuditIsAlwaysComplete == Spec => []AuditIsComplete
  <1>1. AuditInv => AuditIsComplete
    BY DEF AuditInv, AuditIsComplete, Recorded
  <1> QED
    BY <1>1, AuditInit, AuditNext, PTL DEF Spec

-----------------------------------------------------------------------------
(***************************************************************************)
(* Names, features and findings.                                           *)
(***************************************************************************)
NoNameYet == \A k \in Packages : <<"existence", k>> \notin sent
NoneMaliciousYet == \A d \in Dependencies : <<"KnownMalicious", d>> \notin findings

\* A registry that was kept all along is in the files; and while they are looked
\* through, it has been found or is still ahead, for it never moves backwards.
RegistriesInv ==
    /\ reading \in Nat \ {0}
    /\ kept \subseteq Registries(files)
    /\ stage = "registry" => reading = 1
    /\ stage = "registries" =>
         /\ world.private \subseteq private
         /\ \A x \in kept : x[1] \in private \/ x[2] >= reading
    /\ stage \in {"advisories", "existence"} => Homely \subseteq private
    /\ (\E k \in Packages : <<"existence", k>> \in sent) => Homely \subseteq private

\* A stage that sends is reached only with its feature on; and Askable, which
\* the snapshots decide, is settled before the first name is asked for.
ScopeInv ==
    /\ config \subseteq asked
    /\ stage \in {"registries", "advisories", "existence"} => "registry" \in config
    /\ stage \in {"projects", "tables"} => "tier0" \in config
    /\ stage \in {"states", "catalog"} => "tier1" \in config
    /\ stage \in {"start", "local", "registry", "registries", "advisories"} =>
         NoNameYet /\ NoneMaliciousYet
    /\ stage = "existence" => pending \subseteq Askable
    /\ \A k \in Packages : <<"existence", k>> \in sent => k \in Askable
    /\ \A d \in Dependencies : <<"KnownMalicious", d>> \in findings => d \in Matched
    /\ RepositoryCannotConnect
    /\ FailuresAccuseNobody

\* What may be asked for depends on nothing else.
LEMMA ScopeStays ==
  UNCHANGED <<inputs, snapshots>> =>
    UNCHANGED <<Matched, Askable>>
  BY DEF inputs, command, repository, Matched, Askable, Checkable, Suppressed

\* Nothing was sent or found when the process starts.
LEMMA ScopeInit == Init => ScopeInv
  BY DEF Init, ScopeInv, NoNameYet, NoneMaliciousYet, RepositoryCannotConnect,
     FailuresAccuseNobody

\* Every step of a scan keeps to the features and names it may use.
LEMMA ScopeNext == ScopeInv /\ [Next]_vars => ScopeInv'
  <1> SUFFICES ASSUME ScopeInv, [Next]_vars PROVE ScopeInv'
    OBVIOUS
  <1> USE DEF ScopeInv, NoNameYet, NoneMaliciousYet, RepositoryCannotConnect,
          FailuresAccuseNobody, inputs, repository, command, report, Go
  <1>1. CASE Configure \/ ConfigureFails \/ ScanLocallyFails \/ Return
    BY <1>1, ScopeStays DEF Configure, ConfigureFails, ScanLocallyFails, Return, Fail,
       Enabled
  <1>2. CASE StartRegistryFails \/ SkipRegistry \/ EndRegistry
    BY <1>2, ScopeStays DEF StartRegistryFails, SkipRegistry, EndRegistry, Fail
  <1>3. ASSUME NEW e \in Ecosystems, Advisories(e) PROVE ScopeInv'
    BY <1>3 DEF Advisories, FeatureOf
  <1>4. CASE MatchAdvisories
    <2>1. UNCHANGED <<Matched, Askable>>
      BY <1>4, ScopeStays DEF MatchAdvisories
    <2>2. Matched \subseteq world.malicious
      BY DEF Matched
    <2> QED
      BY <1>4, <2>1, <2>2 DEF MatchAdvisories
  <1>5. ASSUME NEW k \in Packages, KnownPackage(k) \/ ResolvePackage(k) \/ ResolveFails(k)
        PROVE  ScopeInv'
    <2>1. CASE KnownPackage(k)
      BY <2>1, ScopeStays DEF KnownPackage, Verdict
    <2>2. CASE ResolvePackage(k)
      BY <2>2, ScopeStays DEF ResolvePackage, Verdict, FeatureOf
    <2>3. CASE ResolveFails(k)
      BY <2>3, ScopeStays DEF ResolveFails, FeatureOf
    <2> QED
      BY <1>5, <2>1, <2>2, <2>3
  <1>6. CASE StartTier0 \/ EndTier0
    BY <1>6, ScopeStays DEF StartTier0, EndTier0
  <1>7. ASSUME NEW p \in Projects,
               RefuseProject(p) \/ EnumerateRoot(p) \/ EnumerateRootFails(p)
        PROVE  ScopeInv'
    <2>1. CASE RefuseProject(p)
      BY <2>1, ScopeStays DEF RefuseProject
    <2>2. CASE EnumerateRoot(p)
      <3>1. stage = "projects" /\ stage' \in {"projects", "tables"}
        BY <2>2 DEF EnumerateRoot, ProbeTables
      <3> QED
        BY <2>2, <3>1, ScopeStays DEF EnumerateRoot, FeatureOf
    <2>3. CASE EnumerateRootFails(p)
      <3>1. stage = "projects" /\ stage' \in {"projects", "tables"}
        BY <2>3 DEF EnumerateRootFails, ProbeTables
      <3> QED
        BY <2>3, <3>1, ScopeStays DEF EnumerateRootFails, FeatureOf
    <2> QED
      BY <1>7, <2>1, <2>2, <2>3
  <1>8. ASSUME NEW p \in Projects, NEW t \in Tables,
               TableExposed(p, t) \/ TableClosed(p, t) \/ TableFails(p, t)
        PROVE  ScopeInv'
    <2>1. CASE TableExposed(p, t)
      BY <2>1, ScopeStays DEF TableExposed, AskTable, FeatureOf
    <2>2. CASE TableClosed(p, t)
      BY <2>2, ScopeStays DEF TableClosed, AskTable, FeatureOf
    <2>3. CASE TableFails(p, t)
      BY <2>3, ScopeStays DEF TableFails, AskTable, FeatureOf
    <2> QED
      BY <1>8, <2>1, <2>2, <2>3
  <1>9. CASE SkipTier1 \/ ConnectTier1 \/ ConnectTier1Fails \/ EndTier1
    <2>1. CASE SkipTier1 \/ EndTier1
      BY <2>1, ScopeStays DEF SkipTier1, EndTier1
    <2>2. CASE ConnectTier1
      BY <2>2, ScopeStays DEF ConnectTier1, FeatureOf
    <2>3. CASE ConnectTier1Fails
      BY <2>3, ScopeStays DEF ConnectTier1Fails, FeatureOf
    <2> QED
      BY <1>9, <2>1, <2>2, <2>3
  <1>10. CASE QueryStates
    BY <1>10, ScopeStays DEF QueryStates, Query, FeatureOf
  <1>11. ASSUME NEW t \in Tables, QueryTable(t) PROVE ScopeInv'
    BY <1>11, ScopeStays DEF QueryTable, Query, FeatureOf
  <1>12. CASE UNCHANGED vars
    BY <1>12, ScopeStays DEF vars
  <1>13. ASSUME NEW f \in Manifests, NEW text, EditManifest(f, text)
         PROVE  ScopeInv'
    BY <1>13 DEF EditManifest
  <1>14. CASE ReadManifest \/ EndManifests
    BY <1>14 DEF ReadManifest, EndManifests
  <1>15. CASE StartRegistry \/ ReadRegistryFile \/ EndRegistries
    BY <1>15 DEF StartRegistry, ReadRegistryFile, EndRegistries
  <1> QED
    BY <1>1, <1>2, <1>3, <1>4, <1>5, <1>6, <1>7, <1>8, <1>9, <1>10, <1>11, <1>12,
       <1>13, <1>14, <1>15
    DEF Next, Registry, Tier0, Tier1

\* What is not looked through any more depends on nothing else.
LEMMA RegistriesStay ==
  ASSUME RegistriesInv, UNCHANGED inputs,
         \/ stage' = stage
         \/ stage = "advisories" /\ stage' = "existence"
         \/ stage' \notin {"registry", "registries", "advisories", "existence"},
         stage = "existence" \/ \A k \in Packages :
             <<"existence", k>> \in sent' => <<"existence", k>> \in sent
  PROVE  RegistriesInv'
  <1>1. UNCHANGED <<Registries(files), Homely, world, private, kept, reading>>
    BY DEF inputs, command, repository, Registries, Homely
  <1> QED
    BY <1>1 DEF RegistriesInv

\* Nothing was moved or read when the process starts.
LEMMA RegistriesInit == Init => RegistriesInv
  BY DEF Init, RegistriesInv

\* Every step keeps the registries that were there all along found or ahead.
LEMMA RegistriesNext == ScopeInv /\ RegistriesInv /\ [Next]_vars => RegistriesInv'
  <1> SUFFICES ASSUME ScopeInv, RegistriesInv, [Next]_vars PROVE RegistriesInv'
    OBVIOUS
  <1> USE DEF Go, report
  <1>1. ASSUME NEW f \in Manifests, NEW text, EditManifest(f, text)
        PROVE  RegistriesInv'
    <2>1. kept' = Handed(kept, Registries(files)') /\ UNCHANGED <<world, private, reading, stage, sent>>
      BY <1>1 DEF EditManifest, command, Registries
    <2>2. kept' \subseteq Registries(files)'
      BY <2>1 DEF Handed
    <2>3. \A x \in kept' : \E y \in kept : y[1] = x[1] /\ y[2] <= x[2]
      BY <2>1 DEF Handed
    <2>4. \A x \in kept \cup kept' : x[2] \in Nat
      BY <2>2, OrderAssumption DEF RegistriesInv, Registries
    <2>5. Homely' \subseteq Homely
      BY <2>1, <2>3 DEF Homely
    <2>6. ASSUME stage = "registries", NEW x \in kept'
          PROVE  x[1] \in private \/ x[2] >= reading
      <3>1. PICK y \in kept : y[1] = x[1] /\ y[2] <= x[2]
        BY <2>3
      <3> QED
        BY <2>4, <2>6, <3>1 DEF RegistriesInv
    <2> QED
      BY <2>1, <2>2, <2>5, <2>6 DEF RegistriesInv
  <1>2. CASE ReadManifest \/ EndManifests
    <2>1. /\ UNCHANGED <<world, private, files, kept, sent>> /\ reading' \in Nat \ {0}
          /\ stage = "local" /\ stage' \in {"local", "registry"}
          /\ stage' = "registry" => reading' = 1
      BY <1>2 DEF ReadManifest, EndManifests, command, repository, RegistriesInv
    <2>2. UNCHANGED <<Registries(files), Homely>>
      BY <2>1 DEF Registries, Homely
    <2> QED
      BY <2>1, <2>2 DEF RegistriesInv
  <1>3. CASE StartRegistry
    <2>1. /\ UNCHANGED <<world, files, kept, sent, reading>> /\ private' = world.private
          /\ stage = "registry" /\ stage' = "registries"
      BY <1>3 DEF StartRegistry, command, repository
    <2>2. UNCHANGED <<Registries(files), Homely>>
      BY <2>1 DEF Registries, Homely
    <2>3. \A x \in kept : x[2] >= reading
      BY <2>1, OrderAssumption DEF RegistriesInv, Registries
    <2> QED
      BY <2>1, <2>2, <2>3 DEF RegistriesInv, ScopeInv, NoNameYet
  <1>4. CASE ReadRegistryFile
    <2>1. /\ UNCHANGED <<world, files, kept, sent, stage>> /\ reading' = reading + 1
          /\ private' = private \cup files[RegistryOrder[reading]].private
          /\ stage = "registries"
      BY <1>4 DEF ReadRegistryFile, command, repository
    <2>2. UNCHANGED <<Registries(files), Homely>>
      BY <2>1 DEF Registries, Homely
    <2>3. ASSUME NEW x \in kept PROVE x[1] \in private' \/ x[2] >= reading'
      <3>1. x[1] \in files[RegistryOrder[x[2]]].private /\ x[2] \in Nat
        BY OrderAssumption DEF RegistriesInv, Registries
      <3>2. x[1] \in private \/ x[2] >= reading
        BY <2>1 DEF RegistriesInv
      <3>3. CASE x[2] = reading
        BY <2>1, <3>1, <3>3
      <3>4. CASE x[2] # reading
        BY <2>1, <3>1, <3>2, <3>4 DEF RegistriesInv
      <3> QED
        BY <3>3, <3>4
    <2> QED
      BY <2>1, <2>2, <2>3 DEF RegistriesInv, ScopeInv, NoNameYet
  <1>5. CASE EndRegistries
    <2>1. /\ UNCHANGED <<world, private, files, kept, sent>> /\ reading' = 1
          /\ stage = "registries" /\ stage' = "advisories"
          /\ reading \notin DOMAIN RegistryOrder
      BY <1>5 DEF EndRegistries, command, repository
    <2>2. UNCHANGED <<Registries(files), Homely>>
      BY <2>1 DEF Registries, Homely
    <2>3. Homely \subseteq private
      <3>1. ASSUME NEW x \in kept PROVE x[1] \in private
        <4>1. x[2] \in DOMAIN RegistryOrder /\ reading > Len(RegistryOrder)
          BY <2>1, OrderAssumption DEF RegistriesInv, Registries
        <4> QED
          BY <2>1, <4>1, OrderAssumption DEF RegistriesInv
      <3> QED
        BY <2>1, <3>1 DEF RegistriesInv, Homely
    <2> QED
      BY <2>1, <2>2, <2>3 DEF RegistriesInv
  <1>6. CASE \/ Configure \/ ConfigureFails \/ ScanLocallyFails \/ StartRegistryFails
             \/ SkipRegistry \/ EndRegistry \/ Return
    BY <1>6, RegistriesStay DEF Configure, ConfigureFails, ScanLocallyFails,
       StartRegistryFails, SkipRegistry, EndRegistry, Return, Fail
  <1>7. ASSUME NEW e \in Ecosystems, Advisories(e) PROVE RegistriesInv'
    BY <1>7, RegistriesStay DEF Advisories
  <1>8. CASE MatchAdvisories
    BY <1>8, RegistriesStay DEF MatchAdvisories
  <1>9. ASSUME NEW k \in Packages, KnownPackage(k) \/ ResolvePackage(k) \/ ResolveFails(k)
        PROVE  RegistriesInv'
    BY <1>9, RegistriesStay DEF KnownPackage, ResolvePackage, ResolveFails
  <1>10. CASE StartTier0 \/ EndTier0
    BY <1>10, RegistriesStay DEF StartTier0, EndTier0
  <1>11. ASSUME NEW p \in Projects,
                RefuseProject(p) \/ EnumerateRoot(p) \/ EnumerateRootFails(p)
         PROVE  RegistriesInv'
    <2>1. UNCHANGED inputs /\ (stage' = stage \/ stage' = "tables")
      BY <1>11 DEF RefuseProject, EnumerateRoot, EnumerateRootFails, ProbeTables
    <2>2. sent' \subseteq sent \cup {<<"root", p>>}
      BY <1>11 DEF RefuseProject, EnumerateRoot, EnumerateRootFails
    <2> QED
      BY <2>1, <2>2, RegistriesStay
  <1>12. ASSUME NEW p \in Projects, NEW t \in Tables,
                TableExposed(p, t) \/ TableClosed(p, t) \/ TableFails(p, t)
         PROVE  RegistriesInv'
    <2>1. PICK o : AskTable(p, t, o)
      BY <1>12 DEF TableExposed, TableClosed, TableFails
    <2> QED
      BY <2>1, RegistriesStay DEF AskTable
  <1>13. CASE Tier1
    <2>1. UNCHANGED inputs /\ stage' \in {stage, "states", "catalog", "report", "failed"}
      BY <1>13 DEF Tier1, SkipTier1, ConnectTier1, ConnectTier1Fails, QueryStates,
         QueryTable, EndTier1
    <2>2. \A k \in Packages : <<"existence", k>> \in sent' => <<"existence", k>> \in sent
      <3>1. ASSUME NEW Q, NEW F, Query(Q, F)
            PROVE  \A k \in Packages : <<"existence", k>> \in sent' => <<"existence", k>> \in sent
        BY <3>1 DEF Query
      <3>2. CASE SkipTier1 \/ ConnectTier1 \/ ConnectTier1Fails \/ EndTier1
        BY <3>2 DEF SkipTier1, ConnectTier1, ConnectTier1Fails, EndTier1
      <3>3. CASE QueryStates
        BY <3>1, <3>3 DEF QueryStates
      <3>4. CASE \E t \in Tables : QueryTable(t)
        BY <3>1, <3>4 DEF QueryTable
      <3> QED
        BY <1>13, <3>2, <3>3, <3>4 DEF Tier1
    <2> QED
      BY <2>1, <2>2, RegistriesStay
  <1>14. CASE UNCHANGED vars
    BY <1>14, RegistriesStay DEF vars, inputs, command, repository
  <1> QED
    BY <1>1, <1>2, <1>3, <1>4, <1>5, <1>6, <1>7, <1>8, <1>9, <1>10, <1>11, <1>12, <1>13,
       <1>14
    DEF Next, Registry, Tier0

\* The scope is kept at all times.
LEMMA ScopeAlways == Spec => []ScopeInv
  BY ScopeInit, ScopeNext, PTL DEF Spec

\* A package whose name leaves is one that some unscoped coordinate declares, of
\* an ecosystem that had not its own registry all along, and no version of it was
\* matched by an advisory.
LEMMA ScopeKeepsNames == ScopeInv /\ RegistriesInv => NamesStayHome
  <1> SUFFICES ASSUME ScopeInv, RegistriesInv,
                      NEW k \in Packages, <<"existence", k>> \in sent
               PROVE  /\ \E d \in Checkable \ Scoped :
                           Package[d] = k /\ Ecosystem[d] \notin Homely
                      /\ \A d \in Dependencies :
                           <<"KnownMalicious", d>> \in findings => Package[d] # k
    BY DEF NamesStayHome
  <1>1. k \in Askable
    BY DEF ScopeInv
  <1>2. \A d \in Dependencies :
          <<"KnownMalicious", d>> \in findings => d \in Matched
    BY DEF ScopeInv
  <1>3. Homely \subseteq private
    BY DEF RegistriesInv
  <1> QED
    BY <1>1, <1>2, <1>3 DEF Askable

\* Names of scoped packages, of packages found malicious in any version, and of
\* ecosystems whose registry stayed where it was or moved to a file that is read
\* later, are not sent, wherever edits fall among the reads.
THEOREM NamesAlwaysStayHome == Spec => []NamesStayHome
  <1>1. Init => ScopeInv /\ RegistriesInv
    BY ScopeInit, RegistriesInit
  <1>2. ScopeInv /\ RegistriesInv /\ [Next]_vars => (ScopeInv /\ RegistriesInv)'
    BY ScopeNext, RegistriesNext
  <1> QED
    BY <1>1, <1>2, ScopeKeepsNames, PTL DEF Spec

\* Every finding is true of the servers, whichever requests fail.
THEOREM NoFalseAccusation == Spec => []FailuresAccuseNobody
  <1>1. ScopeInv => FailuresAccuseNobody
    BY DEF ScopeInv
  <1> QED
    BY <1>1, ScopeAlways, PTL

\* Nothing is sent for a feature that the command line does not ask for,
\* whatever the file of the scanned repository says.
THEOREM OnlyTheCommandLineConnects == Spec => []RepositoryCannotConnect
  <1>1. ScopeInv => RepositoryCannotConnect
    BY DEF ScopeInv
  <1> QED
    BY <1>1, ScopeAlways, PTL

-----------------------------------------------------------------------------
(***************************************************************************)
(* Types.                                                                  *)
(***************************************************************************)
TypeInv ==
    /\ TypeOK
    /\ world \in Worlds
    /\ asked \subseteq Features

\* What is read of a file is about declared coordinates and known names.
LEMMA TextTypes ==
  ASSUME NEW f \in Manifests, NEW text \in Texts[f]
  PROVE  /\ Eligible(text) \subseteq Dependencies
         /\ text.flawed \subseteq Names
         /\ text.private \subseteq Ecosystems
  <1>1. Texts[f] \subseteq [entries : SUBSET Dependencies, flawed : SUBSET Names,
                            private : SUBSET Ecosystems]
    BY TextsAssumption
  <1> QED
    BY <1>1 DEF Eligible

\* A package is of one ecosystem, that of its coordinates.
LEMMA EcosystemOfPackage ==
  ASSUME NEW d \in Dependencies
  PROVE  EcosystemOf(Package[d]) = Ecosystem[d] /\ Ecosystem[d] \in Ecosystems
  <1>1. Ecosystem[d] \in Ecosystems
    BY DEF Ecosystems
  <1>2. \A e \in Ecosystems : (\E x \in Dependencies : Package[x] = Package[d] /\ Ecosystem[x] = e)
                                => e = Ecosystem[d]
    BY DependenciesAssumption
  <1> QED
    BY <1>1, <1>2 DEF EcosystemOf

\* The process starts with nothing pending.
LEMMA TypeInit == Init => TypeInv
  <1> SUFFICES ASSUME Init PROVE TypeInv
    OBVIOUS
  <1>1. \A f \in Manifests : files[f] \in Texts[f]
    BY DependenciesAssumption DEF Init
  <1>2. edits \in 0..MaxEdits[asked]
    BY DependenciesAssumption, ProjectsAssumption DEF Init
  <1>3. world \in Worlds /\ asked \subseteq Features
    BY ProjectsAssumption DEF Init
  <1> QED
    BY <1>1, <1>2, <1>3 DEF Init, TypeInv, TypeOK, Stages

\* Steps that change no variable but the stage and what is reported.
LEMMA TypeReport ==
  ASSUME TypeInv, UNCHANGED <<inputs, config, snapshots, probed>>,
         pending' \subseteq Packages \cup Ecosystems \cup Projects \cup Tables,
         stage' \in Stages, stage' = stage \/ stage # "tables",
         stage # "failed", {stage, stage'} \cap {"local", "registries"} = {},
         \A r \in sent' \ sent : r[2] \in Subjects,
         \A a \in actions' \ actions : a[2] \in Subjects,
         \A f \in findings' \ findings :
            f[2] \in Subjects \cup Dependencies \cup (Names \X Manifests),
         \A w \in warnings' \ warnings : w[2] \in Subjects
  PROVE  TypeInv'
  BY DEF TypeInv, TypeOK, inputs, command, repository

\* Every step keeps the types.
LEMMA TypeNext == TypeInv /\ [Next]_vars => TypeInv'
  <1> SUFFICES ASSUME TypeInv, [Next]_vars PROVE TypeInv'
    OBVIOUS
  <1> USE DEF inputs, command, repository, report, Go
  <1>1. Fail /\ stage # "failed" => TypeInv'
    BY DEF Fail, TypeInv, TypeOK, Stages
  <1>2. CASE Configure
    BY <1>2 DEF Configure, Enabled, TypeInv, TypeOK, Stages
  <1>3. CASE ConfigureFails \/ ScanLocallyFails \/ StartRegistryFails
    BY <1>1, <1>3 DEF ConfigureFails, ScanLocallyFails, StartRegistryFails
  <1>4. CASE SkipRegistry \/ EndRegistry \/ EndTier0 \/ SkipTier1 \/ EndTier1 \/ Return
    BY <1>4, TypeReport DEF SkipRegistry, EndRegistry, EndTier0, SkipTier1, EndTier1,
       Return, Stages, TypeInv, TypeOK
  <1>5. ASSUME NEW f \in Manifests, NEW text \in Texts[f], EditManifest(f, text)
        PROVE  TypeInv'
    <2>1. \A g \in Manifests : files'[g] \in Texts[g]
      BY <1>5 DEF EditManifest, TypeInv, TypeOK
    <2>2. edits' \in 0..MaxEdits'[asked'] /\ asked' \subseteq Features
      BY <1>5, DependenciesAssumption DEF EditManifest, TypeInv, TypeOK
    <2> QED
      BY <1>5, <2>1, <2>2 DEF EditManifest, TypeInv, TypeOK
  <1>6. \A g \in Manifests : files[g] \in Texts[g]
    BY DEF TypeInv, TypeOK
  <1>7. world.private \subseteq Ecosystems
    BY ProjectsAssumption DEF TypeInv
  <1>8. CASE ReadManifest
    <2>1. PICK f \in Manifests : f = ManifestOrder[reading]
      BY <1>8, OrderAssumption DEF ReadManifest
    <2>2. Eligible(files[f]) \subseteq Dependencies /\ files[f].flawed \subseteq Names
      BY <1>6, TextTypes
    <2>3. /\ declared' = declared \cup Eligible(files[f])
          /\ findings' = findings \cup {<<"Flawed", <<n, f>>>> : n \in files[f].flawed}
      BY <1>8, <2>1 DEF ReadManifest
    <2>4. declared' \subseteq Dependencies
      BY <2>2, <2>3 DEF TypeInv, TypeOK
    <2>5. \A x \in findings' : x[2] \in Subjects \cup Dependencies \cup (Names \X Manifests)
      BY <2>2, <2>3 DEF TypeInv, TypeOK
    <2>6. reading' \in 1..(Len(ManifestOrder) + 1) /\ stage = "local" /\ stage' = "local"
      BY <1>8, OrderAssumption DEF ReadManifest
    <2> QED
      BY <1>8, <2>4, <2>5, <2>6 DEF ReadManifest, TypeInv, TypeOK, Stages
  <1>9. Checkable \subseteq Dependencies /\ Matched \subseteq Dependencies
        /\ Askable \subseteq Packages
    BY DEF TypeInv, TypeOK, Checkable, Matched, Askable, Packages
  <1>10. CASE EndRegistries
    <2>1. reading' = 1 /\ stage = "registries" /\ stage' = "advisories"
      BY <1>10 DEF EndRegistries
    <2>2. pending' \subseteq Ecosystems
      BY <1>9, <1>10 DEF EndRegistries, Ecosystems
    <2>3. \A w \in warnings' : w[2] \in Subjects
      BY <1>10 DEF EndRegistries, Subjects, TypeInv, TypeOK
    <2> QED
      BY <1>10, <2>1, <2>2, <2>3 DEF EndRegistries, TypeInv, TypeOK, Stages
  <1>24. CASE EndManifests \/ StartRegistry
    <2>1. reading' = 1 /\ stage \in {"local", "registry"} /\ stage' \in {"registry", "registries"}
      BY <1>24 DEF EndManifests, StartRegistry, TypeInv, TypeOK
    <2>2. private' \subseteq Ecosystems
      BY <1>7, <1>24 DEF EndManifests, StartRegistry, TypeInv, TypeOK
    <2>3. 1 \in 1..(Len(RegistryOrder) + 1)
      BY OrderAssumption
    <2> QED
      BY <1>24, <2>1, <2>2, <2>3 DEF EndManifests, StartRegistry, TypeInv, TypeOK, Stages
  <1>25. CASE ReadRegistryFile
    <2>1. PICK f \in Manifests : f = RegistryOrder[reading]
      BY <1>25, OrderAssumption DEF ReadRegistryFile
    <2>2. private' \subseteq Ecosystems
      BY <1>6, <1>25, <2>1, TextTypes DEF ReadRegistryFile, TypeInv, TypeOK
    <2>3. reading' \in 1..(Len(RegistryOrder) + 1) /\ stage = "registries" /\ stage' = "registries"
      BY <1>25, OrderAssumption DEF ReadRegistryFile
    <2> QED
      BY <1>25, <2>2, <2>3 DEF ReadRegistryFile, TypeInv, TypeOK, Stages
  <1>11. ASSUME NEW e \in Ecosystems, Advisories(e) PROVE TypeInv'
    <2>1. \A r \in sent' : r[2] \in Subjects
      BY <1>11 DEF Advisories, Subjects, TypeInv, TypeOK
    <2>2. \A w \in warnings' : w[2] \in Subjects
      BY <1>11 DEF Advisories, Subjects, TypeInv, TypeOK
    <2>3. snapshots' \subseteq Ecosystems
      BY <1>11 DEF Advisories, TypeInv, TypeOK
    <2> QED
      BY <1>11, <2>1, <2>2, <2>3 DEF Advisories, TypeInv, TypeOK
  <1>12. CASE MatchAdvisories
    BY <1>9, <1>12, TypeReport DEF MatchAdvisories, Stages
  <1>13. ASSUME NEW k \in Packages, KnownPackage(k) \/ ResolvePackage(k) \/ ResolveFails(k)
         PROVE  TypeInv'
    <2>1. k \in Subjects /\ EcosystemOf(k) \in Subjects
      BY EcosystemOfPackage DEF Packages, Subjects
    <2>2. CASE KnownPackage(k)
      BY <2>1, <2>2, TypeReport DEF KnownPackage, Verdict, TypeInv, TypeOK
    <2>3. CASE ResolvePackage(k)
      BY <2>1, <2>3, TypeReport DEF ResolvePackage, Verdict, TypeInv, TypeOK
    <2>4. CASE ResolveFails(k)
      BY <2>1, <2>4, TypeReport DEF ResolveFails, TypeInv, TypeOK
    <2> QED
      BY <1>13, <2>2, <2>3, <2>4
  <1>14. CASE StartTier0
    BY <1>14, TypeReport DEF StartTier0, Stages
  <1>15. ASSUME NEW p \in Projects, RefuseProject(p)
         PROVE  TypeInv'
    <2>1. p \in Subjects
      BY DEF Subjects
    <2> QED
      BY <1>15, <2>1, TypeReport DEF RefuseProject, TypeInv, TypeOK
  <1>16. ASSUME NEW p \in Projects, EnumerateRoot(p) \/ EnumerateRootFails(p)
         PROVE  TypeInv'
    <2>1. p \in Subjects
      BY DEF Subjects
    <2>2. PICK ts \in SUBSET Tables :
             /\ ProbeTables(p, ts)
             /\ sent' = sent \cup {<<"root", p>>}
             /\ warnings' \subseteq warnings \cup {<<"Root", p>>} \cup NoTables(p, ts)
      BY <1>16, ProjectsAssumption DEF EnumerateRoot, EnumerateRootFails, Listed
    <2>3. \A w \in warnings' : w[2] \in Subjects
      BY <2>1, <2>2 DEF NoTables, TypeInv, TypeOK
    <2>4. \A r \in sent' : r[2] \in Subjects
      BY <2>1, <2>2 DEF TypeInv, TypeOK
    <2>5. \A a \in actions' : a[2] \in Subjects
      BY <1>16, <2>1 DEF EnumerateRoot, EnumerateRootFails, TypeInv, TypeOK
    <2>6. /\ probed' \subseteq Projects \X Tables
          /\ \A x, y \in probed' : x[1] = y[1]
      BY <2>2 DEF ProbeTables
    <2>7. /\ pending' \subseteq pending
          /\ stage = "projects" /\ stage' \in {"projects", "tables"}
          /\ stage' # "tables" => probed' = {}
      BY <1>16, <2>2 DEF ProbeTables, EnumerateRoot, EnumerateRootFails
    <2>8. UNCHANGED <<inputs, config, snapshots, findings>>
      BY <1>16 DEF EnumerateRoot, EnumerateRootFails
    <2> QED
      BY <2>3, <2>4, <2>5, <2>6, <2>7, <2>8 DEF TypeInv, TypeOK, Stages
  <1>17. ASSUME NEW p \in Projects, NEW t \in Tables,
                TableExposed(p, t) \/ TableClosed(p, t) \/ TableFails(p, t)
         PROVE  TypeInv'
    <2>1. p \in Subjects /\ <<p, t>> \in Subjects
      BY DEF Subjects
    <2>2. PICK o : AskTable(p, t, o)
      BY <1>17 DEF TableExposed, TableClosed, TableFails
    <2>3. /\ \A r \in sent' : r[2] \in Subjects
          /\ \A a \in actions' : a[2] \in Subjects
      BY <2>1, <2>2 DEF AskTable, TypeInv, TypeOK
    <2>4. \A w \in warnings' : w[2] \in Subjects
      BY <1>17, <2>1 DEF TableExposed, TableClosed, TableFails, TypeInv, TypeOK
    <2>5. \A f \in findings' : f[2] \in Subjects \cup Dependencies \cup (Names \X Manifests)
      BY <1>17, <2>1 DEF TableExposed, TableClosed, TableFails, TypeInv, TypeOK
    <2>6. /\ probed' \subseteq probed /\ stage = "tables"
          /\ stage' \in {"projects", "tables"} /\ (stage' # "tables" => probed' = {})
      BY <2>2 DEF AskTable
    <2>7. UNCHANGED <<inputs, config, snapshots, pending>>
      BY <2>2 DEF AskTable
    <2> QED
      BY <2>3, <2>4, <2>5, <2>6, <2>7 DEF TypeInv, TypeOK, Stages
  <1>18. Database \in Subjects
    BY DEF Subjects
  <1>19. CASE ConnectTier1 \/ ConnectTier1Fails
    BY <1>18, <1>19, TypeReport DEF ConnectTier1, ConnectTier1Fails, Stages, TypeInv, TypeOK
  <1>20. ASSUME NEW Q, NEW F \in SUBSET Q, Query(Q, F), Q \subseteq Subjects
         PROVE  /\ \A r \in sent' : r[2] \in Subjects
                /\ \A a \in actions' : a[2] \in Subjects
                /\ \A w \in warnings' : w[2] \in Subjects
    BY <1>20 DEF Query, TypeInv, TypeOK
  <1>21. CASE QueryStates
    <2>1. {<<"TablesWithRowSecurity", Database>>} \subseteq Subjects
      BY DEF Subjects
    <2>2. pending' \subseteq Tables
      BY <1>21, ProjectsAssumption DEF QueryStates
    <2> QED
      BY <1>20, <1>21, <2>1, <2>2, TypeReport DEF QueryStates, Stages
  <1>22. ASSUME NEW t \in Tables, QueryTable(t) PROVE TypeInv'
    <2>1. {<<"Policies", t>>, <<"Grants", t>>} \subseteq Subjects
      BY DEF Subjects
    <2>2. pending' \subseteq pending
      BY <1>22 DEF QueryTable
    <2> QED
      BY <1>20, <1>22, <2>1, <2>2, TypeReport DEF QueryTable, TypeInv, TypeOK
  <1>23. CASE UNCHANGED vars
    BY <1>23 DEF vars, TypeInv, TypeOK
  <1> QED
    BY <1>2, <1>3, <1>4, <1>5, <1>8, <1>10, <1>11, <1>12, <1>13, <1>14, <1>15, <1>16,
       <1>17, <1>19, <1>21, <1>22, <1>23, <1>24, <1>25 DEF Next, Registry, Tier0, Tier1

\* The types, and work pending only while it is asked about.
THEOREM ScanTypeSafe == Spec => []TypeOK
  <1>1. TypeInv => TypeOK
    BY DEF TypeInv
  <1> QED
    BY <1>1, TypeInit, TypeNext, PTL DEF Spec

-----------------------------------------------------------------------------
(***************************************************************************)
(* Nothing passes unseen.                                                  *)
(***************************************************************************)
Early == {"start", "local", "failed"}
UntilAdvisories == Early \cup {"registry", "registries"}
UntilMatch == UntilAdvisories \cup {"advisories"}
UntilTier0 == UntilMatch \cup {"existence", "tier0"}

\* What a manifest declares all along is eligible, or has a flaw, or is in a
\* manifest that is still to be parsed.
ManifestsSeen ==
    /\ stated \subseteq Parsed(files)
    /\ \A p \in stated :
         \/ p[1] \in declared \/ <<"Flawed", <<Name[p[1]], p[2]>>>> \in findings
         \/ stage = "start"
         \/ stage = "local" /\ \E i \in DOMAIN ManifestOrder :
                                  i >= reading /\ ManifestOrder[i] = p[2]

\* What is left out is warned of, and each ecosystem is still pending, has its
\* advisories, or a warning.
AdvisoriesSeen ==
    /\ Suppressed # {} => \E w \in warnings : w[2] = "any"
    /\ \A d \in Checkable :
         \/ stage = "advisories" /\ Ecosystem[d] \in pending
         \/ Ecosystem[d] \in snapshots
         \/ <<"OsvSnapshotUnavailable", Ecosystem[d]>> \in warnings

\* What matched is found, and each package is still pending, or there, or
\* found missing, or warned of.
PackagesSeen ==
    /\ \A d \in Matched : <<"KnownMalicious", d>> \in findings
    /\ \A k \in Askable : k \in world.missing =>
         \/ stage = "existence" /\ k \in pending
         \/ <<"NonexistentPackage", k>> \in findings
         \/ <<"Registry", EcosystemOf(k)>> \in warnings

\* Each project is pending, or each of its tables is.
ProbesSeen ==
    \A p \in Projects :
        \/ stage \in {"projects", "tables"} /\ p \in pending
        \/ \A t \in Candidates[p] \cup Listed(p) : <<p, t>> \in world.readable =>
             \/ stage = "tables" /\ <<p, t>> \in probed
             \/ <<"RlsExposed", <<p, t>>>> \in findings
             \/ \E w \in warnings : w[2] = p

SeenInv ==
    /\ stage \notin {"start", "failed"} => config = asked
    /\ stage # "failed" => ManifestsSeen
    /\ "registry" \in asked /\ stage \notin UntilAdvisories => AdvisoriesSeen
    /\ "registry" \in asked /\ stage \notin UntilMatch => PackagesSeen
    /\ "tier0" \in asked /\ stage \notin UntilTier0 => ProbesSeen

\* Nothing is due when the process starts.
LEMMA SeenInit == Init => SeenInv
  BY DEF Init, SeenInv, ManifestsSeen, Early, UntilAdvisories, UntilMatch, UntilTier0

\* Findings and warnings that are there stay, and leave nothing due that was
\* not due before, if no work is taken away and the stage is not one later.
LEMMA StillSeen ==
  ASSUME UNCHANGED <<inputs, snapshots>>,
         findings \subseteq findings', warnings \subseteq warnings'
  PROVE  /\ ManifestsSeen /\ stage \notin {"start", "local"} => ManifestsSeen'
         /\ AdvisoriesSeen /\ (stage = "advisories" => stage' = stage /\ pending \subseteq pending')
              => AdvisoriesSeen'
         /\ PackagesSeen /\ (stage = "existence" => stage' = stage /\ pending \subseteq pending')
              => PackagesSeen'
         /\ ProbesSeen /\ (stage \notin {"projects", "tables"}) => ProbesSeen'
  <1>1. UNCHANGED <<Matched, Askable, Checkable, Suppressed, Parsed(files), declared,
                    stated, world, snapshots>>
    BY ScopeStays DEF inputs, command, repository, Checkable, Suppressed, Parsed
  <1>2. \A p : Listed(p)' = Listed(p)
    BY <1>1 DEF Listed
  <1>3. ManifestsSeen /\ stage \notin {"start", "local"} => ManifestsSeen'
    BY <1>1 DEF ManifestsSeen
  <1>4. AdvisoriesSeen /\ (stage = "advisories" => stage' = stage /\ pending \subseteq pending')
          => AdvisoriesSeen'
    BY <1>1 DEF AdvisoriesSeen
  <1>5. PackagesSeen /\ (stage = "existence" => stage' = stage /\ pending \subseteq pending')
          => PackagesSeen'
    BY <1>1 DEF PackagesSeen
  <1>6. ProbesSeen /\ (stage \notin {"projects", "tables"}) => ProbesSeen'
    BY <1>1, <1>2 DEF ProbesSeen
  <1> QED
    BY <1>3, <1>4, <1>5, <1>6

\* Every step leaves seen what is due.
LEMMA SeenNext ==
  ASSUME TypeInv, SeenInv, [Next]_vars
  PROVE  SeenInv'
  <1> USE DEF Early, UntilAdvisories, UntilMatch, UntilTier0
  <1> DEFINE Quiet == /\ UNCHANGED <<inputs, config, snapshots>>
                      /\ findings \subseteq findings' /\ warnings \subseteq warnings'
  <1>1. ASSUME Fail PROVE SeenInv'
    BY <1>1 DEF Fail, Go, SeenInv
  <1>2. CASE ConfigureFails \/ ScanLocallyFails \/ StartRegistryFails
    BY <1>1, <1>2 DEF ConfigureFails, ScanLocallyFails, StartRegistryFails
  <1>3. CASE Configure
    <2>1. /\ stage = "start" /\ stage' = "local" /\ reading = 1
          /\ UNCHANGED <<files, stated, declared, findings, reading, asked>> /\ config' = asked
      BY <1>3 DEF Configure, Go, Enabled, TypeInv, TypeOK, inputs, command, repository, report
    <2>2. Parsed(files)' = Parsed(files)
      BY <2>1 DEF Parsed
    <2>3. \A p \in Parsed(files) : \E i \in DOMAIN ManifestOrder :
             i >= 1 /\ ManifestOrder[i] = p[2]
      BY OrderAssumption DEF Parsed
    <2>4. ManifestsSeen'
      BY <2>1, <2>2, <2>3 DEF SeenInv, ManifestsSeen
    <2> QED
      BY <2>1, <2>4 DEF SeenInv
  <1>4. ASSUME NEW f \in Manifests, NEW text \in Texts[f], EditManifest(f, text)
        PROVE  SeenInv'
    <2>1. /\ stage \in {"local", "registry", "registries"} /\ stated' \subseteq stated
          /\ stated' \subseteq Parsed(files)'
          /\ UNCHANGED <<declared, findings, stage, reading, config, asked>>
      BY <1>4 DEF EditManifest, command, report, Parsed
    <2>2. ManifestsSeen'
      BY <2>1 DEF SeenInv, ManifestsSeen
    <2> QED
      BY <2>1, <2>2 DEF SeenInv
  <1>5. CASE ReadManifest
    <2> DEFINE f == ManifestOrder[reading]
    <2>1. /\ UNCHANGED <<files, stated, stage, config, asked>> /\ stage = "local"
          /\ reading \in DOMAIN ManifestOrder /\ reading' = reading + 1
          /\ declared' = declared \cup Eligible(files[f])
          /\ findings' = findings \cup {<<"Flawed", <<n, f>>>> : n \in files[f].flawed}
      BY <1>5 DEF ReadManifest, repository, command
    <2>2. Parsed(files)' = Parsed(files)
      BY <2>1 DEF Parsed
    <2>3. ASSUME NEW p \in stated, p[2] = f
          PROVE  p[1] \in declared' \/ <<"Flawed", <<Name[p[1]], p[2]>>>> \in findings'
      <3>1. p[1] \in files[f].entries
        BY <2>1, <2>3 DEF SeenInv, ManifestsSeen, Parsed
      <3>2. CASE Name[p[1]] \in files[f].flawed
        BY <2>1, <2>3, <3>2
      <3>3. CASE Name[p[1]] \notin files[f].flawed
        BY <2>1, <3>1, <3>3 DEF Eligible
      <3> QED
        BY <3>2, <3>3
    <2>4. ASSUME NEW p \in stated, p[2] # f, NEW i \in DOMAIN ManifestOrder,
                 i >= reading, ManifestOrder[i] = p[2]
          PROVE  i >= reading'
      BY <2>1, <2>4, OrderAssumption
    <2>5. ManifestsSeen'
      <3> HIDE DEF f
      <3>1. \A p \in stated :
              \/ p[1] \in declared' \/ <<"Flawed", <<Name[p[1]], p[2]>>>> \in findings'
              \/ \E i \in DOMAIN ManifestOrder : i >= reading' /\ ManifestOrder[i] = p[2]
        BY <2>1, <2>3, <2>4 DEF SeenInv, ManifestsSeen
      <3> QED
        BY <2>1, <2>2, <3>1 DEF SeenInv, ManifestsSeen
    <2> QED
      BY <2>1, <2>5 DEF SeenInv
  <1>19. CASE EndManifests
    <2>1. /\ UNCHANGED <<files, stated, declared, findings, config, asked>>
          /\ stage = "local" /\ stage' = "registry" /\ reading \notin DOMAIN ManifestOrder
          /\ reading \in 1..(Len(ManifestOrder) + 1)
      BY <1>19 DEF EndManifests, Go, repository, command, report, TypeInv, TypeOK
    <2>2. Parsed(files)' = Parsed(files)
      BY <2>1 DEF Parsed
    <2>3. \A i \in DOMAIN ManifestOrder : ~(i >= reading)
      BY <2>1, OrderAssumption
    <2>4. ManifestsSeen'
      BY <2>1, <2>2, <2>3 DEF SeenInv, ManifestsSeen
    <2> QED
      BY <2>1, <2>4 DEF SeenInv
  <1>20. CASE StartRegistry \/ ReadRegistryFile
    <2>1. /\ UNCHANGED <<files, stated, declared, findings, config, asked>>
          /\ stage \in {"registry", "registries"} /\ stage' = "registries"
      BY <1>20 DEF StartRegistry, ReadRegistryFile, Go, repository, command, report
    <2>2. Parsed(files)' = Parsed(files)
      BY <2>1 DEF Parsed
    <2>3. ManifestsSeen'
      BY <2>1, <2>2 DEF SeenInv, ManifestsSeen
    <2> QED
      BY <2>1, <2>3 DEF SeenInv
  <1>6. CASE EndRegistries
    <2>1. UNCHANGED <<files, stated, declared, asked, config, world, snapshots, findings>>
          /\ stage = "registries" /\ stage' = "advisories"
      BY <1>6 DEF EndRegistries, Go, repository, command
    <2>2. /\ Parsed(files)' = Parsed(files) /\ Checkable' = Checkable
          /\ Suppressed' = Suppressed
      BY <2>1 DEF Parsed, Checkable, Suppressed
    <2>3. ManifestsSeen'
      BY <2>1, <2>2 DEF SeenInv, ManifestsSeen
    <2>4. Suppressed # {} => \E w \in warnings' : w[2] = "any"
      <3>1. Suppressed # {} => \/ <<"SensitiveCoordinateSuppressed", "any">> \in warnings'
                               \/ <<"NonRegistryCoordinateSuppressed", "any">> \in warnings'
        BY <1>6 DEF EndRegistries, Suppressed
      <3> QED
        BY <3>1
    <2>5. AdvisoriesSeen'
      BY <1>6, <2>2, <2>4 DEF EndRegistries, Go, AdvisoriesSeen
    <2> QED
      BY <2>1, <2>3, <2>5 DEF SeenInv
  <1>7. CASE SkipRegistry
    <2>1. Quiet /\ stage = "registry" /\ stage' = "tier0" /\ "registry" \notin asked
      BY <1>7 DEF SkipRegistry, Go, SeenInv, report
    <2> QED
      BY <2>1, StillSeen DEF SeenInv, inputs, command
  <1>8. ASSUME NEW e \in Ecosystems, Advisories(e) PROVE SeenInv'
    <2>1. /\ UNCHANGED <<inputs, config, stage, findings>> /\ stage = "advisories"
          /\ snapshots \subseteq snapshots' /\ warnings \subseteq warnings'
          /\ pending' = pending \ {e}
          /\ e \in snapshots' \/ <<"OsvSnapshotUnavailable", e>> \in warnings'
      BY <1>8 DEF Advisories
    <2>2. UNCHANGED <<files, stated, declared, asked, Parsed(files), Checkable, Suppressed>>
      BY <2>1 DEF inputs, repository, command, Parsed, Checkable, Suppressed
    <2>3. ManifestsSeen'
      BY <2>1, <2>2 DEF SeenInv, ManifestsSeen
    <2>4. "registry" \in asked => AdvisoriesSeen'
      BY <2>1, <2>2 DEF SeenInv, AdvisoriesSeen
    <2> QED
      BY <2>1, <2>2, <2>3, <2>4 DEF SeenInv
  <1>9. CASE MatchAdvisories
    <2>1. Quiet /\ stage = "advisories" /\ stage' = "existence" /\ pending = {}
          /\ pending' = Askable
          /\ findings' = findings \cup {<<"KnownMalicious", d>> : d \in Matched}
      BY <1>9 DEF MatchAdvisories, Go
    <2>2. UNCHANGED <<asked, Matched, Askable, Checkable, Suppressed>>
      BY <2>1, ScopeStays DEF inputs, command, Checkable, Suppressed
    <2>3. "registry" \in asked => AdvisoriesSeen'
      BY <2>1, <2>2 DEF SeenInv, AdvisoriesSeen
    <2>4. PackagesSeen'
      BY <2>1, <2>2 DEF PackagesSeen
    <2> QED
      BY <2>1, <2>2, <2>3, <2>4, StillSeen DEF SeenInv
  <1>10. ASSUME NEW k \in Packages, KnownPackage(k) \/ ResolvePackage(k) \/ ResolveFails(k)
         PROVE  SeenInv'
    <2>1. /\ Quiet /\ stage = "existence" /\ stage' = stage /\ pending' = pending \ {k}
          /\ \/ k \in world.missing => <<"NonexistentPackage", k>> \in findings'
             \/ <<"Registry", EcosystemOf(k)>> \in warnings'
      BY <1>10 DEF KnownPackage, ResolvePackage, ResolveFails, Verdict
    <2>2. UNCHANGED <<asked, Matched, Askable, world>>
      BY <2>1, ScopeStays DEF inputs, command
    <2>3. "registry" \in asked => PackagesSeen'
      BY <2>1, <2>2 DEF SeenInv, PackagesSeen
    <2> QED
      BY <2>1, <2>2, <2>3, StillSeen DEF SeenInv
  <1>11. CASE EndRegistry
    <2>1. Quiet /\ stage = "existence" /\ stage' = "tier0" /\ pending = {}
      BY <1>11 DEF EndRegistry, Go, report
    <2>2. UNCHANGED <<asked, Matched, Askable, world>>
      BY <2>1, ScopeStays DEF inputs, command
    <2>3. "registry" \in asked => PackagesSeen'
      BY <2>1, <2>2 DEF SeenInv, PackagesSeen
    <2> QED
      BY <2>1, <2>2, <2>3, StillSeen DEF SeenInv
  <1>12. CASE StartTier0
    <2>1. /\ Quiet /\ stage = "tier0" /\ asked' = asked
          /\ IF "tier0" \in asked THEN stage' = "projects" /\ pending' = Projects
                                  ELSE stage' = "tier1"
      BY <1>12 DEF StartTier0, Go, SeenInv, report, inputs, command
    <2>2. "tier0" \in asked => ProbesSeen'
      BY <2>1 DEF ProbesSeen
    <2> QED
      BY <2>1, <2>2, StillSeen DEF SeenInv
  <1>13. ASSUME NEW p \in Projects,
                RefuseProject(p) \/ EnumerateRoot(p) \/ EnumerateRootFails(p)
         PROVE  SeenInv'
    <2>1. /\ Quiet /\ stage = "projects" /\ stage' \in {"projects", "tables"}
          /\ pending' = pending \ {p} /\ probed = {}
      BY <1>13 DEF RefuseProject, EnumerateRoot, EnumerateRootFails, ProbeTables, Go,
         TypeInv, TypeOK
    <2>2. /\ UNCHANGED <<asked, world>> /\ \A q : Listed(q)' = Listed(q)
      BY <2>1 DEF inputs, command, Listed
    <2>3. \/ \E w \in warnings' : w[2] = p
          \/ \A t \in Candidates[p] \cup Listed(p) : stage' = "tables" /\ <<p, t>> \in probed'
      <3>1. CASE RefuseProject(p) \/ EnumerateRootFails(p)
        <4>1. <<"ProjectRefused", p>> \in warnings' \/ <<"Root", p>> \in warnings'
          BY <3>1 DEF RefuseProject, EnumerateRootFails
        <4> QED
          BY <4>1
      <3>2. CASE EnumerateRoot(p)
        BY <3>2 DEF EnumerateRoot, ProbeTables, Go
      <3> QED
        BY <1>13, <3>1, <3>2
    <2>4. "tier0" \in asked => ProbesSeen'
      <3> SUFFICES ASSUME "tier0" \in asked, NEW q \in Projects
                   PROVE  \/ stage' \in {"projects", "tables"} /\ q \in pending'
                          \/ \A t \in Candidates[q] \cup Listed(q) : <<q, t>> \in world.readable =>
                               \/ stage' = "tables" /\ <<q, t>> \in probed'
                               \/ <<"RlsExposed", <<q, t>>>> \in findings'
                               \/ \E w \in warnings' : w[2] = q
        BY <2>2 DEF ProbesSeen
      <3>1. CASE q = p
        BY <2>3, <3>1
      <3>2. CASE q # p
        BY <2>1, <3>2 DEF SeenInv, ProbesSeen
      <3> QED
        BY <3>1, <3>2
    <2> QED
      BY <2>1, <2>2, <2>4, StillSeen DEF SeenInv
  <1>14. ASSUME NEW p \in Projects, NEW t \in Tables,
                TableExposed(p, t) \/ TableClosed(p, t) \/ TableFails(p, t)
         PROVE  SeenInv'
    <2>1. /\ Quiet /\ stage = "tables" /\ stage' \in {"projects", "tables"}
          /\ pending' = pending /\ probed' = probed \ {<<p, t>>}
          /\ stage' # "tables" => probed' = {}
      BY <1>14 DEF TableExposed, TableClosed, TableFails, AskTable, Go
    <2>2. /\ UNCHANGED <<asked, world>> /\ \A q : Listed(q)' = Listed(q)
      BY <2>1 DEF inputs, command, Listed
    <2>3. \/ \E w \in warnings' : w[2] = p
          \/ <<p, t>> \in world.readable => <<"RlsExposed", <<p, t>>>> \in findings'
      <3>1. \/ <<"Probe", p>> \in warnings'
            \/ <<p, t>> \in world.readable => <<"RlsExposed", <<p, t>>>> \in findings'
        BY <1>14 DEF TableExposed, TableClosed, TableFails
      <3> QED
        BY <3>1
    <2>4. "tier0" \in asked => ProbesSeen'
      <3> SUFFICES ASSUME "tier0" \in asked, NEW q \in Projects, q \notin pending',
                          NEW u \in Candidates[q] \cup Listed(q), <<q, u>> \in world.readable
                   PROVE  \/ stage' = "tables" /\ <<q, u>> \in probed'
                          \/ <<"RlsExposed", <<q, u>>>> \in findings'
                          \/ \E w \in warnings' : w[2] = q
        BY <2>1, <2>2 DEF ProbesSeen
      <3>1. \/ <<q, u>> \in probed
            \/ <<"RlsExposed", <<q, u>>>> \in findings'
            \/ \E w \in warnings' : w[2] = q
        BY <2>1 DEF SeenInv, ProbesSeen
      <3>2. CASE <<q, u>> = <<p, t>>
        BY <2>3, <3>2
      <3>3. CASE <<q, u>> # <<p, t>>
        BY <2>1, <3>1, <3>3
      <3> QED
        BY <3>2, <3>3
    <2> QED
      BY <2>1, <2>2, <2>4, StillSeen DEF SeenInv
  <1>15. CASE EndTier0
    <2>1. Quiet /\ stage = "projects" /\ stage' = "tier1" /\ pending = {}
      BY <1>15 DEF EndTier0, Go, report
    <2>2. /\ UNCHANGED <<asked, world>> /\ \A q : Listed(q)' = Listed(q)
      BY <2>1 DEF inputs, command, Listed
    <2>3. "tier0" \in asked => ProbesSeen'
      BY <2>1, <2>2 DEF SeenInv, ProbesSeen
    <2> QED
      BY <2>1, <2>2, <2>3, StillSeen DEF SeenInv
  <1>16. CASE Return \/ (Tier1 /\ stage' # "failed")
    <2>1. /\ Quiet /\ UNCHANGED asked
          /\ stage \in {"tier1", "states", "catalog", "report"}
          /\ stage' \in {"states", "catalog", "report", "returned"}
      BY <1>16 DEF Return, Tier1, SkipTier1, ConnectTier1, ConnectTier1Fails, QueryStates,
         Query, QueryTable, EndTier1, Go, report, inputs, command
    <2> QED
      BY <2>1, StillSeen DEF SeenInv
  <1>17. CASE stage' = "failed"
    BY <1>17 DEF SeenInv
  <1>18. CASE UNCHANGED vars
    <2>1. UNCHANGED <<inputs, config, snapshots, stage, pending, probed, findings, warnings>>
      BY <1>18 DEF vars, inputs, command, repository
    <2>2. UNCHANGED <<asked, world, files, stated, declared, reading>>
          /\ \A q : Listed(q)' = Listed(q)
      BY <2>1 DEF inputs, command, repository, Listed
    <2>4. ManifestsSeen => ManifestsSeen'
      BY <2>1, <2>2 DEF ManifestsSeen, Parsed
    <2>3. ProbesSeen => ProbesSeen'
      BY <2>1, <2>2 DEF ProbesSeen
    <2> QED
      BY <2>1, <2>2, <2>3, <2>4, StillSeen DEF SeenInv
  <1> QED
    BY <1>2, <1>3, <1>4, <1>5, <1>6, <1>7, <1>8, <1>9, <1>10, <1>11, <1>12, <1>13,
       <1>14, <1>15, <1>16, <1>17, <1>18, <1>19, <1>20 DEF Next, Registry, Tier0

\* What is due when the scan returns is all there is to find.
LEMMA SeenIsAll == TypeInv /\ SeenInv => NothingPassesUnseen
  <1> SUFFICES ASSUME TypeInv, SeenInv, stage = "returned"
               PROVE  NothingPassesUnseen
    BY DEF NothingPassesUnseen
  <1> USE DEF Early, UntilAdvisories, UntilMatch, UntilTier0
  <1>1. \A p \in stated :
             p[1] \in declared \/ <<"Flawed", <<Name[p[1]], p[2]>>>> \in findings
    BY DEF SeenInv, ManifestsSeen
  <1>2. ASSUME "registry" \in asked, NEW d \in world.malicious \cap declared
        PROVE  \/ <<"KnownMalicious", d>> \in findings
               \/ <<"OsvSnapshotUnavailable", Ecosystem[d]>> \in warnings
               \/ d \in Suppressed /\ \E w \in warnings : w[2] = "any"
    BY <1>2 DEF SeenInv, AdvisoriesSeen, PackagesSeen, Matched, Checkable
  <1>3. ASSUME "registry" \in asked, NEW d \in Checkable \ Scoped,
               Package[d] \in world.missing, Ecosystem[d] \notin private
        PROVE  \/ <<"NonexistentPackage", Package[d]>> \in findings
               \/ <<"Registry", Ecosystem[d]>> \in warnings
               \/ Malicious(Package[d])
    <2>1. d \in Dependencies
      BY DEF Checkable, TypeInv, TypeOK
    <2>2. CASE Package[d] \in Askable
      BY <1>3, <2>1, <2>2, EcosystemOfPackage DEF SeenInv, PackagesSeen
    <2>3. CASE Package[d] \notin Askable
      <3>1. PICK e \in Matched : Package[e] = Package[d]
        BY <1>3, <2>3 DEF Askable
      <3>2. e \in Dependencies /\ <<"KnownMalicious", e>> \in findings
        BY <1>3 DEF SeenInv, PackagesSeen, Matched, Checkable, TypeInv, TypeOK
      <3> QED
        BY <3>1, <3>2 DEF Malicious
    <2> QED
      BY <2>2, <2>3
  <1>4. ASSUME "tier0" \in asked, NEW p \in Projects, NEW t \in Candidates[p] \cup Listed(p),
               <<p, t>> \in world.readable
        PROVE  \/ <<"RlsExposed", <<p, t>>>> \in findings
               \/ \E w \in warnings : w[2] = p
    BY <1>4 DEF SeenInv, ProbesSeen
  <1> QED
    BY <1>1, <1>2, <1>3, <1>4 DEF NothingPassesUnseen

\* A scan that returns has found, or warned of, everything it was asked to look
\* for, for any repository, servers and order of answers.
THEOREM NothingIsPassedUnseen == Spec => []NothingPassesUnseen
  <1>1. Init => TypeInv /\ SeenInv
    BY TypeInit, SeenInit
  <1>2. TypeInv /\ SeenInv /\ [Next]_vars => (TypeInv /\ SeenInv)'
    BY TypeNext, SeenNext
  <1>3. TypeInv /\ SeenInv => NothingPassesUnseen
    BY SeenIsAll
  <1> QED
    BY <1>1, <1>2, <1>3, PTL DEF Spec
=============================================================================
