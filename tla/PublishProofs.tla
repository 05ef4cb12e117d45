--------------------------- MODULE PublishProofs ---------------------------
(***************************************************************************)
(* What the registries have at any moment, for any crates, dependencies,   *)
(* platforms and number of versions.                                       *)
(***************************************************************************)
EXTENDS Publish, TLAPS

-----------------------------------------------------------------------------
(***************************************************************************)
(* The items of the jobs.                                                  *)
(***************************************************************************)
Active == {"crates", "npm", "homebrew"}

\* Each job is a list of what it publishes, and none is empty.
LEMMA ItemsAreLists ==
  ASSUME NEW j \in Active
  PROVE  /\ Items(j) \in Seq(Crates \cup Packages \cup {Formula})
         /\ Len(Items(j)) \in Nat \ {0}
         /\ DOMAIN Items(j) = 1..Len(Items(j))
         /\ \A i \in DOMAIN Items(j) : Items(j)[i] \in Crates \cup Packages \cup {Formula}
  <1>1. CASE j = "crates"
    <2>1. Items(j) = PublishOrder
      BY <1>1 DEF Items
    <2> QED
      BY <2>1, PublishAssumption
  <1>2. CASE j = "npm"
    <2>1. Items(j) = Append(PlatformOrder, MainPackage)
      BY <1>2 DEF Items
    <2>2. PlatformOrder \in Seq(Packages) /\ MainPackage \in Packages
      BY PublishAssumption DEF Packages
    <2> QED
      BY <2>1, <2>2
  <1>3. CASE j = "homebrew"
    <2>1. Items(j) = <<Formula>>
      BY <1>3 DEF Items
    <2> QED
      BY <2>1
  <1> QED
    BY <1>1, <1>2, <1>3 DEF Active

\* The jobs publish the crates, the packages and the formula.
LEMMA ItemsOf ==
  /\ \A c \in Crates : \E i \in DOMAIN Items("crates") : Items("crates")[i] = c
  /\ \A i \in DOMAIN Items("crates") : Items("crates")[i] \in Crates
  /\ \A p \in Packages : \E i \in DOMAIN Items("npm") : Items("npm")[i] = p
  /\ \A i \in DOMAIN Items("npm") : Items("npm")[i] \in Packages
  /\ DOMAIN Items("homebrew") = {1} /\ Items("homebrew")[1] = Formula
  <1>1. Items("crates") = PublishOrder /\ Items("homebrew") = <<Formula>>
    BY DEF Items
  <1>2. Items("npm") = Append(PlatformOrder, MainPackage)
    BY DEF Items
  <1>3. PlatformOrder \in Seq(Platforms)
    BY PublishAssumption
  <1>4. \A p \in Packages : \E i \in DOMAIN Items("npm") : Items("npm")[i] = p
    BY <1>2, <1>3 DEF Packages, Platforms, Elements
  <1>5. \A i \in DOMAIN Items("npm") : Items("npm")[i] \in Packages
    BY <1>2, <1>3 DEF Packages
  <1> QED
    BY <1>1, <1>4, <1>5 DEF Crates, Elements

\* The main package is the last of its job.
LEMMA MainIsLast ==
  ASSUME NEW i \in DOMAIN Items("npm"), Items("npm")[i] = MainPackage
  PROVE  i = Len(Items("npm"))
  <1>1. Items("npm") = Append(PlatformOrder, MainPackage)
    BY DEF Items
  <1>2. PlatformOrder \in Seq(Platforms) /\ MainPackage \notin Platforms
    BY PublishAssumption
  <1> QED
    BY <1>1, <1>2

-----------------------------------------------------------------------------
(***************************************************************************)
(* Types.                                                                  *)
(***************************************************************************)

\* The registries have nothing and no job runs before the first release.
LEMMA TypeInit == Init => TypeOK
  BY PublishAssumption DEF Init, TypeOK, Jobs, Versions

\* The loop goes to the next item, or the next job begins with its first.
LEMMA AdvanceKeeps ==
  ASSUME TypeOK, NEW v \in Versions, running[v], Advance(v)
  PROVE  /\ job' \in [Versions -> Jobs]
         /\ running' \in [Versions -> BOOLEAN]
         /\ index' \in [Versions -> Nat \ {0}]
         /\ attempt' \in [Versions -> 1..MaxAttempts]
         /\ \A w \in Versions :
              /\ running'[w] => job'[w] \in Active
              /\ job'[w] \in Active => index'[w] \in DOMAIN Items(job'[w])
              /\ job'[w] \in {"none", "done"} => index'[w] = 1
  <1>1. job[v] \in Active /\ index[v] \in DOMAIN Items(job[v])
    BY DEF TypeOK, Active
  <1>2. DOMAIN Items(job[v]) = 1..Len(Items(job[v])) /\ Len(Items(job[v])) \in Nat
    BY <1>1, ItemsAreLists
  <1>3. \A j \in Active : 1 \in DOMAIN Items(j)
    BY ItemsAreLists
  <1>4. attempt' \in [Versions -> 1..MaxAttempts]
    BY PublishAssumption DEF TypeOK, Advance
  <1>5. CASE index[v] < Len(Items(job[v]))
    <2>1. index' = [index EXCEPT ![v] = index[v] + 1] /\ UNCHANGED <<job, running>>
      BY <1>5 DEF Advance
    <2>2. index[v] + 1 \in DOMAIN Items(job[v]) /\ index[v] + 1 \in Nat \ {0}
      BY <1>1, <1>2, <1>5
    <2>3. index' \in [Versions -> Nat \ {0}]
      BY <2>1, <2>2 DEF TypeOK
    <2>4. ASSUME NEW w \in Versions
          PROVE  /\ job'[w] \in Active => index'[w] \in DOMAIN Items(job'[w])
                 /\ job'[w] \in {"none", "done"} => index'[w] = 1
      <3>1. CASE w = v
        BY <1>1, <2>1, <2>2, <3>1 DEF TypeOK, Active
      <3>2. CASE w # v
        BY <2>1, <3>2 DEF TypeOK, Active
      <3> QED
        BY <3>1, <3>2
    <2> QED
      BY <1>4, <2>1, <2>3, <2>4 DEF TypeOK, Active
  <1>6. CASE ~(index[v] < Len(Items(job[v])))
    <2>1. NextJob(job[v]) \in {"npm", "homebrew", "done"}
          /\ (job[v] # "homebrew" => NextJob(job[v]) # "done")
      BY <1>1 DEF NextJob, Active
    <2>2. /\ job' = [job EXCEPT ![v] = NextJob(job[v])]
          /\ index' = [index EXCEPT ![v] = 1]
          /\ running' = [running EXCEPT ![v] = job[v] # "homebrew"]
      BY <1>6 DEF Advance
    <2>3. /\ job' \in [Versions -> Jobs]
          /\ index' \in [Versions -> Nat \ {0}]
          /\ running' \in [Versions -> BOOLEAN]
      BY <2>1, <2>2 DEF TypeOK, Jobs
    <2>4. ASSUME NEW w \in Versions
          PROVE  /\ running'[w] => job'[w] \in Active
                 /\ job'[w] \in Active => index'[w] \in DOMAIN Items(job'[w])
                 /\ job'[w] \in {"none", "done"} => index'[w] = 1
      <3>1. CASE w = v
        <4>1. job'[w] = NextJob(job[v]) /\ index'[w] = 1
          BY <2>2, <3>1 DEF TypeOK
        <4>2. running'[w] => job[v] # "homebrew"
          BY <2>2, <3>1 DEF TypeOK
        <4> QED
          BY <1>3, <2>1, <4>1, <4>2 DEF Active
      <3>2. CASE w # v
        BY <2>2, <3>2 DEF TypeOK, Active
      <3> QED
        BY <3>1, <3>2
    <2> QED
      BY <1>4, <2>3, <2>4
  <1> QED
    BY <1>5, <1>6

\* Every step keeps the types.
LEMMA TypeNext == TypeOK /\ [Next]_vars => TypeOK'
  <1> SUFFICES ASSUME TypeOK, [Next]_vars PROVE TypeOK'
    OBVIOUS
  <1>1. ASSUME NEW v \in Versions, Release(v) PROVE TypeOK'
    <2>1. 1 \in DOMAIN Items("crates")
      BY ItemsAreLists DEF Active
    <2>2. job' \in [Versions -> Jobs] /\ running' \in [Versions -> BOOLEAN]
      BY <1>1 DEF TypeOK, Release, Jobs
    <2>3. index[v] \in DOMAIN Items("crates")
      BY <1>1, <2>1 DEF Release, TypeOK
    <2> QED
      BY <1>1, <2>2, <2>3 DEF TypeOK, Release
  <1>2. ASSUME NEW v \in Versions, Rerun(v) PROVE TypeOK'
    <2>1. \A j \in Active : 1 \in DOMAIN Items(j)
      BY ItemsAreLists
    <2> QED
      BY <1>2, <2>1, PublishAssumption DEF TypeOK, Rerun, Active
  <1>3. ASSUME NEW v \in Versions, running[v], Out(v)
        PROVE  /\ published' \in [Versions -> SUBSET (Crates \cup Packages)]
               /\ formula' \in 0..MaxVersion
    <2>1. job[v] \in Active /\ index[v] \in DOMAIN Items(job[v])
      BY <1>3 DEF TypeOK, Active
    <2>2. Item(v) \in Crates \cup Packages \cup {Formula}
      BY <2>1, ItemsAreLists DEF Item
    <2>3. CASE Item(v) = Formula
      BY <1>3, <2>3, PublishAssumption DEF TypeOK, Out, Versions
    <2>4. CASE Item(v) # Formula
      BY <1>3, <2>2, <2>4 DEF TypeOK, Out
    <2> QED
      BY <2>3, <2>4
  <1>4. ASSUME NEW v \in Versions, Succeed(v) PROVE TypeOK'
    BY <1>3, <1>4, AdvanceKeeps DEF TypeOK, Succeed, Active
  <1>5. ASSUME NEW v \in Versions, LoseAnswer(v) PROVE TypeOK'
    BY <1>3, <1>5 DEF TypeOK, LoseAnswer, Stop
  <1>6. ASSUME NEW v \in Versions, Refuse(v) PROVE TypeOK'
    BY <1>6 DEF TypeOK, Refuse, Stop
  <1>7. ASSUME NEW v \in Versions, RateLimit(v) PROVE TypeOK'
    <2>1. CASE attempt[v] >= MaxAttempts
      BY <1>7, <2>1 DEF TypeOK, RateLimit, Stop
    <2>2. CASE ~(attempt[v] >= MaxAttempts)
      <3>1. attempt[v] + 1 \in 1..MaxAttempts
        BY <2>2, PublishAssumption DEF TypeOK
      <3>2. attempt' = [attempt EXCEPT ![v] = attempt[v] + 1]
            /\ UNCHANGED <<job, running, index, published, formula>>
        BY <1>7, <2>2 DEF RateLimit
      <3>3. attempt' \in [Versions -> 1..MaxAttempts]
        BY <3>1, <3>2 DEF TypeOK
      <3> QED
        BY <3>2, <3>3 DEF TypeOK
    <2> QED
      BY <2>1, <2>2
  <1>8. CASE UNCHANGED vars
    BY <1>8 DEF TypeOK, vars
  <1> QED
    BY <1>1, <1>2, <1>4, <1>5, <1>6, <1>7, <1>8 DEF Next, Step

\* A job that runs is one of the three, at one of its items, whatever is
\* refused, lost or started again.
THEOREM PublishTypeSafe == Spec => []TypeOK
  BY TypeInit, TypeNext, PTL DEF Spec

-----------------------------------------------------------------------------
(***************************************************************************)
(* The order of publication.                                               *)
(***************************************************************************)

\* What the loop of a job has passed is out, and so are all items of the jobs
\* that it needed.
Passed ==
    \A v \in Versions :
        /\ job[v] \in {"crates", "npm"} =>
             \A i \in DOMAIN Items(job[v]) : i < index[v] => Items(job[v])[i] \in published[v]
        /\ job[v] \in {"npm", "homebrew", "done"} => Crates \subseteq published[v]
        /\ job[v] \in {"homebrew", "done"} => Packages \subseteq published[v]

OrderInv == TypeOK /\ Passed /\ DependenciesFirst

\* Nothing is out before the first release.
LEMMA OrderInit == Init => OrderInv
  <1> SUFFICES ASSUME Init PROVE OrderInv
    OBVIOUS
  <1>1. Passed
    <2>1. \A v \in Versions : job[v] = "none"
      BY DEF Init
    <2> QED
      BY <2>1 DEF Passed
  <1>2. DependenciesFirst
    BY DEF Init, DependenciesFirst
  <1> QED
    BY <1>1, <1>2, TypeInit DEF OrderInv

\* What is published is published for good.
LEMMA OutGrows ==
  ASSUME TypeOK, NEW v \in Versions, Out(v)
  PROVE  /\ \A w \in Versions : published[w] \subseteq published'[w]
         /\ \A w \in Versions \ {v} : published'[w] = published[w]
         /\ Item(v) # Formula => published'[v] = published[v] \cup {Item(v)}
         /\ Item(v) = Formula => UNCHANGED published /\ formula' = v
         /\ Item(v) # Formula => UNCHANGED formula
  <1>1. CASE Item(v) = Formula
    <2>1. UNCHANGED published /\ formula' = v
      BY <1>1 DEF Out
    <2> QED
      BY <1>1, <2>1 DEF TypeOK
  <1>2. CASE Item(v) # Formula
    <2>1. published' = [published EXCEPT ![v] = published[v] \cup {Item(v)}]
          /\ UNCHANGED formula
      BY <1>2 DEF Out
    <2> QED
      BY <1>2, <2>1 DEF TypeOK
  <1> QED
    BY <1>1, <1>2

\* An item that goes out finds its parts there.
LEMMA OutInOrder ==
  ASSUME OrderInv, NEW v \in Versions, running[v], Out(v)
  PROVE  DependenciesFirst'
  <1>1. job[v] \in Active /\ index[v] \in DOMAIN Items(job[v])
    BY DEF OrderInv, TypeOK, Active
  <1> USE DEF OrderInv
  <1>2. CASE job[v] = "crates"
    <2>1. Item(v) = PublishOrder[index[v]] /\ index[v] \in DOMAIN PublishOrder
          /\ Items(job[v]) = PublishOrder
      BY <1>1, <1>2 DEF Item, Items
    <2>2. Item(v) \in Crates /\ Item(v) \notin Packages /\ Item(v) # Formula
      BY <2>1, PublishAssumption DEF Crates, Elements
    <2>3. CrateDeps[Item(v)] \subseteq published[v]
      <3>1. CrateDeps[Item(v)] \subseteq {PublishOrder[j] : j \in 1..(index[v] - 1)}
        BY <2>1, OrderAssumption
      <3>2. \A j \in 1..(index[v] - 1) : j \in DOMAIN PublishOrder /\ j < index[v]
        BY <2>1, PublishAssumption
      <3>3. \A j \in DOMAIN PublishOrder : j < index[v] => PublishOrder[j] \in published[v]
        BY <1>2, <2>1 DEF Passed
      <3> QED
        BY <3>1, <3>2, <3>3
    <2>4. published'[v] = published[v] \cup {Item(v)} /\ formula' = formula
          /\ \A w \in Versions \ {v} : published'[w] = published[w]
      BY <2>2, OutGrows
    <2>5. ASSUME NEW w \in Versions
          PROVE  /\ \A c \in published'[w] \cap Crates : CrateDeps[c] \subseteq published'[w]
                 /\ published'[w] \cap Packages # {} => Crates \subseteq published'[w]
                 /\ MainPackage \in published'[w] => Platforms \subseteq published'[w]
      <3>1. CASE w = v
        <4>1. MainPackage \in Packages
          BY DEF Packages
        <4> QED
          BY <2>2, <2>3, <2>4, <3>1, <4>1 DEF DependenciesFirst
      <3>2. CASE w # v
        BY <2>4, <3>2 DEF DependenciesFirst
      <3> QED
        BY <3>1, <3>2
    <2>6. formula # 0 => MainPackage \in published'[formula]
      <3>1. formula # 0 => formula \in Versions
        BY DEF TypeOK, Versions
      <3>2. formula # 0 => published[formula] \subseteq published'[formula]
        BY <2>4, <3>1
      <3> QED
        BY <3>2 DEF DependenciesFirst
    <2> QED
      BY <2>4, <2>5, <2>6 DEF DependenciesFirst
  <1>3. CASE job[v] = "npm"
    <2>1. Item(v) \in Packages /\ Item(v) = Items("npm")[index[v]]
      BY <1>1, <1>3, ItemsOf DEF Item
    <2>2. Item(v) \notin Crates /\ Item(v) # Formula
      BY <2>1, PublishAssumption
    <2>3. Crates \subseteq published[v]
      BY <1>3 DEF Passed
    <2>4. Item(v) = MainPackage => Platforms \subseteq published[v]
      <3> SUFFICES ASSUME Item(v) = MainPackage, NEW p \in Platforms
                   PROVE  p \in published[v]
        OBVIOUS
      <3>1. index[v] = Len(Items("npm"))
        BY <1>1, <1>3, <2>1, MainIsLast
      <3>2. PICK i \in DOMAIN Items("npm") : Items("npm")[i] = p
        BY ItemsOf DEF Packages
      <3>3. i # index[v] /\ DOMAIN Items("npm") = 1..Len(Items("npm"))
            /\ Len(Items("npm")) \in Nat
        BY <2>1, <3>2, PublishAssumption, ItemsAreLists DEF Active
      <3>4. i < index[v]
        BY <3>1, <3>3
      <3> QED
        BY <1>3, <3>2, <3>4 DEF Passed
    <2>5. published'[v] = published[v] \cup {Item(v)} /\ formula' = formula
          /\ \A w \in Versions \ {v} : published'[w] = published[w]
      BY <2>2, OutGrows
    <2>6. formula \in 0..MaxVersion
      BY DEF TypeOK
    <2> QED
      BY <2>2, <2>3, <2>4, <2>5, <2>6, PublishAssumption DEF DependenciesFirst, Versions
  <1>4. CASE job[v] = "homebrew"
    <2>1. Item(v) = Formula
      BY <1>1, <1>4, ItemsOf DEF Item
    <2>2. published' = published /\ formula' = v
      BY <2>1, OutGrows
    <2>3. MainPackage \in published[v]
      BY <1>4 DEF Passed, Packages
    <2> QED
      BY <2>2, <2>3 DEF DependenciesFirst
  <1> QED
    BY <1>1, <1>2, <1>3, <1>4 DEF Active

\* What was passed stays out, as long as no version advances.
LEMMA PassedStays ==
  ASSUME TypeOK, Passed, UNCHANGED <<job, index>>,
         \A w \in Versions : published[w] \subseteq published'[w]
  PROVE  Passed'
  <1> SUFFICES ASSUME NEW v \in Versions
               PROVE  /\ job[v] \in {"crates", "npm"} =>
                           \A i \in DOMAIN Items(job[v]) :
                               i < index[v] => Items(job[v])[i] \in published'[v]
                      /\ job[v] \in {"npm", "homebrew", "done"} =>
                           Crates \subseteq published'[v]
                      /\ job[v] \in {"homebrew", "done"} =>
                           Packages \subseteq published'[v]
    BY DEF Passed
  <1>1. published[v] \subseteq published'[v]
    OBVIOUS
  <1> QED
    BY <1>1 DEF Passed

\* A version advances when its item is out.
LEMMA SucceedPasses ==
  ASSUME OrderInv, NEW v \in Versions, Succeed(v)
  PROVE  Passed'
  <1> USE DEF OrderInv
  <1>1. job[v] \in Active /\ index[v] \in DOMAIN Items(job[v]) /\ index[v] \in Nat \ {0}
    BY DEF TypeOK, Succeed, Active
  <1>2. Out(v) /\ Advance(v) /\ running[v]
    BY DEF Succeed
  <1>3. \A w \in Versions : published[w] \subseteq published'[w]
    BY <1>2, OutGrows
  <1>4. job[v] \in {"crates", "npm"} => Items(job[v])[index[v]] \in published'[v]
    <2> SUFFICES ASSUME job[v] \in {"crates", "npm"} PROVE Item(v) \in published'[v]
      BY DEF Item
    <2>1. Item(v) # Formula
      BY <1>1, ItemsOf, PublishAssumption DEF Item
    <2> QED
      BY <1>2, <2>1, OutGrows
  <1>5. DOMAIN Items(job[v]) = 1..Len(Items(job[v])) /\ Len(Items(job[v])) \in Nat
    BY <1>1, ItemsAreLists
  <1>6. CASE index[v] < Len(Items(job[v]))
    <2>1. index' = [index EXCEPT ![v] = index[v] + 1] /\ job' = job
      BY <1>2, <1>6 DEF Advance
    <2>2. ASSUME NEW w \in Versions
          PROVE  /\ job'[w] \in {"crates", "npm"} =>
                      \A i \in DOMAIN Items(job'[w]) :
                          i < index'[w] => Items(job'[w])[i] \in published'[w]
                 /\ job'[w] \in {"npm", "homebrew", "done"} =>
                      Crates \subseteq published'[w]
                 /\ job'[w] \in {"homebrew", "done"} =>
                      Packages \subseteq published'[w]
      <3>1. published[w] \subseteq published'[w] /\ job'[w] = job[w]
        BY <1>3, <2>1
      <3>2. CASE w = v
        <4>1. index'[w] = index[v] + 1
          BY <2>1, <3>2 DEF TypeOK
        <4>2. \A i \in DOMAIN Items(job[v]) :
                 i < index'[w] => i < index[v] \/ i = index[v]
          BY <1>1, <1>5, <4>1
        <4> QED
          BY <1>4, <3>1, <3>2, <4>2 DEF Passed
      <3>3. CASE w # v
        BY <2>1, <3>1, <3>3 DEF Passed, TypeOK
      <3> QED
        BY <3>2, <3>3
    <2> QED
      BY <2>2 DEF Passed
  <1>7. CASE ~(index[v] < Len(Items(job[v])))
    <2>1. index' = [index EXCEPT ![v] = 1] /\ job' = [job EXCEPT ![v] = NextJob(job[v])]
      BY <1>2, <1>7 DEF Advance
    <2>2. \A i \in DOMAIN Items(job[v]) : i < index[v] \/ i = index[v]
      BY <1>1, <1>5, <1>7
    <2>3. job[v] \in {"crates", "npm"} =>
            \A i \in DOMAIN Items(job[v]) : Items(job[v])[i] \in published'[v]
      BY <1>3, <1>4, <2>2 DEF Passed
    <2>4. ASSUME NEW w \in Versions
          PROVE  /\ job'[w] \in {"crates", "npm"} =>
                      \A i \in DOMAIN Items(job'[w]) :
                          i < index'[w] => Items(job'[w])[i] \in published'[w]
                 /\ job'[w] \in {"npm", "homebrew", "done"} =>
                      Crates \subseteq published'[w]
                 /\ job'[w] \in {"homebrew", "done"} =>
                      Packages \subseteq published'[w]
      <3>1. published[w] \subseteq published'[w]
        BY <1>3
      <3>2. CASE w = v
        <4>1. index'[w] = 1 /\ job'[w] = NextJob(job[v])
          BY <2>1, <3>2 DEF TypeOK
        <4>2. \A i \in DOMAIN Items("npm") : ~(i < 1)
          BY ItemsAreLists DEF Active
        <4>3. CASE job[v] = "crates"
          <5>1. Crates \subseteq published'[v]
            BY <2>3, <4>3, ItemsOf
          <5>2. job'[w] = "npm"
            BY <4>1, <4>3 DEF NextJob
          <5> QED
            BY <3>2, <4>1, <4>2, <5>1, <5>2
        <4>4. CASE job[v] = "npm"
          <5>1. Packages \subseteq published'[v]
            BY <2>3, <4>4, ItemsOf
          <5>2. job'[w] = "homebrew"
            BY <4>1, <4>4 DEF NextJob
          <5> QED
            BY <3>1, <3>2, <4>4, <5>1, <5>2 DEF Passed
        <4>5. CASE job[v] = "homebrew"
          <5>1. job'[w] = "done"
            BY <4>1, <4>5 DEF NextJob
          <5> QED
            BY <3>1, <3>2, <4>5, <5>1 DEF Passed
        <4> QED
          BY <1>1, <4>3, <4>4, <4>5 DEF Active
      <3>3. CASE w # v
        BY <2>1, <3>1, <3>3 DEF Passed, TypeOK
      <3> QED
        BY <3>2, <3>3
    <2> QED
      BY <2>4 DEF Passed
  <1> QED
    BY <1>6, <1>7

\* A job that starts, for the first time or again, has passed nothing.
LEMMA StartPasses ==
  ASSUME OrderInv, NEW v \in Versions, Release(v) \/ Rerun(v)
  PROVE  Passed'
  <1> SUFFICES ASSUME NEW w \in Versions
               PROVE  /\ job'[w] \in {"crates", "npm"} =>
                           \A i \in DOMAIN Items(job'[w]) :
                               i < index'[w] => Items(job'[w])[i] \in published'[w]
                      /\ job'[w] \in {"npm", "homebrew", "done"} =>
                           Crates \subseteq published'[w]
                      /\ job'[w] \in {"homebrew", "done"} =>
                           Packages \subseteq published'[w]
    BY DEF Passed
  <1> USE DEF OrderInv
  <1>1. published' = published
    BY DEF Release, Rerun
  <1>2. CASE w = v
    <2>1. index'[w] = 1
      BY <1>2 DEF Release, Rerun, TypeOK
    <2>2. job'[w] = "crates" \/ job'[w] = job[w]
      BY <1>2 DEF Release, Rerun, TypeOK
    <2>3. \A j \in Active : \A i \in DOMAIN Items(j) : ~(i < 1)
      BY ItemsAreLists
    <2> QED
      BY <1>1, <2>1, <2>2, <2>3 DEF Passed, Active
  <1>3. CASE w # v
    <2>1. job'[w] = job[w] /\ index'[w] = index[w]
      BY <1>3 DEF Release, Rerun, TypeOK
    <2> QED
      BY <1>1, <2>1 DEF Passed
  <1> QED
    BY <1>2, <1>3

\* Every step keeps the order.
LEMMA OrderNext == OrderInv /\ [Next]_vars => OrderInv'
  <1> SUFFICES ASSUME OrderInv, [Next]_vars PROVE Passed' /\ DependenciesFirst'
    BY TypeNext DEF OrderInv
  <1> USE DEF OrderInv
  <1>1. ASSUME NEW v \in Versions, Release(v) \/ Rerun(v)
        PROVE  Passed' /\ DependenciesFirst'
    <2>1. UNCHANGED <<published, formula>>
      BY <1>1 DEF Release, Rerun
    <2> QED
      BY <1>1, <2>1, StartPasses DEF DependenciesFirst
  <1>2. ASSUME NEW v \in Versions, Succeed(v) PROVE Passed' /\ DependenciesFirst'
    BY <1>2, SucceedPasses, OutInOrder DEF Succeed
  <1>3. ASSUME NEW v \in Versions, LoseAnswer(v) PROVE Passed' /\ DependenciesFirst'
    BY <1>3, OutGrows, PassedStays, OutInOrder DEF LoseAnswer, Stop
  <1>4. ASSUME NEW v \in Versions, Refuse(v) PROVE Passed' /\ DependenciesFirst'
    BY <1>4, PassedStays DEF Refuse, Stop, DependenciesFirst
  <1>5. ASSUME NEW v \in Versions, RateLimit(v) PROVE Passed' /\ DependenciesFirst'
    BY <1>5, PassedStays DEF RateLimit, Stop, DependenciesFirst
  <1>6. CASE UNCHANGED vars
    BY <1>6, PassedStays DEF vars, DependenciesFirst
  <1> QED
    BY <1>1, <1>2, <1>3, <1>4, <1>5, <1>6 DEF Next, Step

\* Whatever fails, is lost or is started again, in whatever order versions are
\* run: nothing is out before its parts.
THEOREM NothingBeforeItsParts == Spec => []DependenciesFirst
  <1>1. OrderInv => DependenciesFirst
    BY DEF OrderInv
  <1> QED
    BY <1>1, OrderInit, OrderNext, PTL DEF Spec
=============================================================================
