------------------------------ MODULE Publish ------------------------------
(***************************************************************************)
(* The publication of releases: publish-crates.sh, publish-packages.mjs    *)
(* and the job for the Homebrew formula, which publish-all.yml chains, for *)
(* several versions.  A run of a version goes through its items one by one *)
(* and stops at the first failure; somebody may then start its failed job  *)
(* again, or prepare the next version.                                     *)
(*                                                                         *)
(* What a registry has published it never takes back or replaces.  It may  *)
(* refuse anything, and its answer may be lost.                            *)
(***************************************************************************)
EXTENDS Naturals, Sequences, FiniteSets

CONSTANTS
    PublishOrder,   \* publish_order: the crates
    CrateDeps,      \* CrateDeps[c]: the crates of the workspace that c needs
    PlatformOrder,  \* platforms: the packages with the binaries
    MainPackage,
    MaxAttempts,    \* VIBESCAN_CRATES_IO_MAX_ATTEMPTS
    MaxVersion

Elements(s) == {s[i] : i \in DOMAIN s}

Crates == Elements(PublishOrder)
Platforms == Elements(PlatformOrder)
Packages == Platforms \cup {MainPackage}
Formula == "formula"
Versions == 1..MaxVersion

ASSUME PublishAssumption ==
    /\ PublishOrder \in Seq(Crates) \ {<<>>}
    /\ PlatformOrder \in Seq(Platforms)
    /\ CrateDeps \in [Crates -> SUBSET Crates]
    /\ Crates \cap Packages = {}
    /\ MainPackage \notin Platforms
    /\ Formula \notin Crates \cup Packages
    /\ MaxAttempts \in Nat \ {0}
    /\ MaxVersion \in Nat \ {0}

\* publish_order against the dependencies that the manifests declare.
ASSUME OrderAssumption ==
    \A i \in DOMAIN PublishOrder :
        CrateDeps[PublishOrder[i]] \subseteq {PublishOrder[j] : j \in 1..(i - 1)}

VARIABLES
    job,            \* job[v]: the job of publish-all.yml that runs, or ran
    running,        \* running[v]
    index,          \* index[v]: the item of the job that is next
    attempt,        \* attempt[v]: which attempt for that item
    published,      \* published[v]: what the registries have of v
    formula         \* the version in the tap, zero at first

vars == <<job, running, index, attempt, published, formula>>

Jobs == {"none", "crates", "npm", "homebrew", "done"}

-----------------------------------------------------------------------------
\* The items of a job, in the order of its loop.
Items(j) ==
    CASE j = "crates"   -> PublishOrder
      [] j = "npm"      -> Append(PlatformOrder, MainPackage)
      [] j = "homebrew" -> <<Formula>>
      [] OTHER          -> <<>>

\* needs: of publish-all.yml.
NextJob(j) ==
    CASE j = "crates"   -> "npm"
      [] j = "npm"      -> "homebrew"
      [] j = "homebrew" -> "done"

Item(v) == Items(job[v])[index[v]]

Init ==
    /\ job = [v \in Versions |-> "none"]
    /\ running = [v \in Versions |-> FALSE]
    /\ index = [v \in Versions |-> 1]
    /\ attempt = [v \in Versions |-> 1]
    /\ published = [v \in Versions |-> {}]
    /\ formula = 0

-----------------------------------------------------------------------------
\* What a registry accepts: a new version, and of a crate only if each crate
\* it needs can be had, in this version or a later compatible one.  A commit
\* of the formula that is already in the tap fails.
Acceptable(v, x) ==
    /\ x \notin published[v]
    /\ x = Formula => formula # v
    /\ x \in Crates => \A d \in CrateDeps[x] :
                          \E w \in Versions : w >= v /\ d \in published[w]

\* The item of v is out; a formula replaces that of any other version.
Out(v) ==
    /\ Acceptable(v, Item(v))
    /\ IF Item(v) = Formula
         THEN formula' = v /\ UNCHANGED published
         ELSE /\ published' = [published EXCEPT ![v] = @ \cup {Item(v)}]
              /\ UNCHANGED formula

\* The loop goes on, or the job ends and the one that needs it begins.
Advance(v) ==
    /\ attempt' = [attempt EXCEPT ![v] = 1]
    /\ IF index[v] < Len(Items(job[v]))
         THEN /\ index' = [index EXCEPT ![v] = @ + 1]
              /\ UNCHANGED <<job, running>>
         ELSE /\ job' = [job EXCEPT ![v] = NextJob(@)]
              /\ index' = [index EXCEPT ![v] = 1]
              /\ running' = [running EXCEPT ![v] = job[v] # "homebrew"]

Stop(v) ==
    /\ running' = [running EXCEPT ![v] = FALSE]
    /\ UNCHANGED <<job, index, attempt>>

\* A version is tagged once all earlier ones have stopped.
Release(v) ==
    /\ job[v] = "none"
    /\ \A w \in Versions : w < v => job[w] # "none" /\ ~running[w]
    /\ job' = [job EXCEPT ![v] = "crates"]
    /\ running' = [running EXCEPT ![v] = TRUE]
    /\ UNCHANGED <<index, attempt, published, formula>>

\* A failed job starts again with its first item; another version may run.
Rerun(v) ==
    /\ job[v] \in {"crates", "npm", "homebrew"}
    /\ ~running[v]
    /\ running' = [running EXCEPT ![v] = TRUE]
    /\ index' = [index EXCEPT ![v] = 1]
    /\ attempt' = [attempt EXCEPT ![v] = 1]
    /\ UNCHANGED <<job, published, formula>>

Succeed(v) ==
    /\ running[v]
    /\ Out(v)
    /\ Advance(v)

\* The item is out, but the answer that says so is lost.
LoseAnswer(v) ==
    /\ running[v]
    /\ Out(v)
    /\ Stop(v)

\* Any failure but a rate limit of crates.io ends the job.
Refuse(v) ==
    /\ running[v]
    /\ Stop(v)
    /\ UNCHANGED <<published, formula>>

\* Mutant: the attempts are counted, but never spent.
WaitForever(v) ==
    /\ running[v]
    /\ job[v] = "crates"
    /\ attempt' = [attempt EXCEPT ![v] = (@ % MaxAttempts) + 1]
    /\ UNCHANGED <<job, running, index, published, formula>>

\* Mutant: a crate whose attempts are spent is passed over.
PassOver(v) ==
    /\ running[v]
    /\ job[v] = "crates"
    /\ IF attempt[v] >= MaxAttempts
         THEN Advance(v)
         ELSE /\ attempt' = [attempt EXCEPT ![v] = @ + 1]
              /\ UNCHANGED <<job, running, index>>
    /\ UNCHANGED <<published, formula>>

\* Mutant: the attempts are spent one too late.
OneMoreAttempt(v) ==
    /\ running[v]
    /\ job[v] = "crates"
    /\ IF attempt[v] > MaxAttempts
         THEN Stop(v)
         ELSE /\ attempt' = [attempt EXCEPT ![v] = @ + 1]
              /\ UNCHANGED <<job, running, index>>
    /\ UNCHANGED <<published, formula>>

\* 429: wait and try again, until the attempts are spent.
RateLimit(v) ==
    /\ running[v]
    /\ job[v] = "crates"
    /\ IF attempt[v] >= MaxAttempts
         THEN Stop(v)
         ELSE /\ attempt' = [attempt EXCEPT ![v] = @ + 1]
              /\ UNCHANGED <<job, running, index>>
    /\ UNCHANGED <<published, formula>>

Step(v) == Succeed(v) \/ LoseAnswer(v) \/ Refuse(v) \/ RateLimit(v)

Next == \E v \in Versions : Release(v) \/ Rerun(v) \/ Step(v)

\* A run that was started is executed; nobody has to start one.
Spec == Init /\ [][Next]_vars /\ \A v \in Versions : WF_vars(Step(v))

-----------------------------------------------------------------------------
\* The variables keep their types, a job that has not begun is not running, and
\* one that has begun is at one of its items.
TypeOK ==
    /\ job \in [Versions -> Jobs]
    /\ running \in [Versions -> BOOLEAN]
    /\ index \in [Versions -> Nat \ {0}]
    /\ attempt \in [Versions -> 1..MaxAttempts]
    /\ published \in [Versions -> SUBSET (Crates \cup Packages)]
    /\ formula \in 0..MaxVersion
    /\ \A v \in Versions :
          /\ running[v] => job[v] \in {"crates", "npm", "homebrew"}
          /\ job[v] \in {"crates", "npm", "homebrew"} => index[v] \in DOMAIN Items(job[v])
          /\ job[v] \in {"none", "done"} => index[v] = 1

\* Whatever fails, is lost or is run again, a user never gets something whose
\* parts are not out: a crate follows its dependencies of the same version, a
\* package follows all crates, the main package all platforms, and the formula
\* names a version that npm has (RELEASING.md:153 and 169-173).
DependenciesFirst ==
    /\ \A v \in Versions :
          /\ \A c \in published[v] \cap Crates : CrateDeps[c] \subseteq published[v]
          /\ published[v] \cap Packages # {} => Crates \subseteq published[v]
          /\ MainPackage \in published[v] => Platforms \subseteq published[v]
    /\ formula # 0 => MainPackage \in published[formula]

\* A run comes to an end, published or failed, even if crates.io answers with
\* nothing but rate limits: the wait is bounded (RELEASING.md:154).
RunEnds == \A v \in Versions : running[v] ~> ~running[v]
=============================================================================
