------------------------- MODULE MCFindingPipeline -------------------------
(***************************************************************************)
(* A public key seen with two projects and without one, a committed        *)
(* elevated key, a generic token, and what the probes, the catalog and the *)
(* manifests can say.                                                      *)
(***************************************************************************)
EXTENDS FindingPipeline, TLC

CONSTANTS
    Anon, Service, Token,               \* keys
    P, Q, None,                         \* projects
    Bundle, Server, Past,               \* places
    Readable, NoPolicy, Typosquat       \* facts

MCKeys == {Anon, Service, Token}
MCClass == Anon :> "public" @@ Service :> "elevated" @@ Token :> "entropy"
MCProjects == {P, Q}
MCPlaces == {Bundle, Server, Past}
MCClientReachable == {Bundle}
MCCommitted == {Past}

Seen(k, p, l) == [key |-> k, project |-> p, place |-> l]

MCOccurrences ==
    {Seen(Anon, P, Server), Seen(Anon, P, Past), Seen(Anon, None, Bundle),
     Seen(Anon, Q, Server), Seen(Service, P, Past), Seen(Token, None, Server)}

\* Enough to see an unclosed baseline.
MCFewOccurrences ==
    {Seen(Anon, P, Bundle), Seen(Service, P, Past), Seen(Token, None, Server)}

MCFacts == {Readable, NoPolicy, Typosquat}

FactOf(s, p, r, v) == [source |-> s, project |-> p, reads |-> r, severity |-> v]

MCAbout ==
    Readable :> FactOf("tier0", P, TRUE, Critical)
    @@ NoPolicy :> FactOf("tier1", P, FALSE, Medium)
    @@ Typosquat :> FactOf("dependency", None, FALSE, High)

MCGates == {Info, High}
=============================================================================
