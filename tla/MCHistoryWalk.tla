--------------------------- MODULE MCHistoryWalk ---------------------------
(***************************************************************************)
(* Small repositories for HistoryWalk: histories of up to four commits     *)
(* with branches, merges, several refs, skewed clocks, unscanned entries,  *)
(* missing objects, damaged trees and unreadable refs.                     *)
(***************************************************************************)
EXTENDS HistoryWalk

MCCommits == 1..4
MCPaths == {"src", "ignored"}
MCScannedPaths == {"src"}
MCNoBlob == 0
Old == 11
New == 12
Large == 13
Module == 14
MCBlobs == {Old, New, Large, Module}
MCKind == [b \in MCBlobs |-> CASE b = Large  -> "LargeFileSkipped"
                               [] b = Module -> "SubmoduleSkipped"
                               [] OTHER      -> "text"]
AllObjects == MCCommits \cup {Old, New, Large}

\* Parents come before their children in the commit numbers.
Histories ==
    {<<a, b, c, d>> :
        a \in {<<>>}, b \in {<<>>, <<1>>},
        c \in {<<>>, <<1>>, <<2>>, <<2, 1>>},
        d \in {<<1>>, <<3>>, <<3, 2>>, <<2, 3>>}}

\* A tree per commit; the ignored path is in all of them.
TreesOf(srcEntries) ==
    [c \in MCCommits |-> [p \in MCPaths |-> IF p = "src" THEN srcEntries[c] ELSE Old]]

Repository(parents, time, tips, entries, present) ==
    [parents |-> parents, time |-> time, tips |-> tips,
     tree |-> TreesOf(entries), present |-> present,
     refs |-> TRUE, trees |-> MCCommits]

\* Orders of visit: every history with every combination of two times.
SkewedClocks ==
    {Repository(h, t, tips, <<Old, New, Old, Large>>, AllObjects) :
        h \in Histories, t \in [MCCommits -> {0, 1}], tips \in {{}, {4}, {2, 4}}}

\* Contents: every tree of two histories, a line and a merge of two lines.
VaryingTrees ==
    {Repository(h, <<0, 0, 0, 0>>, {4}, e, AllObjects) :
        h \in {<< <<>>, <<1>>, <<2>>, <<3>> >>, << <<>>, <<1>>, <<1>>, <<3, 2>> >>},
        e \in [MCCommits -> {MCNoBlob, Old, New, Module}]}

\* One object missing from the store.
Incomplete ==
    {Repository(h, <<0, 1, 0, 1>>, {3, 4}, <<Old, New, Large, New>>,
                AllObjects \ {x}) :
        h \in Histories, x \in AllObjects}

\* The refs cannot be read, or the trees of one commit cannot; the commit may
\* be one that no ref reaches.
Unreadable ==
    LET whole == {Repository(h, <<0, 1, 0, 1>>, tips, <<Old, New, Large, New>>,
                             AllObjects) :
                     h \in Histories, tips \in {{}, {3, 4}}}
    IN  {[r EXCEPT !.refs = FALSE] : r \in whole} \cup
        {[r EXCEPT !.trees = @ \ {c}] : r \in whole, c \in MCCommits}

MCRepositories == SkewedClocks \cup VaryingTrees \cup Incomplete \cup Unreadable

\* A clone cut at one commit: its parent is named and missing.
MCShallow ==
    {Repository(h, <<0, 1, 0, 1>>, {4}, <<Old, New, Old, New>>, AllObjects \ {1}) :
        h \in Histories}

MCComplete ==
    {Repository(h, <<0, 1, 0, 1>>, {4}, <<Old, New, Old, New>>, AllObjects) :
        h \in Histories}

MCNoCap == -1
MCCeilings == {0, 1, 2, 4, MCNoCap}
MCModulus == 64
=============================================================================
