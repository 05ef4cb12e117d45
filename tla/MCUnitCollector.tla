-------------------------- MODULE MCUnitCollector --------------------------
(***************************************************************************)
(* Three files in two directories: one that both passes admit, one that    *)
(* is ignored and forced, one that the rules exclude from the tree alone.  *)
(***************************************************************************)
EXTENDS UnitCollector

CONSTANTS key, key2, image, bundle

MCContents == {key, key2, image, bundle}
MCKind == [c \in MCContents |-> CASE c = image  -> "binary"
                                  [] c = bundle -> "large"
                                  [] OTHER      -> "text"]

\* "dist/app.js", ".env", "notes.txt" of .git/info/exclude
MCDirectory == [p \in {"app", "env", "notes"} |->
                  IF p = "app" THEN "dist" ELSE "root"]
MCPlain == {"app"}
MCForced == {"app", "env"}
MCHistorical == {"app", "env", "notes"}

Files(a, e, n) == [p \in {"app", "env", "notes"} |->
    CASE p = "app" -> a [] p = "env" -> e [] p = "notes" -> n]
MCTrees == {Files(key, key, NoContent), Files(NoContent, bundle, key),
            Files(image, NoContent, NoContent)}
MCHistories ==
    LET at(n, p, c) == [id |-> n, path |-> p, content |-> c]
    IN  {{}, {at(2, "app", key), at(1, "app", key)},
         {at(2, "notes", key), at(3, "env", image)}}
=============================================================================
