-------------------------- MODULE MCDocumentPipeline -------------------------
(***************************************************************************)
(* Small instances of DocumentPipeline for TLC: a csv with more chunks     *)
(* than a deletion finds, one that fits, a pdf and a csv without text, by  *)
(* each of the three routes, and two deletions or resets at work.          *)
(***************************************************************************)
EXTENDS DocumentPipeline

CONSTANTS c1, c2

OneCaller == {c1}
TwoCallers == {c1, c2}
OneJob == {"j1"}

File(kind, route, chunks, sound) ==
    [kind |-> kind, extension |-> TRUE, sound |-> sound, chunks |-> chunks, route |-> route]
Uploads == {File("csv", "documents_connector", 2, TRUE), File("json", "connectors", 1, TRUE),
            File("pdf", "documents", 1, TRUE), File("csv", "documents", 0, TRUE)}
Sound == {File("csv", "documents", 1, TRUE), File("pdf", "documents", 1, TRUE)}
=============================================================================
