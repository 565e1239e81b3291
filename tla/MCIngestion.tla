---------------------------- MODULE MCIngestion ----------------------------
(* Instances of Ingestion: one paper whose second version has fewer chunks. *)
EXTENDS Ingestion

CONSTANTS w1, w2, p1

MCWorkers == {w1, w2}
MCPapers == {p1}
MCChunkCount == <<2, 1>>
\* Day one announces the paper in two pages, the second of them empty; day two
\* announces its revision.
MCPages == << << {<<p1, 1>>}, {} >>, << {<<p1, 2>>} >> >>

=============================================================================
