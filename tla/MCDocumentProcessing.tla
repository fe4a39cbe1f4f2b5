------------------------ MODULE MCDocumentProcessing ------------------------
(* Instances of DocumentProcessing for TLC. *)
EXTENDS DocumentProcessing

CONSTANTS t1, t2, w1, w2

TwoTasks == {t1, t2}
TwoWorkers == {w1, w2}
=============================================================================
