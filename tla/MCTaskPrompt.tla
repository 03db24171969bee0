----------------------------- MODULE MCTaskPrompt -----------------------------
(* Two threads, of one task or of two; the second prompt of a thread takes a *)
(* path again that was used before.                                          *)
EXTENDS TaskPrompt

CONSTANTS t1, t2, k1, k2

MCThreads == {t1, t2}
MCTasks == {k1, k2}
==============================================================================
