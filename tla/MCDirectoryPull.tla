--------------------------- MODULE MCDirectoryPull ---------------------------
(* Three elements in windows of two: a full window and a shorter one.  Two   *)
(* callers, and a third call after the two, with the daemon ending once.     *)
(* One of the callers is a worker, whose events run in the directory.        *)
EXTENDS DirectoryPull

MCCallers == {"worker", "main"}
MCWorkers == {"worker"}
MCElements == {"type", "backtrace", "comment"}
==============================================================================
