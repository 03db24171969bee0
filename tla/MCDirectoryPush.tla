--------------------------- MODULE MCDirectoryPush ---------------------------
(* Two pushes of up to three files in windows of two, a full window and a    *)
(* shorter one; one ignored element, any of the others unreadable.           *)
EXTENDS DirectoryPush

CONSTANTS p1, p2

MCPushes == {p1, p2}
MCElements == {"type", "reported_to", "backtrace"}
MCIgnored == {"type"}
MCVolatile == "reported_to"
==============================================================================
