----------------------------- MODULE MCConsole -----------------------------
EXTENDS Console

CONSTANTS p1, p2       \* the readers

\* Readers of get_char_sync, or one process that polls before it reads
CarefulModes == {[p \in {p1, p2} |-> "sync"],
                 [p \in {p1, p2} |-> IF p = p1 THEN "poll" ELSE "none"]}
=============================================================================
