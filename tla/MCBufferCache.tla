--------------------------- MODULE MCBufferCache ---------------------------
EXTENDS BufferCache

\* Three readers, as the kernel has them today, and one process that also writes
MCLoads == {[readers |-> {1, 2, 3}, writers |-> {}], [readers |-> {1}, writers |-> {1}]}
=============================================================================
