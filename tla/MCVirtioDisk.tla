---------------------------- MODULE MCVirtioDisk ----------------------------
EXTENDS VirtioDisk

\* Two processes that read and write, and three that read and compete for the
\* descriptors of two operations
MCLoads == {[callers |-> {1, 2, Boot}, writes |-> {0, 1}, values |-> {0, 1}],
            [callers |-> {1, 2, 3, Boot}, writes |-> {0}, values |-> {0}]}
=============================================================================
