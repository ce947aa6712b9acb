------------------------------ MODULE MCFiles ------------------------------
EXTENDS Files

\* One directory with two files in it
MCPaths == [n \in {"dir", "one", "two"} |-> IF n = "dir" THEN <<"dir">> ELSE <<"dir", n>>]

\* One process that walks paths, and processes that share descriptors
MCLoads == {[forks |-> 0, targets |-> {"one", "two"}, calls |-> {}],
            [forks |-> 1, targets |-> {}, calls |-> {"dupfd", "cloexec", "pipe"}]}
=============================================================================
