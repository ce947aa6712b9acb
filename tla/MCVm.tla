-------------------------------- MODULE MCVm --------------------------------
EXTENDS Vm

\* Processes that fork, with memory enough
Ample == [fork |-> 1, remap |-> 0, budgets |-> {99}, sizes |-> {2, 4}, extra |-> {0},
          breaks |-> {4, 8}, room |-> 6, args |-> {"fit"}]

\* One process that runs out of memory after any number of allocations
Short == [Ample EXCEPT !.fork = 0, !.budgets = {0, 1, 2, 3, 99}, !.sizes = {2, 4, 6},
                       !.breaks = {4, 5, 7, 8}, !.room = 7]

\* One process that moves its file mappings
Moving == [Ample EXCEPT !.fork = 0, !.remap = 1, !.sizes = {2}, !.room = 7, !.args = {}]

MCPrograms == {Ample, Short, Moving}
=============================================================================
