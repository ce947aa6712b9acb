------------------------------ MODULE PipeFifo ------------------------------
(***************************************************************************)
(* What a pipe promises: a bounded first-in first-out queue of bytes with  *)
(* two ends that may each be closed once.  No ring indices, no locks, no   *)
(* sleeping.  Pipe.tla (kernel/pm/ipc/pipe.cc) implements it.              *)
(***************************************************************************)
EXTENDS Naturals, Sequences

CONSTANTS Bytes,          \* the values a byte may have
          PIPE_BUF_SIZE,  \* capacity
          NoByte          \* "no byte delivered yet"

VARIABLES queue,      \* bytes pushed and not yet popped, oldest first
          delivered,  \* the byte the last pop handed to a reader
          readOpen,   \* the read end is open
          writeOpen   \* the write end is open

vars == <<queue, delivered, readOpen, writeOpen>>

Init ==
    /\ queue = <<>>
    /\ delivered = NoByte
    /\ readOpen = TRUE
    /\ writeOpen = TRUE

Push ==
    /\ readOpen
    /\ writeOpen
    /\ Len(queue) < PIPE_BUF_SIZE
    /\ \E b \in Bytes : queue' = Append(queue, b)
    /\ UNCHANGED <<delivered, readOpen, writeOpen>>

Pop ==
    /\ readOpen
    /\ queue # <<>>
    /\ delivered' = Head(queue)
    /\ queue' = Tail(queue)
    /\ UNCHANGED <<readOpen, writeOpen>>

CloseRead ==
    /\ readOpen
    /\ readOpen' = FALSE
    /\ UNCHANGED <<queue, delivered, writeOpen>>

CloseWrite ==
    /\ writeOpen
    /\ writeOpen' = FALSE
    /\ UNCHANGED <<queue, delivered, readOpen>>

Next == Push \/ Pop \/ CloseRead \/ CloseWrite

Spec == Init /\ [][Next]_vars
=============================================================================
