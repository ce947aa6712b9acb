------------------------------ MODULE LineFifo ------------------------------
(***************************************************************************)
(* What a console promises its readers: characters arrive in the order     *)
(* they were typed, once the line they are on is complete; until then the  *)
(* line can be edited.  Console.tla implements it.                         *)
(***************************************************************************)
EXTENDS Naturals, Sequences

CONSTANTS Chars,      \* what a line can hold
          Ends,       \* the characters that complete a line
          INPUT_BUF,  \* characters typed and not read, at most
          NoChar      \* nothing delivered yet

VARIABLES ready, line, got   \* complete lines; the line being typed; last delivery

Room == Len(ready) + Len(line) < INPUT_BUF

\* A line is complete with its last character, or when there is no more room.
TypeChar(c) ==
  /\ Room
  /\ IF c \in Ends \/ Len(ready) + Len(line) + 1 = INPUT_BUF
     THEN ready' = ready \o Append(line, c) /\ line' = <<>>
     ELSE line' = Append(line, c) /\ ready' = ready
  /\ got' = got

EraseChar == /\ line # <<>>
             /\ line' = SubSeq(line, 1, Len(line) - 1)
             /\ UNCHANGED <<ready, got>>

EraseLine == line' = <<>> /\ UNCHANGED <<ready, got>>

Deliver == /\ ready # <<>>
           /\ got' = Head(ready) /\ ready' = Tail(ready)
           /\ UNCHANGED line

FifoInit == ready = <<>> /\ line = <<>> /\ got = NoChar
FifoNext == (\E c \in Chars : TypeChar(c)) \/ EraseChar \/ EraseLine \/ Deliver
FifoSpec == FifoInit /\ [][FifoNext]_<<ready, line, got>>
=============================================================================
