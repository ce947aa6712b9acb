----------------------------- MODULE PageSource -----------------------------
(***************************************************************************)
(* What a source of physical pages promises its clients, whatever its      *)
(* algorithm: pages that are handed out belong to nobody else until they   *)
(* are given back, and giving back a block gives back exactly that block.  *)
(***************************************************************************)
EXTENDS Naturals

CONSTANTS PageSet, Requests

VARIABLE held        \* the blocks handed out: [at |-> first page, len |-> pages]

Span(B) == B.at .. B.at + B.len - 1

SourceInit == held = {}

\* Some block of n pages or more that shares no page with the others.
SourceAlloc(n) ==
  \E B \in held' :
    /\ n <= B.len
    /\ Span(B) \subseteq PageSet
    /\ \A C \in held : Span(B) \cap Span(C) = {}
    /\ held' = held \cup {B}

SourceFree == \E B \in held : held' = held \ {B}

SourceNext == (\E n \in Requests : SourceAlloc(n)) \/ SourceFree

SourceSpec == SourceInit /\ [][SourceNext]_held
=============================================================================
