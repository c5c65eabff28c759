-------------------------- MODULE MCKnowledgeQueue --------------------------
(***************************************************************************)
(* KnowledgeQueue for TLC, and what is said of it and does not hold.       *)
(***************************************************************************)
EXTENDS KnowledgeQueue

Quiet == outbox = << >> /\ jobs = << >> /\ revert.of = 0

\* room-wiki-plan 5.5: a deleted document is removed from the wikis, and its
\* decisions are reverted.  Nothing was given up.
FilesForgotten ==
    doc.at = "gone" /\ Quiet /\ gaveUp = {} => \A r \in Rooms, t \in Titles : wiki[r][t] = NoText
=============================================================================
