-------------------------- MODULE MCDocumentKernel --------------------------
(***************************************************************************)
(* DocumentKernel on small instances: the ids are model values, and ids of *)
(* the same sort are interchangeable.  The claim at the end is one of the  *)
(* repository's own that the kernel does not keep.                         *)
(***************************************************************************)
EXTENDS DocumentKernel, TLC

Interchangeable == Permutations(Ops) \cup Permutations(Runs) \cup Permutations(Drafts)

\* Bound: only as long as no other operation has been created, an operation has
\* more than one item, and the document a version beyond the second or, queued at
\* the second, a synchronisation or a commit.
Beyond(op) == \/ op.pending + op.applied > 1
              \/ op.base \in 3..MaxVersion
              \/ op.rev > (IF op.status \in Active THEN 3 ELSE 5)
Large == \/ \E o \in Ops : Beyond(ops[o])
         \/ \E d \in AllDocs : \/ docs[d].version > 2
                               \/ cmds[d].items > 1
                               \/ cmds[d].rev > 4
                               \/ cmds[d].type \in Commits /\ cmds[d].basis > 1
         \/ \E d \in Docs : sync[d] > 1
LargeAlone == Large => Cardinality({o \in Ops : ops[o].status # "none"}) =< 1

\* The desktop closes a continuation under review with review.close, whatever
\* was accepted before (useDocumentEditorOperations.ts): the status the
\* handler asks for is one the state machine allows.
ReviewCanBeClosed ==
    \A o \in Ops : ops[o].kind = "continue" /\ ops[o].status = "awaiting_review" =>
        Legal(ops[o], "review.close")
=============================================================================
