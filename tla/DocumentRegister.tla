-------------------------- MODULE DocumentRegister --------------------------
(***************************************************************************)
(* What the document store promises its writers, without operations,       *)
(* proposals, queues or restarts: every document is a log of versions and  *)
(* at most one writer holds it.  A writer extends the log only while       *)
(* nobody else holds the document, and what it appends was computed from   *)
(* the version it follows.  DocumentKernel implements this specification.  *)
(***************************************************************************)
EXTENDS Naturals, Sequences

CONSTANTS
    Documents,      \* document ids
    Writers,        \* who may hold a document or publish a version
    NoHolder        \* the value of holder[d] when nobody holds d

VARIABLES
    log,            \* log[d]: the versions of d, oldest first
    holder          \* holder[d]: the writer that holds d, or NoHolder

Init == /\ log = [d \in Documents |-> << >>]
        /\ holder = [d \in Documents |-> NoHolder]

\* A free document is taken by one writer.
Acquire(d) == /\ holder[d] = NoHolder
              /\ holder'[d] \in Writers
              /\ log'[d] = log[d]

\* A held document becomes free again.
Release(d) == /\ holder[d] # NoHolder
              /\ holder'[d] = NoHolder
              /\ log'[d] = log[d]

\* A new version: by the holder if there is one, from the latest version.
Publish(d) == /\ \E w \in Writers :
                    /\ holder[d] \in {NoHolder, w}
                    /\ log'[d] = Append(log[d], [by |-> w, basis |-> Len(log[d])])
              /\ holder'[d] \in {NoHolder, holder[d]}

\* The document is deleted with all its versions.
Erase(d) == /\ log'[d] = << >>
            /\ holder'[d] = NoHolder

Stay(d) == /\ log'[d] = log[d]
           /\ holder'[d] = holder[d]

\* One step of the store may touch several documents (a restart, an emptied
\* trash); each of them makes a step of its own.
Next == \A d \in Documents :
            Acquire(d) \/ Release(d) \/ Publish(d) \/ Erase(d) \/ Stay(d)

Spec == Init /\ [][Next]_<<log, holder>>
=============================================================================
