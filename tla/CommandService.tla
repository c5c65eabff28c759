--------------------------- MODULE CommandService ---------------------------
(***************************************************************************)
(* What the agent of a computer promises to those who give it work,        *)
(* without queues, deliveries, connections, awaits or restarts.  A session *)
(* works on one piece of work at a time; work that was taken up is not     *)
(* taken up again until its trace is removed; and a phone is told of the   *)
(* end of what it asked for once, when nothing goes on any more, and what  *)
(* it was told of is not taken up afterwards.  RemoteCommands implements   *)
(* this specification.                                                     *)
(***************************************************************************)
CONSTANTS
    Places,         \* the sessions
    Work,           \* requests for work
    PlaceOf,        \* the session of each request
    Phoned          \* those a phone made, which is told what becomes of them

VARIABLES
    fate,           \* what became of each request
    told            \* what the phone was told of its requests

Ends == {"completed", "failed", "cancelled", "interrupted"}
Answers == {"completed", "failed", "cancelled"}

Init == /\ fate = [w \in Work |-> "new"]
        /\ told = [c \in Phoned |-> "queued"]

At(p) == {w \in Work : PlaceOf[w] = p}
Free(p) == \A w \in At(p) : fate[w] # "open"
Only(p, S) == \A w \in At(p) \ S : fate'[w] = fate[w]

\* New work is taken up in a free session, or answered at once; the trace of
\* ended work may be removed for it.
Begin(p) ==
    /\ Free(p)
    /\ \E w \in At(p) :
          /\ fate[w] = "new" /\ (w \in Phoned => told[w] \notin Answers)
          /\ fate'[w] \in {"open", "completed"}
          /\ \/ Only(p, {w})
             \/ \E q \in At(p) : /\ fate[q] \in Ends /\ fate'[q] = "new"
                                 /\ Only(p, {q, w})

\* The work of a session ends.
End(p) == \E w \in At(p) : fate[w] = "open" /\ fate'[w] \in Ends /\ Only(p, {w})

\* A session is removed with the traces of its work.
Erase(p) == \A w \in At(p) : fate'[w] = "new"

Stay(p) == Only(p, {})

\* A phone is told of the end of its request when nothing goes on, that it was
\* completed when it was or its trace is gone, and of no end after another.
Tell(c) ==
    /\ told[c] \notin Answers \cup {"expired"}
    /\ told'[c] \in Answers \cup {"running", "expired"}
    /\ told'[c] \in Answers => fate'[c] # "open"
    /\ told'[c] = "completed" => fate'[c] \in {"completed", "new"}

\* A restart touches many sessions, and an end may be told as it comes.
Next == /\ \A p \in Places : Begin(p) \/ End(p) \/ Erase(p) \/ Stay(p)
        /\ \A c \in Phoned : told'[c] = told[c] \/ Tell(c)

Spec == Init /\ [][Next]_<<fate, told>>
=============================================================================
