-------------------------- MODULE MCRemoteCommands --------------------------
(***************************************************************************)
(* Three commands of a phone, two of them addressed to one session, and a  *)
(* run of the user; and what the documents say of a command and does not   *)
(* hold.                                                                   *)
(***************************************************************************)
EXTENDS RemoteCommands

CONSTANTS s1, s2, c1, c2, c3, u1

OneSession == (c1 :> s1) @@ (c2 :> s1) @@ (u1 :> s1)
TwoSessions == OneSession @@ (c3 :> s2)

\* The two commands of one session differ in name only.
Twins == Permutations({c1, c2})

\* An accepted command runs and then completes, fails, is cancelled or expires
\* (docs/mobile-agent-sync-plan.zh-CN.md, the states of a command).
CommandEnds == \A c \in Commands : c \in seen ~> cloud[c] \in Final \/ link = "gone"
=============================================================================
