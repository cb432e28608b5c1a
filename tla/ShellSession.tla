----------------------------- MODULE ShellSession -----------------------------
(***************************************************************************)
(* What the terminal manager of the console promises the user of a shell   *)
(* session, one connection at a time: a session is on a live shell, waits  *)
(* to be put back on one after its connection was lost, or has ended with  *)
(* its process.  An ended session is not put on a new shell by itself, and *)
(* a discarded one keeps no connection but the one being hung up.          *)
(***************************************************************************)
CONSTANTS Sessions, Conns

VARIABLES phase,   \* [Sessions -> Phases]
          wire     \* [Sessions -> SUBSET Conns], the connections it holds

Phases == {"absent", "live", "lost", "ended"}

Init == phase = [i \in Sessions |-> "absent"] /\ wire = [i \in Sessions |-> {}]

\* On a shell over a new connection, or without one until there is a token.
Attach(i) == \/ phase'[i] = "live" /\ \E c \in Conns : wire'[i] = {c}
             \/ phase'[i] = "lost" /\ wire'[i] = {}

Start(i)    == phase[i] = "absent" /\ wire[i] = {} /\ Attach(i)
Reattach(i) == phase[i] = "lost" /\ wire[i] = {} /\ Attach(i)
Restart(i)  == phase[i] = "ended" /\ wire[i] = {} /\ Attach(i)
Drop(i)     == phase[i] = "live" /\ phase'[i] = "lost" /\ wire'[i] = {}
End(i)      == phase[i] = "live" /\ phase'[i] = "ended" /\ wire'[i] = wire[i]
HangUp(i)   == phase[i] \in {"ended", "absent"} /\ phase'[i] = phase[i] /\ wire'[i] = {}
Discard(i)  == phase'[i] = "absent" /\ wire'[i] \subseteq wire[i]
Keep(i)     == phase'[i] = phase[i] /\ wire'[i] = wire[i]

\* Sessions move together when the sandbox comes back or goes away; the user
\* starts and restarts one at a time.
Next ==
  /\ phase' \in [Sessions -> Phases] /\ wire' \in [Sessions -> SUBSET Conns]
  /\ \/ \A i \in Sessions : Reattach(i) \/ Discard(i) \/ Keep(i)
     \/ \E i \in Sessions :
          /\ Start(i) \/ Restart(i) \/ Drop(i) \/ End(i) \/ HangUp(i)
          /\ \A j \in Sessions \ {i} : Keep(j)

Spec == Init /\ [][Next]_<<phase, wire>>
=============================================================================
