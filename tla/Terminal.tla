------------------------------- MODULE Terminal -------------------------------
(***************************************************************************)
(* The interactive shells of one sandbox in the console: TermManager       *)
(* (lib/term.ts), the bridge App and Workspace reach it through            *)
(* (lib/termBridge.ts), the Terminal tab that opens sessions, and the      *)
(* events that feed it: the polled sandbox row, a kill, a sign-out, a 401, *)
(* and another browser tab changing the token in localStorage.             *)
(*                                                                         *)
(* Every handler is one step of the single JavaScript thread.  The effect  *)
(* that reports the row to noteState is taken with the render it follows.  *)
(***************************************************************************)
EXTENDS Naturals, FiniteSets

CONSTANTS Sessions,     \* bound: sessions that exist at once, hung-up ones included
          Sockets,      \* names for the WebSockets of one session
          MAX_SESSIONS,
          None          \* null

ASSUME TerminalAssumption ==
  /\ None \notin Sockets /\ Sockets # {}
  /\ MAX_SESSIONS \in Nat \ {0}

VARIABLES
  sess,        \* the Internal of each session (None: there is none), with its sockets
  lastState,   \* lastState.get(id)
  token,       \* is there a token in localStorage
  row,         \* the state of the cached sandbox row; None when there is none
  view,        \* what is on screen: "login", "away" (a page without this
               \* sandbox), "terminal", or "other" (another tab of its workspace)
  leaving,     \* nav("/sandboxes") was called and its transition is not rendered
  kill,        \* the kill request of this console
  server, net  \* the sandbox in the control plane; is the network up

ui == <<token, row, view, leaving, kill>>
world == <<server, net>>
vars == <<sess, lastState, ui, world>>

\* All that term.ts and TerminalTab.tsx ask of a state is whether it is RUNNING.
States == {"RUNNING", "OTHER"}
Views == {"login", "away", "terminal", "other"}
InWorkspace == view \in {"terminal", "other"}

-----------------------------------------------------------------------------
(***************************************************************************)
(* One session.  backoff says whether backoffMs is above BACKOFF_MIN_MS,   *)
(* which is all that is read of it but the length of a delay.  A socket is *)
(* "none", "connecting", "open" or "closing" (after ws.close()).           *)
(***************************************************************************)
SocketStates == {"none", "connecting", "open", "closing"}
Internal ==
  [listed : BOOLEAN, status : {"connecting", "open", "reconnecting", "closed"},
   ws : Sockets \cup {None}, userClosed : BOOLEAN, shellExited : BOOLEAN,
   backoff : {"min", "raised"}, retryTimer : BOOLEAN,
   socks : [Sockets -> SocketStates],
   skipped : BOOLEAN]   \* ghost: the last connect() found no token

ASSUME NoneAssumption == None \notin Internal

newSession ==
  [listed |-> TRUE, status |-> "connecting", ws |-> None, userClosed |-> FALSE,
   shellExited |-> FALSE, backoff |-> "min", retryTimer |-> FALSE,
   socks |-> [k \in Sockets |-> "none"], skipped |-> FALSE]

Fresh(r) == CHOOSE k \in Sockets : r.socks[k] = "none" \/ \A j \in Sockets : r.socks[j] # "none"

connect(r) ==
  IF ~token THEN [r EXCEPT !.skipped = TRUE]
  ELSE [r EXCEPT !.status = IF r.backoff = "raised" THEN "reconnecting" ELSE "connecting",
                 !.ws = Fresh(r), !.socks[Fresh(r)] = "connecting", !.skipped = FALSE]

\* Mutant: the doubling is not capped.
scheduleReconnectNoCap(r) ==
  IF r.retryTimer \/ r.userClosed \/ r.shellExited THEN r
  ELSE [r EXCEPT !.retryTimer = TRUE,
                 !.backoff = IF r.backoff = "raised" THEN "above the cap" ELSE "raised"]

scheduleReconnect(r) ==
  IF r.retryTimer \/ r.userClosed \/ r.shellExited THEN r
  ELSE [r EXCEPT !.retryTimer = TRUE, !.backoff = "raised"]

onopen(r, k) == [r EXCEPT !.socks[k] = "open", !.backoff = "min", !.status = "open"]

onclose(r, k) ==
  LET q == [r EXCEPT !.socks[k] = "none"]
      p == [q EXCEPT !.ws = None]
  IN IF r.ws # k THEN q
     ELSE IF r.userClosed THEN p
     ELSE IF r.shellExited THEN [p EXCEPT !.status = "closed"]
     ELSE scheduleReconnect([p EXCEPT !.status = "reconnecting"])

\* Mutants: a timer that finds the sandbox stopped is the last one; every
\* timer waits for noteState.
retryOnce(r) ==
  LET q == [r EXCEPT !.retryTimer = FALSE]
  IN IF r.userClosed \/ r.shellExited \/ r.ws # None \/ lastState # "RUNNING" THEN q
     ELSE connect(q)
retryWaits(r) ==
  LET q == [r EXCEPT !.retryTimer = FALSE]
  IN IF r.userClosed \/ r.shellExited \/ r.ws # None THEN q ELSE scheduleReconnect(q)

\* The callback of the retry timer.
retry(r) ==
  LET q == [r EXCEPT !.retryTimer = FALSE]
  IN IF r.userClosed \/ r.shellExited \/ r.ws # None THEN q
     ELSE IF lastState # "RUNNING" THEN scheduleReconnect(q)
     ELSE connect(q)

\* Mutants: a connected session connects again; so does an exited one.
resumedTwice(r) ==
  LET q == [r EXCEPT !.retryTimer = FALSE]
  IN IF ~r.userClosed /\ ~r.shellExited THEN connect(q) ELSE q
resumedExited(r) ==
  LET q == [r EXCEPT !.retryTimer = FALSE]
  IN IF r.ws = None /\ ~r.userClosed THEN connect(q) ELSE q

\* What noteState does to a session when the sandbox is RUNNING again.
resumed(r) ==
  LET q == [r EXCEPT !.retryTimer = FALSE]
  IN IF r.ws = None /\ ~r.userClosed /\ ~r.shellExited THEN connect(q) ELSE q

\* close and disposeSandbox: without a socket nothing is left to refer to it.
closed(r) ==
  IF r.ws = None THEN None
  ELSE [r EXCEPT !.userClosed = TRUE, !.retryTimer = FALSE, !.listed = FALSE,
                 !.socks[r.ws] = "closing"]

-----------------------------------------------------------------------------
Live == {i \in Sessions : sess[i] # None}
Listed == {i \in Live : sess[i].listed}
Set(i, r) == sess' = [sess EXCEPT ![i] = r]

disposeSandbox == [i \in Sessions |-> IF i \in Listed THEN closed(sess[i]) ELSE sess[i]]

\* The sandbox query hands `state` to the Workspace, whose effect calls noteState.
noteState(state) ==
  /\ lastState' = state
  /\ sess' = IF lastState # "RUNNING" /\ state = "RUNNING"
             THEN [i \in Sessions |-> IF i \in Listed THEN resumed(sess[i]) ELSE sess[i]]
             ELSE sess

\* TermManager.open, from the + button or from the tab's first-visit effect.
open(i) ==
  /\ sess[i] = None /\ Cardinality(Listed) < MAX_SESSIONS
  /\ Set(i, connect(newSession))

AutoOpen(i) ==
  /\ view = "terminal" /\ row = "RUNNING" /\ Listed = {}
  /\ open(i)
  /\ UNCHANGED <<lastState, ui, world>>

NewShell(i) ==
  /\ view = "terminal" /\ row = "RUNNING" /\ Listed # {}
  /\ open(i)
  /\ UNCHANGED <<lastState, ui, world>>

Restart(i) ==
  /\ view = "terminal" /\ row = "RUNNING"
  /\ i \in Listed /\ sess[i].status = "closed"
  /\ sess[i].ws = None /\ sess[i].shellExited
  /\ Set(i, connect([sess[i] EXCEPT !.shellExited = FALSE, !.backoff = "min"]))
  /\ UNCHANGED <<lastState, ui, world>>

Close(i) ==
  /\ view = "terminal" /\ i \in Listed
  /\ Set(i, closed(sess[i]))
  /\ UNCHANGED <<lastState, ui, world>>

RetryTimer(i) ==
  /\ i \in Live /\ sess[i].retryTimer
  /\ Set(i, retry(sess[i]))
  /\ UNCHANGED <<lastState, ui, world>>

-----------------------------------------------------------------------------
(***************************************************************************)
(* The sockets.  The control plane accepts one while the sandbox runs; one *)
(* is lost with the network, with a sandbox that stops, after ws.close()   *)
(* and after the exit frame.                                               *)
(***************************************************************************)
Reachable == net /\ server = "RUNNING"

Accepted(i, k) ==
  /\ i \in Live /\ sess[i].socks[k] = "connecting" /\ Reachable
  /\ Set(i, onopen(sess[i], k))
  /\ UNCHANGED <<lastState, ui, world>>

\* onmessage with {"type":"exit"}.
ExitFrame(i, k) ==
  /\ i \in Live /\ sess[i].socks[k] = "open" /\ ~sess[i].shellExited /\ Reachable
  /\ Set(i, [sess[i] EXCEPT !.shellExited = TRUE])
  /\ UNCHANGED <<lastState, ui, world>>

SocketClosed(i, k) ==
  /\ i \in Live /\ sess[i].socks[k] # "none"
  /\ ~Reachable \/ sess[i].socks[k] = "closing" \/ sess[i].shellExited
  /\ LET r == onclose(sess[i], k)
     IN Set(i, IF ~r.listed /\ r.ws = None THEN None ELSE r)
  /\ UNCHANGED <<lastState, ui, world>>

-----------------------------------------------------------------------------
\* A poll (of what the server had when it read it), an optimistic patch of a
\* verb or its rollback changes the row under an open workspace.
RowChanges(s) ==
  /\ InWorkspace /\ row # s
  /\ row' = s
  /\ noteState(s)
  /\ UNCHANGED <<token, view, leaving, kill, world>>

\* A page is rendered: the workspace with the row still cached or just fetched.
Shown(v) ==
  /\ view' = v
  /\ \/ v = "away" /\ UNCHANGED <<row, sess, lastState>>
     \/ /\ v # "away"
        /\ row' \in IF row = None THEN {server} ELSE {row, server}
        /\ noteState(row')

Visit(v) ==
  /\ view # "login" /\ ~leaving /\ v \notin {view, "login"}
  /\ Shown(v)
  /\ UNCHANGED <<token, leaving, kill, world>>

\* The kill verb of the header, the settings tab or the list: on success
\* drop the sessions and, from the workspace, navigate away.
Kill ==
  /\ view # "login" /\ kill = "no"
  /\ kill' = "sent"
  /\ UNCHANGED <<sess, lastState, token, row, view, leaving, world>>

KillServed ==
  /\ kill = "sent" /\ kill' = "served"
  /\ server' = "OTHER"
  /\ UNCHANGED <<sess, lastState, token, row, view, leaving, net>>

KillAnswered ==
  /\ kill = "served" /\ kill' = "no"
  /\ sess' = disposeSandbox /\ lastState' = None
  /\ leaving' = InWorkspace
  /\ UNCHANGED <<token, row, view, world>>

KillFails ==
  /\ kill # "no" /\ kill' = "no"
  /\ UNCHANGED <<sess, lastState, token, row, view, leaving, world>>

Leave ==
  /\ leaving /\ leaving' = FALSE
  /\ view' = "away"
  /\ UNCHANGED <<sess, lastState, token, row, kill, world>>

-----------------------------------------------------------------------------
\* Sidebar sign-out: disposeAllTerms, clearToken, qc.clear.
SignOut ==
  /\ view # "login"
  /\ sess' = disposeSandbox /\ lastState' = None
  /\ token' = FALSE /\ row' = None
  /\ view' = "login" /\ leaving' = FALSE
  /\ UNCHANGED <<kill, world>>

\* A request is answered 401: clearToken and the event TermManager and App
\* listen for.  The query cache keeps its rows.
Unauthorized ==
  /\ view # "login"
  /\ sess' = disposeSandbox /\ lastState' = None
  /\ token' = FALSE
  /\ view' = "login" /\ leaving' = FALSE
  /\ UNCHANGED <<row, kill, world>>

\* The hash still names the page that was open.
Login(v) ==
  /\ view = "login" /\ v \in {"away", "terminal"}
  /\ token' = TRUE /\ view' = v
  /\ Shown(v)
  /\ UNCHANGED <<leaving, kill, world>>

\* Another browser tab signs out or in; this one hears nothing of it.
OtherTab ==
  /\ view # "login" /\ token' = ~token
  /\ UNCHANGED <<sess, lastState, row, view, leaving, kill, world>>

\* Other clients, the engine and the end of a verb write the sandbox's state,
\* by its id and whatever it was; the network fails and comes back.
World ==
  /\ \/ server' \in States \ {server} /\ UNCHANGED net
     \/ net' = ~net /\ UNCHANGED server
  /\ UNCHANGED <<sess, lastState, ui>>

-----------------------------------------------------------------------------
Init ==
  /\ sess = [i \in Sessions |-> None] /\ lastState = None
  /\ token = TRUE /\ row = None /\ view = "away" /\ leaving = FALSE /\ kill = "no"
  /\ server = "RUNNING" /\ net = TRUE

Socket(i) == \E k \in Sockets : Accepted(i, k) \/ ExitFrame(i, k) \/ SocketClosed(i, k)

Next ==
  \/ \E i \in Sessions : \/ AutoOpen(i) \/ NewShell(i) \/ Restart(i) \/ Close(i)
                         \/ RetryTimer(i) \/ Socket(i)
  \/ \E s \in States : RowChanges(s)
  \/ \E v \in Views : Visit(v) \/ Login(v)
  \/ Kill \/ KillServed \/ KillAnswered \/ KillFails \/ Leave
  \/ SignOut \/ Unauthorized \/ OtherTab \/ World

Spec == Init /\ [][Next]_vars

\* Timers fire, and a socket's handshake or close is decided sooner or later.
Fairness == \A i \in Sessions :
  /\ WF_vars(RetryTimer(i))
  /\ \A k \in Sockets : WF_vars(Accepted(i, k)) /\ WF_vars(SocketClosed(i, k))
LiveSpec == Spec /\ Fairness

-----------------------------------------------------------------------------
TypeOK ==
  /\ sess \in [Sessions -> Internal \cup {None}]
  /\ lastState \in States \cup {None} /\ row \in States \cup {None}
  /\ token \in BOOLEAN /\ leaving \in BOOLEAN /\ net \in BOOLEAN
  /\ view \in Views /\ kill \in {"no", "sent", "served"} /\ server \in States

\* A session never holds two WebSockets, so the guest never runs two shells
\* behind one tab, and a session that was closed, killed or signed out of
\* holds none but the one being closed (the i.ws tests of restart, noteState
\* and the retry callback; onclose of a superseded socket).
OneSocket ==
  \A i \in Live :
    /\ \A k \in Sockets : sess[i].socks[k] # "none" => k = sess[i].ws
    /\ sess[i].ws # None => sess[i].socks[sess[i].ws] # "none"
    /\ ~sess[i].listed => sess[i].ws # None /\ sess[i].socks[sess[i].ws] = "closing"

\* A listed session whose shell has not exited is connected, connecting or
\* has a retry timer, however closes, timers, resumes and kills interleave:
\* nothing else would ever bring it back.  The exception is a connect() that
\* found no token, which gives up without a timer.
NotStranded ==
  \A i \in Listed : \/ sess[i].shellExited \/ sess[i].skipped
                    \/ sess[i].ws # None \/ sess[i].retryTimer

phaseOf(r) == IF r = None THEN "absent" ELSE IF ~r.listed THEN "absent"
              ELSE IF r.shellExited THEN "ended" ELSE IF r.ws # None THEN "live" ELSE "lost"
wireOf(r) == IF r = None THEN {} ELSE {k \in Sockets : r.socks[k] # "none"}
Promise == INSTANCE ShellSession WITH Conns <- Sockets,
             phase <- [i \in Sessions |-> phaseOf(sess[i])],
             wire <- [i \in Sessions |-> wireOf(sess[i])]

\* TermManager keeps the promise of ShellSession: in particular a shell that
\* exited is replaced only by "Restart session", never by a retry or a resume.
KeepsPromise == Promise!Spec

\* Once the sandbox runs and is reachable for good, with its workspace on
\* screen and a token, every session is back on a shell (or its process has
\* exited): the backoff never starves it and a resume is never missed.
Healthy == Reachable /\ token /\ row = "RUNNING" /\ InWorkspace /\ ~leaving
Reconnects ==
  \A i \in Sessions :
    <>[]Healthy => []<>(i \in Listed => sess[i].status \in {"open", "closed"} \/ sess[i].skipped)
=============================================================================
