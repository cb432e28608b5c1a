---------------------------- MODULE Terminal_proofs ----------------------------
(***************************************************************************)
(* TermManager for any number of sessions, sockets and MAX_SESSIONS: no    *)
(* session holds two WebSockets or is stranded without a way back, and the *)
(* manager keeps the promise of ShellSession.                              *)
(*                                                                         *)
(* Every handler changes a session with one of a few record operators, so  *)
(* the lemmas say what each operator does to one good session, and the     *)
(* theorems only look at which operator an action applies to which.        *)
(***************************************************************************)
EXTENDS Terminal, TLAPS

\* A session that holds no socket but i.ws, and that is listed until the
\* user closes it; a listed one is on its way back, as NotStranded says.
Held(r) ==
  /\ r \in Internal
  /\ \A k \in Sockets : r.socks[k] # "none" => k = r.ws
  /\ r.ws # None => r.socks[r.ws] # "none"
  /\ r.listed = ~r.userClosed
  /\ ~r.listed => r.ws # None /\ r.socks[r.ws] = "closing"
Good(r) ==
  /\ Held(r)
  /\ r.listed => r.shellExited \/ r.skipped \/ r.ws # None \/ r.retryTimer

Inv == /\ sess \in [Sessions -> Internal \cup {None}]
       /\ \A i \in Live : Good(sess[i])

\* What ShellSession sees of one session before and after a step.
Attached(s) == \/ phaseOf(s) = "live" /\ \E c \in Sockets : wireOf(s) = {c}
               \/ phaseOf(s) = "lost" /\ wireOf(s) = {}
Kept(r, s) == phaseOf(s) = phaseOf(r) /\ wireOf(s) = wireOf(r)
Discarded(r, s) == phaseOf(s) = "absent" /\ wireOf(s) \subseteq wireOf(r)
Reattached(r, s) == phaseOf(r) = "lost" /\ wireOf(r) = {} /\ Attached(s)
Together(r, s) == Kept(r, s) \/ Discarded(r, s) \/ Reattached(r, s)

Alone(r, s) ==
  \/ phaseOf(r) \in {"absent", "ended"} /\ wireOf(r) = {} /\ Attached(s)
  \/ phaseOf(r) = "live" /\ phaseOf(s) = "lost" /\ wireOf(s) = {}
  \/ phaseOf(r) = "live" /\ phaseOf(s) = "ended" /\ wireOf(s) = wireOf(r)
  \/ phaseOf(r) \in {"ended", "absent"} /\ phaseOf(s) = phaseOf(r) /\ wireOf(s) = {}

\* The sessions after a step: all good, and moved as ShellSession allows.
Moved(f) ==
  /\ f \in [Sessions -> Internal \cup {None}]
  /\ \A i \in Sessions : f[i] # None => Good(f[i])
  /\ \/ \A i \in Sessions : Together(sess[i], f[i])
     \/ \E i \in Sessions : /\ Alone(sess[i], f[i])
                            /\ \A j \in Sessions \ {i} : f[j] = sess[j]

-----------------------------------------------------------------------------
\* A listed session without a socket is lost or ended, on no wire.
LEMMA NoWire ==
  ASSUME NEW r, Held(r), r.ws = None
  PROVE  wireOf(r) = {} /\ r.listed /\ \A k \in Sockets : r.socks[k] = "none"
BY TerminalAssumption DEF Held, wireOf

\* connect leaves a session without a socket on one new socket, or, without
\* a token, as it was.
LEMMA Connects ==
  ASSUME NEW r, Held(r), r.ws = None, ~r.shellExited
  PROVE  Good(connect(r)) /\ Attached(connect(r))
<1>1. /\ r \in Internal /\ r.listed /\ wireOf(r) = {} /\ ~r.userClosed
      /\ \A k \in Sockets : r.socks[k] = "none"
  BY Zenon, NoWire DEF Held
<1>2. CASE ~token
  <2> DEFINE s == connect(r)
  <2>1. s = [r EXCEPT !.skipped = TRUE]
    BY <1>2 DEF connect
  <2> HIDE DEF s
  <2>2. /\ s \in Internal /\ s.ws = None /\ s.listed /\ ~s.userClosed /\ ~s.shellExited
        /\ s.skipped /\ s.socks = r.socks
    BY Zenon, <1>1, <2>1 DEF Internal
  <2>3. Good(s)
    BY Zenon, <1>1, <2>2 DEF Good, Held
  <2>4. s # None
    BY <2>2, NoneAssumption
  <2>5. wireOf(s) = {} /\ phaseOf(s) = "lost"
    BY <1>1, <2>2, <2>4 DEF wireOf, phaseOf
  <2> QED
    BY <2>3, <2>5 DEF Attached, s
<1>3. CASE token
  <2> DEFINE k == Fresh(r)
             s == connect(r)
  <2>1. k \in Sockets /\ k # None
    <3>1. \E j \in Sockets : r.socks[j] = "none" \/ \A l \in Sockets : r.socks[l] # "none"
      BY <1>1, TerminalAssumption
    <3> QED
      BY <3>1, TerminalAssumption DEF Fresh
  <2>2. s = [r EXCEPT !.status = IF r.backoff = "raised" THEN "reconnecting" ELSE "connecting",
                      !.ws = k, !.socks[k] = "connecting", !.skipped = FALSE]
    BY <1>3 DEF connect
  <2> HIDE DEF k, s
  <2>3. /\ s \in Internal /\ s.ws = k /\ s.listed /\ ~s.userClosed /\ ~s.shellExited
        /\ s.socks[k] = "connecting"
        /\ \A j \in Sockets : j # k => s.socks[j] = "none"
    <3> USE <1>1, <2>1, <2>2 DEF Internal
    <3>1. s.socks = [r.socks EXCEPT ![k] = "connecting"]
      OBVIOUS
    <3>2. s.socks \in [Sockets -> SocketStates]
      BY <3>1 DEF SocketStates
    <3>3. s.ws = k /\ s.listed /\ ~s.userClosed /\ ~s.shellExited
      OBVIOUS
    <3>4. s \in Internal
      BY Zenon, <3>2
    <3> QED
      BY <3>1, <3>3, <3>4
  <2>4. Good(s)
    BY Zenon, <2>1, <2>3 DEF Good, Held
  <2>5. s # None
    BY <2>3, NoneAssumption
  <2>6. wireOf(s) = {k} /\ phaseOf(s) = "live"
    BY <2>1, <2>3, <2>5 DEF wireOf, phaseOf
  <2> QED
    BY <2>1, <2>4, <2>6 DEF Attached, s
<1> QED
  BY <1>2, <1>3

\* What is not a matter of the sockets does not make a session less held.
LEMMA SameSockets ==
  ASSUME NEW r, Held(r), NEW s \in Internal, s.socks = r.socks, s.ws = r.ws,
         s.listed = r.listed, s.userClosed = r.userClosed
  PROVE  Held(s) /\ (s.shellExited = r.shellExited => Kept(r, s))
<1>1. Held(s)
  BY DEF Held
<1>2. r # None /\ s # None
  BY NoneAssumption DEF Held
<1> QED
  BY <1>1, <1>2 DEF Kept, phaseOf, wireOf

\* Clearing the timer is the first thing retry and resumed do.
LEMMA TimerOff ==
  ASSUME NEW r, Held(r), NEW q, q = [r EXCEPT !.retryTimer = FALSE]
  PROVE  /\ Held(q) /\ Kept(r, q) /\ q.ws = r.ws /\ q.listed = r.listed
         /\ q.shellExited = r.shellExited /\ q.skipped = r.skipped
<1>1. /\ q \in Internal /\ q.socks = r.socks /\ q.ws = r.ws /\ q.listed = r.listed
      /\ q.userClosed = r.userClosed /\ q.shellExited = r.shellExited
      /\ q.skipped = r.skipped
  BY Zenon DEF Held, Internal
<1> QED
  BY Zenon, <1>1, SameSockets

\* scheduleReconnect gives a lost session a timer.
LEMMA Schedules ==
  ASSUME NEW r, Held(r), r.ws = None, ~r.shellExited
  PROVE  /\ Good(scheduleReconnect(r)) /\ Kept(r, scheduleReconnect(r))
         /\ scheduleReconnect(r).listed = r.listed /\ scheduleReconnect(r).ws = None
<1> DEFINE s == scheduleReconnect(r)
<1>1. r.listed /\ ~r.userClosed /\ r \in Internal
  BY Zenon, NoWire DEF Held
<1>2. CASE r.retryTimer
  <2>1. s = r
    BY <1>2 DEF scheduleReconnect
  <2> QED
    BY Zenon, <1>1, <1>2, <2>1 DEF Good, Kept
<1>3. CASE ~r.retryTimer
  <2>1. s = [r EXCEPT !.retryTimer = TRUE, !.backoff = "raised"]
    BY <1>1, <1>3 DEF scheduleReconnect
  <2> HIDE DEF s
  <2>2. /\ s \in Internal /\ s.retryTimer /\ s.socks = r.socks /\ s.ws = r.ws
        /\ s.listed = r.listed /\ s.userClosed = r.userClosed /\ s.shellExited = r.shellExited
    BY Zenon, <1>1, <2>1 DEF Internal
  <2>3. Held(s) /\ Kept(r, s)
    BY <2>2, SameSockets
  <2> QED
    BY <2>2, <2>3 DEF Good, s
<1> QED
  BY <1>2, <1>3

\* A session without a socket whose shell runs is lost to its user.
LEMMA LostWithoutSocket ==
  ASSUME NEW r, Held(r), r.ws = None, ~r.shellExited
  PROVE  phaseOf(r) = "lost" /\ wireOf(r) = {}
<1>1. r.listed /\ wireOf(r) = {}
  BY NoWire
<1>2. r # None
  BY NoneAssumption DEF Held
<1> QED
  BY <1>1, <1>2 DEF phaseOf

\* Neither the retry timer nor a resume strands a session or takes it off
\* its shell.
LEMMA Retries ==
  ASSUME NEW r, Good(r)
  PROVE  Good(retry(r)) /\ (Kept(r, retry(r)) \/ Reattached(r, retry(r)))
<1> DEFINE q == [r EXCEPT !.retryTimer = FALSE]
<1>1. /\ Held(q) /\ Kept(r, q) /\ q.ws = r.ws /\ q.listed = r.listed
      /\ q.shellExited = r.shellExited /\ q.skipped = r.skipped
  BY TimerOff DEF Good
<1>2. q.listed = ~r.userClosed /\ Held(r)
  BY <1>1 DEF Good, Held
<1>3. retry(r) = IF r.userClosed \/ r.shellExited \/ r.ws # None THEN q
                 ELSE IF lastState # "RUNNING" THEN scheduleReconnect(q) ELSE connect(q)
  BY DEF retry
<1> HIDE DEF q
<1>4. CASE r.userClosed \/ r.shellExited \/ r.ws # None
  BY Zenon, <1>1, <1>2, <1>3, <1>4 DEF Good
<1>5. CASE ~(r.userClosed \/ r.shellExited \/ r.ws # None)
  <2>1. q.ws = None /\ ~q.shellExited
    BY <1>1, <1>5
  <2>2. phaseOf(r) = "lost" /\ wireOf(r) = {}
    BY <1>2, <1>5, LostWithoutSocket
  <2>3. CASE lastState # "RUNNING"
    <3>1. retry(r) = scheduleReconnect(q)
      BY <1>3, <1>5, <2>3
    <3>2. Good(retry(r)) /\ Kept(q, retry(r))
      BY <1>1, <2>1, <3>1, Schedules
    <3> QED
      BY <1>1, <3>2 DEF Kept
  <2>4. CASE lastState = "RUNNING"
    <3>1. retry(r) = connect(q)
      BY <1>3, <1>5, <2>4
    <3> QED
      BY <1>1, <2>1, <2>2, <3>1, Connects DEF Reattached
  <2> QED
    BY <2>3, <2>4
<1> QED
  BY <1>4, <1>5

LEMMA Resumes ==
  ASSUME NEW r, Good(r)
  PROVE  Good(resumed(r)) /\ (Kept(r, resumed(r)) \/ Reattached(r, resumed(r)))
<1> DEFINE q == [r EXCEPT !.retryTimer = FALSE]
<1>1. /\ Held(q) /\ Kept(r, q) /\ q.ws = r.ws /\ q.listed = r.listed
      /\ q.shellExited = r.shellExited /\ q.skipped = r.skipped
  BY TimerOff DEF Good
<1>2. q.listed = ~r.userClosed /\ Held(r)
  BY <1>1 DEF Good, Held
<1>3. resumed(r) = IF r.ws = None /\ ~r.userClosed /\ ~r.shellExited THEN connect(q) ELSE q
  BY DEF resumed
<1> HIDE DEF q
<1>4. CASE ~(r.ws = None /\ ~r.userClosed /\ ~r.shellExited)
  BY Zenon, <1>1, <1>2, <1>3, <1>4 DEF Good
<1>5. CASE r.ws = None /\ ~r.userClosed /\ ~r.shellExited
  <2>1. q.ws = None /\ ~q.shellExited /\ resumed(r) = connect(q)
    BY <1>1, <1>3, <1>5
  <2>2. phaseOf(r) = "lost" /\ wireOf(r) = {}
    BY <1>2, <1>5, LostWithoutSocket
  <2> QED
    BY <1>1, <2>1, <2>2, Connects DEF Reattached
<1> QED
  BY <1>4, <1>5

\* The handlers of a socket find it to be the one the session holds.
LEMMA Opens ==
  ASSUME NEW r, Good(r), NEW k \in Sockets, r.socks[k] = "connecting"
  PROVE  Good(onopen(r, k)) /\ Kept(r, onopen(r, k))
<1> DEFINE s == onopen(r, k)
<1>1. r \in Internal /\ k = r.ws /\ r.listed /\ ~r.userClosed /\ k # None
  BY Zenon, TerminalAssumption DEF Good, Held
<1>2. s = [r EXCEPT !.socks[k] = "open", !.backoff = "min", !.status = "open"]
  BY DEF onopen
<1> HIDE DEF s
<1>3. s.socks = [r.socks EXCEPT ![k] = "open"] /\ r.socks \in [Sockets -> SocketStates]
  BY <1>1, <1>2 DEF Internal
<1>4. /\ s.socks \in [Sockets -> SocketStates]
      /\ s.socks[k] = "open" /\ \A j \in Sockets : j # k => s.socks[j] = r.socks[j]
  BY <1>3 DEF SocketStates
<1>5. /\ s.ws = r.ws /\ s.listed = r.listed /\ s.userClosed = r.userClosed
      /\ s.shellExited = r.shellExited
  BY Zenon, <1>1, <1>2 DEF Internal
<1>6. s \in Internal
  BY Zenon, <1>1, <1>2, <1>4 DEF Internal
<1>7. Good(s)
  BY Zenon, <1>1, <1>4, <1>5, <1>6 DEF Good, Held
<1>8. s # None /\ r # None
  BY <1>1, <1>6, NoneAssumption
<1>9. wireOf(s) = wireOf(r)
  BY <1>1, <1>4, <1>8 DEF wireOf, Good, Held
<1>10. phaseOf(s) = phaseOf(r)
  BY <1>5, <1>8 DEF phaseOf
<1> QED
  BY <1>7, <1>9, <1>10 DEF Kept, s

LEMMA Exits ==
  ASSUME NEW r, Good(r), NEW k \in Sockets, r.socks[k] = "open", ~r.shellExited,
         NEW s, s = [r EXCEPT !.shellExited = TRUE]
  PROVE  Good(s) /\ phaseOf(r) = "live" /\ phaseOf(s) = "ended" /\ wireOf(s) = wireOf(r)
<1>1. r \in Internal /\ k = r.ws /\ r.listed /\ k # None
  BY TerminalAssumption DEF Good, Held
<1>2. /\ s \in Internal /\ s.socks = r.socks /\ s.ws = r.ws /\ s.listed = r.listed
      /\ s.userClosed = r.userClosed /\ s.shellExited
  BY Zenon, <1>1 DEF Internal
<1>3. Good(s)
  BY Zenon, <1>2, SameSockets DEF Good
<1>4. r # None /\ s # None
  BY Zenon, <1>1, <1>2, NoneAssumption
<1> QED
  BY <1>1, <1>2, <1>3, <1>4 DEF phaseOf, wireOf

\* onclose: the session of a closed tab is forgotten, an exited one ends, a
\* lost one gets its timer.
LEMMA Closes ==
  ASSUME NEW r, Good(r), NEW k \in Sockets, r.socks[k] # "none",
         NEW s, s = onclose(r, k)
  PROVE  /\ s.listed = r.listed /\ s.ws = None
         /\ r.listed => Good(s) /\ wireOf(s) = {}
         /\ r.listed /\ r.shellExited => phaseOf(r) = "ended" /\ phaseOf(s) = "ended"
         /\ r.listed /\ ~r.shellExited => phaseOf(r) = "live" /\ phaseOf(s) = "lost"
<1> DEFINE q == [r EXCEPT !.socks[k] = "none"]
           p == [q EXCEPT !.ws = None]
           t == [p EXCEPT !.status = "closed"]
           u == [p EXCEPT !.status = "reconnecting"]
<1>1. /\ r \in Internal /\ k = r.ws /\ k # None /\ r.listed = ~r.userClosed
      /\ \A j \in Sockets : j # k => r.socks[j] = "none"
  BY TerminalAssumption DEF Good, Held
<1>2. s = IF r.userClosed THEN p ELSE IF r.shellExited THEN t ELSE scheduleReconnect(u)
  BY <1>1 DEF onclose
<1>3. /\ p.socks = [r.socks EXCEPT ![k] = "none"] /\ t.socks = p.socks /\ u.socks = p.socks
      /\ r.socks \in [Sockets -> SocketStates]
  BY <1>1 DEF Internal
<1>4. p.socks \in [Sockets -> SocketStates] /\ \A j \in Sockets : p.socks[j] = "none"
  BY <1>1, <1>3 DEF SocketStates
<1>5. /\ p.ws = None /\ p.listed = r.listed
      /\ t.ws = None /\ t.listed = r.listed /\ t.userClosed = r.userClosed
      /\ u.ws = None /\ u.listed = r.listed /\ u.userClosed = r.userClosed
      /\ t.shellExited = r.shellExited /\ u.shellExited = r.shellExited
  BY <1>1 DEF Internal
<1>6. t \in Internal /\ u \in Internal
  BY Zenon, <1>1, <1>4 DEF Internal
<1>7. r # None
  BY <1>1, NoneAssumption
<1> HIDE DEF p, t, u
<1>8. CASE r.userClosed
  BY Zenon, <1>1, <1>2, <1>5, <1>8
<1>9. CASE ~r.userClosed /\ r.shellExited
  <2>1. s = t /\ r.listed
    BY Zenon, <1>1, <1>2, <1>9
  <2>2. Good(t)
    BY Zenon, <1>1, <1>3, <1>4, <1>5, <1>6, <1>9 DEF Good, Held
  <2>3. t # None
    BY <1>6, NoneAssumption
  <2>4. wireOf(t) = {} /\ phaseOf(t) = "ended" /\ phaseOf(r) = "ended"
    BY <1>3, <1>4, <1>5, <1>7, <1>9, <2>1, <2>3 DEF wireOf, phaseOf
  <2> QED
    BY Zenon, <1>5, <1>9, <2>1, <2>2, <2>4
<1>10. CASE ~r.userClosed /\ ~r.shellExited
  <2>1. s = scheduleReconnect(u) /\ r.listed
    BY Zenon, <1>1, <1>2, <1>10
  <2>2. Held(u) /\ u.ws = None /\ ~u.shellExited
    BY Zenon, <1>1, <1>3, <1>4, <1>5, <1>6, <1>10 DEF Held
  <2>3. Good(s) /\ Kept(u, s) /\ s.listed = u.listed /\ s.ws = None
    BY <2>1, <2>2, Schedules
  <2>4. phaseOf(u) = "lost" /\ wireOf(u) = {}
    BY <2>2, LostWithoutSocket
  <2>5. phaseOf(r) = "live"
    BY <1>1, <1>7, <1>10, <2>1 DEF phaseOf
  <2> QED
    BY Zenon, <1>5, <1>10, <2>1, <2>2, <2>3, <2>4, <2>5 DEF Kept
<1> QED
  BY <1>8, <1>9, <1>10

\* close leaves nothing of a session, or the socket it hangs up.
LEMMA Hangs ==
  ASSUME NEW r, Good(r), r.listed
  PROVE  (closed(r) # None => Good(closed(r))) /\ Discarded(r, closed(r))
<1> DEFINE s == closed(r)
<1>1. CASE r.ws = None
  BY <1>1 DEF closed, Discarded, phaseOf, wireOf
<1>2. CASE r.ws # None
  <2>1. /\ r \in Internal /\ r.ws \in Sockets /\ r.socks[r.ws] # "none"
        /\ \A j \in Sockets : j # r.ws => r.socks[j] = "none"
    BY <1>2 DEF Good, Held, Internal
  <2>2. s = [r EXCEPT !.userClosed = TRUE, !.retryTimer = FALSE, !.listed = FALSE,
                      !.socks[r.ws] = "closing"]
    BY <1>2 DEF closed
  <2> HIDE DEF s
  <2>3. s.socks = [r.socks EXCEPT ![r.ws] = "closing"] /\ r.socks \in [Sockets -> SocketStates]
    BY <2>1, <2>2 DEF Internal
  <2>4. /\ s.socks \in [Sockets -> SocketStates] /\ s.socks[r.ws] = "closing"
        /\ \A j \in Sockets : j # r.ws => s.socks[j] = "none"
    BY <2>1, <2>3 DEF SocketStates
  <2>5. s.ws = r.ws /\ s.listed = FALSE /\ s.userClosed = TRUE
    BY <2>1, <2>2 DEF Internal
  <2>6. s \in Internal
    BY Zenon, <2>1, <2>2, <2>4 DEF Internal
  <2>7. Good(s)
    BY Zenon, <1>2, <2>4, <2>5, <2>6 DEF Good, Held
  <2>8. s # None /\ r # None
    BY <2>1, <2>6, NoneAssumption
  <2>9. phaseOf(s) = "absent" /\ wireOf(s) \subseteq wireOf(r)
    BY <2>1, <2>4, <2>5, <2>8 DEF phaseOf, wireOf
  <2> QED
    BY <2>7, <2>9 DEF Discarded, s
<1> QED
  BY <1>1, <1>2

-----------------------------------------------------------------------------
\* A step of one session.
LEMMA OneMoved ==
  ASSUME Inv, NEW i \in Sessions, NEW s, s # None => Good(s),
         Together(sess[i], s) \/ Alone(sess[i], s)
  PROVE  Moved([sess EXCEPT ![i] = s])
<1> DEFINE f == [sess EXCEPT ![i] = s]
<1>1. s \in Internal \cup {None}
  BY DEF Good, Held
<1>2. /\ f \in [Sessions -> Internal \cup {None}] /\ f[i] = s
      /\ \A j \in Sessions \ {i} : f[j] = sess[j]
  BY <1>1 DEF Inv
<1> HIDE DEF f
<1>3. \A j \in Sessions : f[j] # None => Good(f[j])
  BY <1>2 DEF Inv, Live
<1>4. CASE Alone(sess[i], s)
  BY <1>2, <1>3, <1>4 DEF Moved, f
<1>5. CASE Together(sess[i], s)
  <2>1. \A j \in Sessions : Together(sess[j], f[j])
    BY <1>2, <1>5 DEF Together, Kept
  <2> QED
    BY <1>2, <1>3, <2>1 DEF Moved, f
<1> QED
  BY <1>4, <1>5

\* A kill, a sign-out or a 401 hangs up every listed session.
LEMMA AllHang ==
  ASSUME Inv
  PROVE  Moved(disposeSandbox)
<1> DEFINE f == disposeSandbox
<1>1. \A i \in Sessions : f[i] = IF i \in Listed THEN closed(sess[i]) ELSE sess[i]
  BY DEF disposeSandbox
<1>2. ASSUME NEW i \in Sessions
      PROVE  /\ f[i] # None => Good(f[i])
             /\ f[i] \in Internal \cup {None} /\ Together(sess[i], f[i])
  <2>1. CASE i \in Listed
    <3>1. Good(sess[i]) /\ sess[i].listed /\ f[i] = closed(sess[i])
      BY <1>1, <2>1 DEF Inv, Listed
    <3>2. (f[i] # None => Good(f[i])) /\ Discarded(sess[i], f[i])
      BY <3>1, Hangs
    <3> QED
      BY <3>2 DEF Good, Held, Together
  <2>2. CASE i \notin Listed
    BY <1>1, <2>2 DEF Inv, Live, Together, Kept
  <2> QED
    BY <2>1, <2>2
<1>3. f = [i \in Sessions |-> f[i]]
  BY DEF disposeSandbox
<1> HIDE DEF f
<1>4. f \in [Sessions -> Internal \cup {None}]
  BY <1>2, <1>3
<1> QED
  BY <1>2, <1>4 DEF Moved, f

\* The row reported to noteState puts lost sessions back, and leaves the rest.
LEMMA NoteMoved ==
  ASSUME Inv, NEW st, noteState(st)
  PROVE  Moved(sess')
<1> DEFINE f == [i \in Sessions |-> IF i \in Listed THEN resumed(sess[i]) ELSE sess[i]]
<1>1. CASE sess' = sess
  BY <1>1 DEF Moved, Inv, Live, Together, Kept
<1>2. CASE sess' = f
  <2>1. ASSUME NEW i \in Sessions
        PROVE  /\ f[i] # None => Good(f[i])
               /\ f[i] \in Internal \cup {None} /\ Together(sess[i], f[i])
    <3>1. CASE i \in Listed
      <4>1. Good(sess[i]) /\ f[i] = resumed(sess[i])
        BY <3>1 DEF Inv, Listed
      <4>2. Good(f[i]) /\ (Kept(sess[i], f[i]) \/ Reattached(sess[i], f[i]))
        BY <4>1, Resumes
      <4> QED
        BY <4>2 DEF Good, Held, Together
    <3>2. CASE i \notin Listed
      BY <3>2 DEF Inv, Live, Together, Kept
    <3> QED
      BY <3>1, <3>2
  <2>2. f \in [Sessions -> Internal \cup {None}]
    BY <2>1
  <2> HIDE DEF f
  <2> QED
    BY <1>2, <2>1, <2>2 DEF Moved
<1> QED
  BY <1>1, <1>2 DEF noteState

\* The + button, or the first visit of the tab.
LEMMA OpenMoved ==
  ASSUME Inv, NEW i \in Sessions, open(i)
  PROVE  Moved(sess')
<1>1. /\ newSession \in Internal /\ newSession.ws = None /\ newSession.listed = TRUE
      /\ newSession.userClosed = FALSE /\ newSession.shellExited = FALSE
      /\ \A k \in Sockets : newSession.socks[k] = "none"
  BY DEF newSession, Internal, SocketStates
<1>2. Held(newSession)
  BY Zenon, <1>1 DEF Held
<1>3. Good(connect(newSession)) /\ Attached(connect(newSession))
  BY <1>1, <1>2, Connects
<1>4. Alone(None, connect(newSession))
  BY <1>3 DEF Alone, phaseOf, wireOf
<1> QED
  BY Zenon, <1>3, <1>4, OneMoved DEF open, Set

\* "Restart session" of an exited one.
LEMMA RestartMoved ==
  ASSUME Inv, NEW i \in Sessions, Restart(i)
  PROVE  Moved(sess')
<1> DEFINE r == sess[i]
           q == [r EXCEPT !.shellExited = FALSE, !.backoff = "min"]
<1>1. i \in Listed /\ r.ws = None /\ r.shellExited /\ sess' = [sess EXCEPT ![i] = connect(q)]
  BY DEF Restart, Set
<1>2. Held(r) /\ r \in Internal
  BY <1>1 DEF Inv, Listed, Good, Held
<1>3. /\ q \in Internal /\ q.socks = r.socks /\ q.ws = r.ws /\ q.listed = r.listed
      /\ q.userClosed = r.userClosed /\ ~q.shellExited
  BY Zenon, <1>2 DEF Internal
<1>4. r # None /\ r.listed /\ wireOf(r) = {}
  BY <1>1, <1>2, NoWire DEF Listed, Live
<1>5. phaseOf(r) = "ended"
  BY <1>1, <1>4 DEF phaseOf
<1> HIDE DEF q
<1>6. Held(q)
  BY <1>2, <1>3, SameSockets
<1>7. Good(connect(q)) /\ Attached(connect(q))
  BY <1>1, <1>3, <1>6, Connects
<1> QED
  BY Zenon, <1>1, <1>4, <1>5, <1>7, OneMoved DEF Alone

\* A socket closes under its session.
LEMMA SocketClosedMoved ==
  ASSUME Inv, NEW i \in Sessions, NEW k \in Sockets, SocketClosed(i, k)
  PROVE  Moved(sess')
<1> DEFINE r == sess[i]
           s == onclose(r, k)
<1>1. /\ r # None /\ Good(r) /\ r.socks[k] # "none"
      /\ sess' = [sess EXCEPT ![i] = IF ~s.listed /\ s.ws = None THEN None ELSE s]
  BY DEF SocketClosed, Set, Inv, Live
<1>2. /\ s.listed = r.listed /\ s.ws = None
      /\ r.listed => Good(s) /\ wireOf(s) = {}
      /\ r.listed /\ r.shellExited => phaseOf(r) = "ended" /\ phaseOf(s) = "ended"
      /\ r.listed /\ ~r.shellExited => phaseOf(r) = "live" /\ phaseOf(s) = "lost"
  BY <1>1, Closes
<1> HIDE DEF s
<1>3. CASE r.listed
  <2>1. sess' = [sess EXCEPT ![i] = s] /\ Good(s)
    BY <1>1, <1>2, <1>3
  <2>2. Alone(r, s)
    BY <1>2, <1>3 DEF Alone
  <2> QED
    BY Zenon, <2>1, <2>2, OneMoved
<1>4. CASE ~r.listed
  <2>1. sess' = [sess EXCEPT ![i] = None]
    BY <1>1, <1>2, <1>4
  <2>2. Alone(r, None)
    BY <1>1, <1>4 DEF Alone, phaseOf, wireOf
  <2> QED
    BY Zenon, <2>1, <2>2, OneMoved
<1> QED
  BY <1>3, <1>4

\* Every action moves the sessions as ShellSession allows.
LEMMA NextMoved ==
  ASSUME Inv, [Next]_vars
  PROVE  Moved(sess')
<1>1. CASE UNCHANGED sess
  BY <1>1 DEF Moved, Inv, Live, Together, Kept
<1>2. ASSUME NEW i \in Sessions, AutoOpen(i) \/ NewShell(i) PROVE Moved(sess')
  BY <1>2, OpenMoved DEF AutoOpen, NewShell
<1>3. ASSUME NEW i \in Sessions, Restart(i) PROVE Moved(sess')
  BY <1>3, RestartMoved
<1>4. ASSUME NEW i \in Sessions, Close(i) PROVE Moved(sess')
  <2>1. Good(sess[i]) /\ sess[i].listed
    BY <1>4 DEF Close, Listed, Inv
  <2>2. (closed(sess[i]) # None => Good(closed(sess[i]))) /\ Together(sess[i], closed(sess[i]))
    BY <2>1, Hangs DEF Together
  <2> QED
    BY Zenon, <1>4, <2>2, OneMoved DEF Close, Set
<1>5. ASSUME NEW i \in Sessions, RetryTimer(i) PROVE Moved(sess')
  <2>1. Good(sess[i])
    BY <1>5 DEF RetryTimer, Inv
  <2>2. Good(retry(sess[i])) /\ Together(sess[i], retry(sess[i]))
    BY <2>1, Retries DEF Together
  <2> QED
    BY Zenon, <1>5, <2>2, OneMoved DEF RetryTimer, Set
<1>6. ASSUME NEW i \in Sessions, NEW k \in Sockets, Accepted(i, k) PROVE Moved(sess')
  <2>1. Good(sess[i]) /\ sess[i].socks[k] = "connecting"
    BY <1>6 DEF Accepted, Inv
  <2>2. Good(onopen(sess[i], k)) /\ Together(sess[i], onopen(sess[i], k))
    BY <2>1, Opens DEF Together
  <2> QED
    BY Zenon, <1>6, <2>2, OneMoved DEF Accepted, Set
<1>7. ASSUME NEW i \in Sessions, NEW k \in Sockets, ExitFrame(i, k) PROVE Moved(sess')
  <2> DEFINE s == [sess[i] EXCEPT !.shellExited = TRUE]
  <2>1. Good(sess[i]) /\ sess[i].socks[k] = "open" /\ ~sess[i].shellExited
    BY <1>7 DEF ExitFrame, Inv
  <2>2. /\ Good(s) /\ phaseOf(sess[i]) = "live" /\ phaseOf(s) = "ended"
        /\ wireOf(s) = wireOf(sess[i])
    BY <2>1, Exits
  <2>3. sess' = [sess EXCEPT ![i] = s]
    BY <1>7 DEF ExitFrame, Set
  <2> HIDE DEF s
  <2> QED
    BY Zenon, <2>2, <2>3, OneMoved DEF Alone
<1>8. ASSUME NEW i \in Sessions, NEW k \in Sockets, SocketClosed(i, k) PROVE Moved(sess')
  BY <1>8, SocketClosedMoved
<1>9. ASSUME NEW st \in States, RowChanges(st) PROVE Moved(sess')
  BY <1>9, NoteMoved DEF RowChanges
<1>10. ASSUME NEW v \in Views, Visit(v) \/ Login(v) PROVE Moved(sess')
  <2>1. Shown(v)
    BY <1>10 DEF Visit, Login
  <2>2. sess' = sess \/ noteState(row')
    BY <2>1 DEF Shown
  <2> QED
    BY <1>1, <2>2, NoteMoved
<1>11. CASE KillAnswered \/ SignOut \/ Unauthorized
  BY <1>11, AllHang DEF KillAnswered, SignOut, Unauthorized
<1>12. CASE Kill \/ KillServed \/ KillFails \/ Leave \/ OtherTab \/ World \/ UNCHANGED vars
  BY <1>1, <1>12 DEF Kill, KillServed, KillFails, Leave, OtherTab, World, vars
<1> QED
  BY <1>2, <1>3, <1>4, <1>5, <1>6, <1>7, <1>8, <1>9, <1>10, <1>11, <1>12 DEF Next, Socket

LEMMA AlwaysInv == Spec => []Inv
<1>1. Init => Inv
  BY DEF Init, Inv, Live
<1>2. Inv /\ [Next]_vars => Inv'
  BY NextMoved DEF Moved, Inv, Live
<1> QED
  BY <1>1, <1>2, PTL DEF Spec

\* Whatever closes, timers, resumes, kills and sign-outs interleave, no
\* session holds two WebSockets (connect, onclose, restart, noteState).
THEOREM SocketsExclusive == Spec => []OneSocket
<1>1. Inv => OneSocket
  BY DEF Inv, Good, Held, OneSocket
<1> QED
  BY <1>1, AlwaysInv, PTL

\* Nor is a listed session ever left without a socket and without a timer
\* (scheduleReconnect, the retry callback, noteState).
THEOREM NeverStranded == Spec => []NotStranded
<1>1. Inv => NotStranded
  BY DEF Inv, Good, Listed, NotStranded
<1> QED
  BY <1>1, AlwaysInv, PTL

\* A step of the sessions is a step of ShellSession, or none of its.
LEMMA MovedRefines ==
  ASSUME Moved(sess')
  PROVE  Promise!Next
<1>1. \A i \in Sessions : phaseOf(sess'[i]) \in Promise!Phases /\ wireOf(sess'[i]) \in SUBSET Sockets
  BY DEF phaseOf, wireOf, Promise!Phases
<1>2. CASE \A i \in Sessions : Together(sess[i], sess'[i])
  <2>1. \A i \in Sessions : Promise!Reattach(i) \/ Promise!Discard(i) \/ Promise!Keep(i)
    BY <1>2 DEF Together, Kept, Discarded, Reattached, Attached,
                Promise!Reattach, Promise!Discard, Promise!Keep, Promise!Attach
  <2> QED
    BY <1>1, <2>1 DEF Promise!Next
<1>3. ASSUME NEW i \in Sessions, Alone(sess[i], sess'[i]),
             \A j \in Sessions \ {i} : sess'[j] = sess[j]
      PROVE  Promise!Next
  <2>1. Promise!Start(i) \/ Promise!Restart(i) \/ Promise!Drop(i) \/ Promise!End(i) \/ Promise!HangUp(i)
    BY <1>3 DEF Alone, Attached, Promise!Start, Promise!Restart, Promise!Drop, Promise!End,
                Promise!HangUp, Promise!Attach
  <2>2. \A j \in Sessions \ {i} : Promise!Keep(j)
    BY <1>3 DEF Promise!Keep
  <2> QED
    BY <1>1, <2>1, <2>2 DEF Promise!Next
<1> QED
  BY <1>2, <1>3 DEF Moved

\* TermManager implements ShellSession: each handler is a step of it or
\* changes nothing it speaks of.
THEOREM PromiseKept == Spec => KeepsPromise
<1>1. Init => Promise!Init
  BY DEF Init, Promise!Init, phaseOf, wireOf
<1>2. Inv /\ [Next]_vars => Promise!Next
  BY NextMoved, MovedRefines
<1> QED
  BY <1>1, <1>2, AlwaysInv, PTL DEF Spec, KeepsPromise, Promise!Spec

-----------------------------------------------------------------------------
\* What TypeOK says beyond Inv.
Page ==
  /\ lastState \in States \cup {None} /\ row \in States \cup {None}
  /\ token \in BOOLEAN /\ leaving \in BOOLEAN /\ net \in BOOLEAN
  /\ view \in Views /\ kill \in {"no", "sent", "served"} /\ server \in States

LEMMA NextPage ==
  ASSUME Page, [Next]_vars
  PROVE  Page'
<1>1. CASE UNCHANGED <<lastState, ui, world>>
  BY <1>1 DEF ui, world, Page
<1>2. ASSUME NEW i \in Sessions, AutoOpen(i) \/ NewShell(i) \/ Restart(i) \/ Close(i) \/ RetryTimer(i)
      PROVE  Page'
  BY Zenon, <1>1, <1>2 DEF AutoOpen, NewShell, Restart, Close, RetryTimer
<1>3. ASSUME NEW i \in Sessions, Socket(i) PROVE Page'
  BY Zenon, <1>1, <1>3 DEF Socket, Accepted, ExitFrame, SocketClosed
<1>4. ASSUME NEW s \in States, RowChanges(s) PROVE Page'
  BY <1>4 DEF RowChanges, noteState, world, Page
<1>5. ASSUME NEW v \in Views, Shown(v)
      PROVE  lastState' \in States \cup {None} /\ row' \in States \cup {None} /\ view' \in Views
  BY <1>5 DEF Shown, noteState, Page
<1>6. ASSUME NEW v \in Views, Visit(v) PROVE Page'
  BY <1>5, <1>6 DEF Visit, world, Page
<1>7. ASSUME NEW v \in Views, Login(v) PROVE Page'
  BY <1>5, <1>7 DEF Login, world, Page
<1>8. CASE Kill \/ KillServed \/ KillAnswered \/ KillFails \/ Leave
  <2>1. lastState' \in {lastState, None} /\ view' \in {view, "away"} /\ server' \in {server, "OTHER"}
    BY <1>8 DEF Kill, KillServed, KillAnswered, KillFails, Leave, ui, world
  <2>2. UNCHANGED <<row, token, net>> /\ kill' \in {kill, "sent", "served", "no"}
    BY <1>8 DEF Kill, KillServed, KillAnswered, KillFails, Leave, ui, world
  <2>3. leaving' = leaving \/ leaving' = FALSE \/ leaving' = (view \in {"terminal", "other"})
    BY <1>8 DEF Kill, KillServed, KillAnswered, KillFails, Leave, InWorkspace, ui
  <2>4. leaving' \in BOOLEAN
    <3>1. CASE leaving' = (view \in {"terminal", "other"})
      BY <3>1
    <3>2. CASE leaving' = leaving \/ leaving' = FALSE
      BY Zenon, <3>2 DEF Page
    <3> QED
      BY Zenon, <2>3, <3>1, <3>2
  <2> QED
    BY <2>1, <2>2, <2>4 DEF Page, Views, States
<1>9. CASE SignOut \/ Unauthorized \/ OtherTab \/ World
  BY Zenon, <1>9 DEF SignOut, Unauthorized, OtherTab, World, ui, world, Page, Views
<1>10. CASE UNCHANGED vars
  BY <1>1, <1>10 DEF vars
<1> QED
  BY <1>2, <1>3, <1>4, <1>6, <1>7, <1>8, <1>9, <1>10 DEF Next

\* The sessions and the page around them keep their types through every
\* handler (TermSession of term.ts, the routes and the token of App.tsx).
THEOREM TypesKept == Spec => []TypeOK
<1>1. Init => Page
  BY Zenon DEF Init, Page, States, Views
<1>2. Page /\ [Next]_vars => Page'
  BY NextPage
<1>3. Inv /\ Page => TypeOK
  BY DEF Inv, Page, TypeOK
<1> QED
  BY <1>1, <1>2, <1>3, AlwaysInv, PTL DEF Spec
=============================================================================
