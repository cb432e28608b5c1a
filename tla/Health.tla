-------------------------------- MODULE Health --------------------------------
(***************************************************************************)
(* The health poller of the console (lib/health.ts) for one sandbox id:    *)
(* entries that outlive the components subscribed to them, an interval and *)
(* a collection timer for each, the reset on a 401, and what the pill of   *)
(* the header and the gauges of the overview tab show of it.  An entry     *)
(* object out of the map is still held by the closures of its subscribers, *)
(* of its timers and of its requests.                                      *)
(***************************************************************************)
EXTENDS Naturals, FiniteSets

CONSTANTS Entries,      \* bound: entry objects alive at once
          CAPACITY,
          None          \* no entry

ASSUME HealthAssumption == CAPACITY \in Nat \ {0} /\ None \notin Entries

VARIABLES
  entry,     \* entries.get(id)
  ent,       \* the entry objects
  sub,       \* the entry each component is subscribed to
  authed,    \* App renders the pages
  hidden,    \* document.hidden
  up,        \* the API answers
  running,   \* sb.state === "RUNNING"
  lapsed     \* ghost: the collection of a reset entry removed a newer one

vars == <<entry, ent, sub, authed, hidden, up, running, lapsed>>

\* The components that call useSandboxHealth(id); the panel beside the gauges
\* does what they do.
Views == {"pill", "gauges"}

\* A timer field is null, set, or the handle of a timer that was cleared.
Timer == {"null", "set", "cleared"}
\* samples is their number, latest whether the last was of a running guest.
Blank == [listeners |-> {}, timer |-> "null", gcTimer |-> "null", inFlight |-> FALSE,
          requests |-> 0, samples |-> 0, latest |-> FALSE, unreachable |-> FALSE]

\* An entry nothing refers to is blank again.
Held(m, e, r) == \/ m = e \/ r.listeners # {} \/ r.requests > 0
                 \/ r.timer = "set" \/ r.gcTimer = "set"
Keep(m, e, r) == IF Held(m, e, r) THEN r ELSE Blank
Put(e, r) == ent' = [ent EXCEPT ![e] = Keep(entry', e, r)]

\* Mutant: every subscriber makes an entry of its own.
entryForEach == CHOOSE e \in Entries : e # entry \/ Cardinality(Entries) = 1

entryFor == IF entry # None THEN entry
            ELSE CHOOSE e \in Entries : ~Held(entry, e, ent[e])

-----------------------------------------------------------------------------
\* Mutant: a slow answer does not hold back the next poll.
pollAnyway(r) == IF hidden THEN r ELSE [r EXCEPT !.inFlight = TRUE, !.requests = @ + 1]

\* poll up to its await.
poll(r) == IF r.inFlight \/ hidden THEN r
           ELSE [r EXCEPT !.inFlight = TRUE, !.requests = @ + 1]

\* slice and push.
sampled(r) == [r EXCEPT !.samples = IF @ >= CAPACITY THEN CAPACITY ELSE @ + 1,
                        !.latest = running, !.unreachable = FALSE]

Subscribe(v) ==
  /\ authed /\ sub[v] = None
  /\ entry # None \/ \E e \in Entries : ~Held(entry, e, ent[e])
  /\ LET e == entryFor
         r == [ent[e] EXCEPT !.listeners = @ \cup {v}, !.gcTimer = "null"]
     IN /\ entry' = e
        /\ sub' = [sub EXCEPT ![v] = e]
        /\ Put(e, IF r.timer = "null" THEN [poll(r) EXCEPT !.timer = "set"] ELSE r)
  /\ UNCHANGED <<authed, hidden, up, running, lapsed>>

\* Mutant: clearInterval, but the handle stays in e.timer.
UnsubscribeKeepsHandle(v) ==
  /\ sub[v] # None
  /\ LET r == [ent[sub[v]] EXCEPT !.listeners = @ \ {v}]
     IN /\ UNCHANGED entry
        /\ Put(sub[v], IF r.listeners # {} THEN r
                       ELSE [r EXCEPT !.timer = "cleared", !.gcTimer = "set"])
  /\ sub' = [sub EXCEPT ![v] = None]
  /\ UNCHANGED <<authed, hidden, up, running, lapsed>>

\* The cleanup subscribe returned, when the component unmounts.
Unsubscribe(v) ==
  /\ sub[v] # None
  /\ LET r == [ent[sub[v]] EXCEPT !.listeners = @ \ {v}]
     IN /\ UNCHANGED entry
        /\ Put(sub[v], IF r.listeners # {} THEN r
                       ELSE [r EXCEPT !.timer = "null", !.gcTimer = "set"])
  /\ sub' = [sub EXCEPT ![v] = None]
  /\ UNCHANGED <<authed, hidden, up, running, lapsed>>

Tick(e) ==
  /\ ent[e].timer = "set"
  /\ ent' = [ent EXCEPT ![e] = poll(@)]
  /\ UNCHANGED <<entry, sub, authed, hidden, up, running, lapsed>>

\* Mutant: inFlight is only reset when the poll succeeded.
AnsweredNoFinally(e) ==
  /\ ent[e].requests > 0 /\ UNCHANGED entry
  /\ Put(e, IF up THEN [sampled(ent[e]) EXCEPT !.inFlight = FALSE, !.requests = @ - 1]
            ELSE [ent[e] EXCEPT !.unreachable = TRUE, !.requests = @ - 1])
  /\ UNCHANGED <<sub, authed, hidden, up, running, lapsed>>

\* The rest of poll.
Answered(e) ==
  /\ ent[e].requests > 0 /\ UNCHANGED entry
  /\ LET r == IF up THEN sampled(ent[e]) ELSE [ent[e] EXCEPT !.unreachable = TRUE]
     IN Put(e, [r EXCEPT !.inFlight = FALSE, !.requests = @ - 1])
  /\ UNCHANGED <<sub, authed, hidden, up, running, lapsed>>

\* GC_AFTER_MS after the last subscriber left.
Collect(e) ==
  /\ ent[e].gcTimer = "set"
  /\ entry' = IF ent[e].listeners = {} THEN None ELSE entry
  /\ lapsed' = (lapsed \/ (entry' # entry /\ entry # e))
  /\ ent' = [x \in Entries |-> Keep(entry', x, IF x = e THEN [ent[x] EXCEPT !.gcTimer = "null"]
                                               ELSE ent[x])]
  /\ UNCHANGED <<sub, authed, hidden, up, running>>

-----------------------------------------------------------------------------
\* What a component reads: the map's entry, whichever one it subscribed to.
useSandboxHealth == IF entry = None THEN Blank ELSE ent[entry]

HealthPill(h) ==
  CASE ~running      -> "hidden"
    [] h.unreachable -> "unreachable"
    [] h.latest      -> "value"
    [] OTHER         -> "hidden"

\* The last value stays on the gauges while the guest is unreachable.
Gauges(h) ==
  CASE ~running      -> "not running"
    [] h.latest      -> "value"
    [] h.unreachable -> "unreachable"
    [] OTHER         -> "waiting"

Shows(v) == IF v = "pill" THEN HealthPill(useSandboxHealth) ELSE Gauges(useSandboxHealth)

-----------------------------------------------------------------------------
Cleared(t) == IF t = "set" THEN "cleared" ELSE t

\* A 401: the event resetHealthStore listens for, and App, whose pages then
\* unmount.
Unauthorized ==
  /\ authed /\ authed' = FALSE
  /\ entry' = None
  /\ ent' = [e \in Entries |->
               IF e # entry THEN ent[e]
               ELSE Keep(None, e, [ent[e] EXCEPT !.timer = Cleared(@), !.gcTimer = Cleared(@)])]
  /\ UNCHANGED <<sub, hidden, up, running, lapsed>>

\* The sidebar's sign-out does not reset the store.
SignOut == /\ authed /\ authed' = FALSE
           /\ UNCHANGED <<entry, ent, sub, hidden, up, running, lapsed>>

Login == /\ ~authed /\ \A v \in Views : sub[v] = None
         /\ authed' = TRUE
         /\ UNCHANGED <<entry, ent, sub, hidden, up, running, lapsed>>

Environment ==
  /\ \/ hidden' = ~hidden /\ UNCHANGED <<up, running>>
     \/ up' = ~up /\ UNCHANGED <<hidden, running>>
     \/ running' = ~running /\ UNCHANGED <<hidden, up>>
  /\ UNCHANGED <<entry, ent, sub, authed, lapsed>>

Init ==
  /\ entry = None /\ ent = [e \in Entries |-> Blank] /\ sub = [v \in Views |-> None]
  /\ authed = TRUE /\ hidden = FALSE /\ up = TRUE /\ running = TRUE /\ lapsed = FALSE

Next ==
  \/ \E v \in Views : Subscribe(v) \/ Unsubscribe(v)
  \/ \E e \in Entries : Tick(e) \/ Answered(e) \/ Collect(e)
  \/ Unauthorized \/ SignOut \/ Login \/ Environment

\* The interval fires and a request is answered or fails.
Spec == Init /\ [][Next]_vars
        /\ \A e \in Entries : WF_vars(Tick(e)) /\ WF_vars(Answered(e))

-----------------------------------------------------------------------------
\* An interval runs exactly as long as someone watches: an abandoned sandbox
\* is not polled, and no component of a signed-in console watches an entry
\* that stopped polling.
PollsWhileWatched ==
  \A e \in Entries : /\ ent[e].timer = "set" => ent[e].listeners # {}
                     /\ authed /\ ent[e].listeners # {} => ent[e].timer = "set"

\* No two polls of an entry overlap, so samples are in the order they were
\* taken, and the ring keeps to its capacity.
FeedOrdered ==
  \A e \in Entries : ent[e].requests <= 1 /\ ent[e].samples <= CAPACITY

\* Components that watch the sandbox share one feed, the one whose snapshot
\* they render; an entry collected late, after a 401, is the exception.
OneFeed == authed /\ ~lapsed => \A v \in Views : sub[v] \in {None, entry}

\* Once the guest runs, the API answers and the page is visible for good, a
\* pill or gauge mounted on the map's entry comes to show a live value and
\* keeps it: neither a failed poll, nor a pause, nor a session that ended in
\* between leaves it blank or on "guest unreachable".  One whose entry a late
\* collection took out of the map (lapsed) stays blank until one is mounted
\* anew, which recovers whatever came before.
Recovers ==
  \A v \in Views :
    <>[](up /\ running /\ ~hidden /\ authed /\ sub[v] # None /\ sub[v] = entry)
      => <>[](Shows(v) = "value")
=============================================================================
