----------------------------- MODULE Health_proofs -----------------------------
(***************************************************************************)
(* The health poller for any number of entry objects and any CAPACITY: an  *)
(* interval runs exactly while someone watches, polls of an entry do not   *)
(* overlap, and the components of a signed-in console share one feed.      *)
(*                                                                         *)
(* A handler replaces one entry object by another, so the lemmas say that  *)
(* each replacement leaves a good object with the listeners it should have *)
(* and the theorems only look at who listens to which.                     *)
(***************************************************************************)
EXTENDS Health, TLAPS

Object == [listeners : SUBSET Views, timer : Timer, gcTimer : Timer,
           inFlight : BOOLEAN, requests : Nat, samples : Nat,
           latest : BOOLEAN, unreachable : BOOLEAN]

\* An entry object between two callbacks: the flag inFlight counts its one
\* request, the ring is within its capacity, and the timer field is null
\* exactly when nobody listens.
Counted(r) ==
  /\ r \in Object
  /\ r.requests = IF r.inFlight THEN 1 ELSE 0
  /\ r.samples <= CAPACITY
Good(r) == Counted(r) /\ (r.timer = "null" <=> r.listeners = {})

\* Who is subscribed is who the objects list; an object nothing refers to is
\* blank; only the reset of a 401 leaves listeners on a cleared interval, on an
\* object that is out of the map of a console nobody is signed in to.
Inv ==
  /\ entry \in Entries \cup {None}
  /\ ent \in [Entries -> Object]
  /\ sub \in [Views -> Entries \cup {None}]
  /\ authed \in BOOLEAN /\ hidden \in BOOLEAN /\ up \in BOOLEAN
  /\ running \in BOOLEAN /\ lapsed \in BOOLEAN
  /\ \A e \in Entries :
       /\ Good(ent[e])
       /\ \A v \in Views : v \in ent[e].listeners <=> sub[v] = e
       /\ ~Held(entry, e, ent[e]) => ent[e] = Blank
       /\ authed \/ e = entry => ent[e].timer # "cleared"
  /\ OneFeed

-----------------------------------------------------------------------------
LEMMA BlankGood == Good(Blank)
BY HealthAssumption DEF Good, Counted, Object, Blank, Timer

\* Forgetting an object nothing refers to loses neither listeners nor interval.
LEMMA KeepGood ==
  ASSUME NEW m, NEW e, NEW r, Good(r)
  PROVE  /\ Good(Keep(m, e, r))
         /\ Keep(m, e, r).listeners = r.listeners
         /\ Keep(m, e, r).timer = r.timer
         /\ ~Held(m, e, Keep(m, e, r)) => Keep(m, e, r) = Blank
<1>1. CASE Held(m, e, r)
  BY <1>1 DEF Keep
<1>2. CASE ~Held(m, e, r)
  <2>1. Keep(m, e, r) = Blank
    BY <1>2 DEF Keep
  <2>2. r.listeners = {} /\ r.timer = "null"
    BY <1>2 DEF Held, Good
  <2>3. Blank.listeners = {} /\ Blank.timer = "null"
    BY DEF Blank
  <2> QED
    BY <2>1, <2>2, <2>3, BlankGood
<1> QED
  BY <1>1, <1>2

\* poll starts a request only when none is in flight, and changes no more.
LEMMA PollCounted ==
  ASSUME NEW r, Counted(r)
  PROVE  /\ Counted(poll(r))
         /\ poll(r).listeners = r.listeners /\ poll(r).timer = r.timer
<1> DEFINE q == [r EXCEPT !.inFlight = TRUE, !.requests = r.requests + 1]
<1>1. CASE r.inFlight \/ hidden
  BY <1>1 DEF poll
<1>2. CASE ~(r.inFlight \/ hidden)
  <2>1. poll(r) = q
    BY <1>2 DEF poll
  <2>2. r \in Object /\ r.requests = 0 /\ r.samples <= CAPACITY
    BY <1>2 DEF Counted
  <2>3. /\ q.inFlight = TRUE /\ q.requests = 1 /\ q.samples = r.samples
        /\ q.listeners = r.listeners /\ q.timer = r.timer
    BY <2>2 DEF Object
  <2>4. q \in Object
    <3>1. r.requests + 1 \in Nat /\ TRUE \in BOOLEAN
      BY <2>2
    <3> QED
      BY Zenon, <2>2, <3>1 DEF Object
  <2> QED
    BY <2>1, <2>2, <2>3, <2>4 DEF Counted
<1> QED
  BY <1>1, <1>2

\* The end of a poll takes its request away and keeps the ring within bounds.
LEMMA AnswerGood ==
  ASSUME NEW o, Good(o), o.requests > 0, running \in BOOLEAN, NEW r, NEW s,
         r = IF up THEN sampled(o) ELSE [o EXCEPT !.unreachable = TRUE],
         s = [r EXCEPT !.inFlight = FALSE, !.requests = r.requests - 1]
  PROVE  Good(s) /\ s.listeners = o.listeners /\ s.timer = o.timer
<1>1. o \in Object /\ o.requests = 1 /\ o.samples <= CAPACITY
      /\ (o.timer = "null" <=> o.listeners = {})
  BY DEF Good, Counted
<1>2. /\ r \in Object /\ r.requests = 1 /\ r.samples <= CAPACITY
      /\ r.listeners = o.listeners /\ r.timer = o.timer
  <2>1. CASE up
    <3>1. r = [o EXCEPT !.samples = IF o.samples >= CAPACITY THEN CAPACITY ELSE o.samples + 1,
                        !.latest = running, !.unreachable = FALSE]
      BY <2>1 DEF sampled
    <3> DEFINE n == IF o.samples >= CAPACITY THEN CAPACITY ELSE o.samples + 1
    <3>2. n \in Nat /\ n <= CAPACITY /\ FALSE \in BOOLEAN
      BY <1>1, HealthAssumption DEF Object
    <3> HIDE DEF n
    <3>3. r \in Object
      BY Zenon, <1>1, <3>1, <3>2 DEF Object, n
    <3>4. /\ r.requests = o.requests /\ r.samples = n
          /\ r.listeners = o.listeners /\ r.timer = o.timer
      BY Zenon, <1>1, <3>1 DEF Object, n
    <3> QED
      BY <1>1, <3>2, <3>3, <3>4
  <2>2. CASE ~up
    <3>1. r = [o EXCEPT !.unreachable = TRUE] /\ TRUE \in BOOLEAN
      BY <2>2
    <3>2. /\ r \in Object /\ r.requests = o.requests /\ r.samples = o.samples
          /\ r.listeners = o.listeners /\ r.timer = o.timer
      BY Zenon, <1>1, <3>1 DEF Object
    <3> QED
      BY <1>1, <3>2
  <2> QED
    BY <2>1, <2>2
<1>3. /\ s \in Object /\ s.requests = 0 /\ s.inFlight = FALSE /\ s.samples = r.samples
      /\ s.listeners = r.listeners /\ s.timer = r.timer
  <2>1. r.requests - 1 = 0 /\ 0 \in Nat /\ FALSE \in BOOLEAN
    BY <1>2
  <2> QED
    BY Zenon, <1>2, <2>1 DEF Object
<1> QED
  BY <1>1, <1>2, <1>3 DEF Good, Counted

\* Storing one good object leaves every object good and the others alone.
LEMMA PutKeeps ==
  ASSUME Inv, NEW e \in Entries, NEW r, Good(r), Put(e, r),
         \A x \in Entries \ {e} : x = entry' <=> x = entry
  PROVE  /\ ent' \in [Entries -> Object]
         /\ ent'[e].listeners = r.listeners /\ ent'[e].timer = r.timer
         /\ \A x \in Entries : /\ x # e => ent'[x] = ent[x]
                               /\ Good(ent'[x])
                               /\ ~Held(entry', x, ent'[x]) => ent'[x] = Blank
<1> DEFINE k == Keep(entry', e, r)
<1>1. /\ Good(k) /\ k.listeners = r.listeners /\ k.timer = r.timer
      /\ ~Held(entry', e, k) => k = Blank
  BY KeepGood
<1>2. ent' = [ent EXCEPT ![e] = k]
  BY DEF Put
<1> HIDE DEF k
<1>3. k \in Object /\ ent \in [Entries -> Object]
  BY <1>1 DEF Good, Counted, Inv
<1>4. ent'[e] = k /\ ent' \in [Entries -> Object] /\ \A x \in Entries : x # e => ent'[x] = ent[x]
  BY <1>2, <1>3
<1>5. ASSUME NEW x \in Entries, x # e
      PROVE  Good(ent[x]) /\ (~Held(entry', x, ent[x]) => ent[x] = Blank)
  BY <1>5 DEF Inv, Held
<1> QED
  BY <1>1, <1>4, <1>5

-----------------------------------------------------------------------------
\* subscribe joins the map's entry, or makes one, and starts its interval.
LEMMA SubscribeInv == ASSUME Inv, NEW v \in Views, Subscribe(v) PROVE Inv'
<1> DEFINE e == entryFor
           r == [ent[e] EXCEPT !.listeners = ent[e].listeners \cup {v}, !.gcTimer = "null"]
           s == IF r.timer = "null" THEN [poll(r) EXCEPT !.timer = "set"] ELSE r
<1>1. e \in Entries /\ (entry = None \/ entry = e) /\ entry' = e /\ authed
  BY Zenon DEF Subscribe, entryFor, Inv
<1>2. Good(ent[e]) /\ ent[e].timer # "cleared"
  BY <1>1 DEF Inv
<1>3. sub' = [sub EXCEPT ![v] = e] /\ Put(e, s) /\ sub[v] = None
  BY DEF Subscribe
<1>4. UNCHANGED <<authed, hidden, up, running, lapsed>>
  BY DEF Subscribe
<1> HIDE DEF e
<1>5. /\ Counted(r) /\ r.listeners = ent[e].listeners \cup {v} /\ r.timer = ent[e].timer
  <2>1. ent[e] \in Object /\ "null" \in Timer /\ ent[e].listeners \cup {v} \in SUBSET Views
    BY <1>2 DEF Good, Counted, Object, Timer
  <2>2. /\ r \in Object /\ r.listeners = ent[e].listeners \cup {v} /\ r.timer = ent[e].timer
        /\ r.requests = ent[e].requests /\ r.inFlight = ent[e].inFlight
        /\ r.samples = ent[e].samples
    BY Zenon, <2>1 DEF Object
  <2> QED
    BY <1>2, <2>2 DEF Good, Counted
<1> HIDE DEF r
<1>6. Good(s) /\ s.listeners = ent[e].listeners \cup {v} /\ s.timer = "set"
  <2>1. CASE r.timer = "null"
    <3>1. Counted(poll(r)) /\ poll(r).listeners = r.listeners
      BY <1>5, PollCounted
    <3>2. s = [poll(r) EXCEPT !.timer = "set"] /\ "set" \in Timer
      BY <2>1 DEF Timer
    <3>3. poll(r) \in Object
      BY <3>1 DEF Counted
    <3> HIDE DEF s
    <3>4. /\ s \in Object /\ s.timer = "set" /\ s.listeners = poll(r).listeners
          /\ s.requests = poll(r).requests /\ s.inFlight = poll(r).inFlight
          /\ s.samples = poll(r).samples
      BY Zenon, <3>2, <3>3 DEF Object
    <3> QED
      BY <1>5, <3>1, <3>4 DEF Good, Counted
  <2>2. CASE r.timer # "null"
    <3>1. s = r /\ r.timer \in Timer
      BY <1>5, <2>2 DEF Counted, Object
    <3> QED
      BY <1>2, <1>5, <2>2, <3>1 DEF Good, Timer
  <2> QED
    BY <2>1, <2>2
<1> HIDE DEF s
<1>7. \A x \in Entries \ {e} : x = entry' <=> x = entry
  BY <1>1, HealthAssumption
<1>8. /\ ent' \in [Entries -> Object]
      /\ ent'[e].listeners = s.listeners /\ ent'[e].timer = s.timer
      /\ \A x \in Entries : /\ x # e => ent'[x] = ent[x]
                            /\ Good(ent'[x])
                            /\ ~Held(entry', x, ent'[x]) => ent'[x] = Blank
  BY <1>1, <1>3, <1>6, <1>7, PutKeeps
<1>9. /\ sub' \in [Views -> Entries \cup {None}] /\ sub'[v] = e
      /\ \A w \in Views : w # v => sub'[w] = sub[w]
  BY <1>1, <1>3 DEF Inv
<1>10. ASSUME NEW x \in Entries
       PROVE  /\ \A w \in Views : w \in ent'[x].listeners <=> sub'[w] = x
              /\ ent'[x].timer # "cleared"
  <2>1. /\ \A w \in Views : w \in ent[x].listeners <=> sub[w] = x
        /\ ent[x].timer # "cleared" /\ x # None
    BY <1>1, HealthAssumption DEF Inv
  <2>2. CASE x = e
    BY <1>6, <1>8, <1>9, <2>1, <2>2
  <2>3. CASE x # e
    BY <1>3, <1>8, <1>9, <2>1, <2>3
  <2> QED
    BY <2>2, <2>3
<1>11. OneFeed'
  BY <1>1, <1>4, <1>9, HealthAssumption DEF Inv, OneFeed
<1> QED
  BY <1>1, <1>4, <1>8, <1>9, <1>10, <1>11 DEF Inv

\* The cleanup stops the interval with the last listener.
LEMMA UnsubscribeInv == ASSUME Inv, NEW v \in Views, Unsubscribe(v) PROVE Inv'
<1> DEFINE e == sub[v]
           r == [ent[e] EXCEPT !.listeners = ent[e].listeners \ {v}]
           s == IF r.listeners # {} THEN r
                ELSE [r EXCEPT !.timer = "null", !.gcTimer = "set"]
<1>1. e \in Entries /\ e # None /\ entry' = entry
  BY DEF Unsubscribe, Inv
<1>2. Good(ent[e]) /\ v \in ent[e].listeners
  BY <1>1 DEF Inv
<1>3. sub' = [sub EXCEPT ![v] = None] /\ Put(e, s)
  BY DEF Unsubscribe
<1>4. UNCHANGED <<authed, hidden, up, running, lapsed>>
  BY DEF Unsubscribe
<1> HIDE DEF e
<1>5. /\ Counted(r) /\ r.listeners = ent[e].listeners \ {v} /\ r.timer = ent[e].timer
  <2>1. ent[e] \in Object /\ ent[e].listeners \ {v} \in SUBSET Views
    BY <1>2 DEF Good, Counted, Object
  <2>2. /\ r \in Object /\ r.listeners = ent[e].listeners \ {v} /\ r.timer = ent[e].timer
        /\ r.requests = ent[e].requests /\ r.inFlight = ent[e].inFlight
        /\ r.samples = ent[e].samples
    BY Zenon, <2>1 DEF Object
  <2> QED
    BY <1>2, <2>2 DEF Good, Counted
<1> HIDE DEF r
<1>6. /\ Good(s) /\ s.listeners = ent[e].listeners \ {v}
      /\ s.timer = ent[e].timer \/ s.timer = "null"
  <2>1. CASE r.listeners = {}
    <3>1. s = [r EXCEPT !.timer = "null", !.gcTimer = "set"] /\ {"null", "set"} \subseteq Timer
      BY <2>1 DEF Timer
    <3>2. r \in Object
      BY <1>5 DEF Counted
    <3> HIDE DEF s
    <3>3. /\ s \in Object /\ s.timer = "null" /\ s.listeners = r.listeners
          /\ s.requests = r.requests /\ s.inFlight = r.inFlight /\ s.samples = r.samples
      BY Zenon, <3>1, <3>2 DEF Object
    <3> QED
      BY <1>5, <2>1, <3>3 DEF Good, Counted
  <2>2. CASE r.listeners # {}
    BY <1>2, <1>5, <2>2 DEF Good
  <2> QED
    BY <2>1, <2>2
<1> HIDE DEF s
<1>7. /\ ent' \in [Entries -> Object]
      /\ ent'[e].listeners = s.listeners /\ ent'[e].timer = s.timer
      /\ \A x \in Entries : /\ x # e => ent'[x] = ent[x]
                            /\ Good(ent'[x])
                            /\ ~Held(entry', x, ent'[x]) => ent'[x] = Blank
  BY <1>1, <1>3, <1>6, PutKeeps
<1>8. /\ sub' \in [Views -> Entries \cup {None}] /\ sub'[v] = None
      /\ \A w \in Views : w # v => sub'[w] = sub[w]
  BY <1>1, <1>3 DEF Inv
<1>9. ASSUME NEW x \in Entries
      PROVE  /\ \A w \in Views : w \in ent'[x].listeners <=> sub'[w] = x
             /\ authed' \/ x = entry' => ent'[x].timer # "cleared"
  <2>1. /\ \A w \in Views : w \in ent[x].listeners <=> sub[w] = x
        /\ authed \/ x = entry => ent[x].timer # "cleared"
        /\ x # None
    BY HealthAssumption DEF Inv
  <2>2. CASE x = e
    BY <1>1, <1>4, <1>6, <1>7, <1>8, <2>1, <2>2
  <2>3. CASE x # e
    BY <1>1, <1>4, <1>7, <1>8, <2>1, <2>3 DEF e
  <2> QED
    BY <2>2, <2>3
<1>10. OneFeed'
  BY <1>1, <1>4, <1>8 DEF Inv, OneFeed
<1> QED
  BY <1>1, <1>4, <1>7, <1>8, <1>9, <1>10 DEF Inv

\* A tick polls, and an answer ends a poll; both leave the listeners alone.
LEMMA PollInv ==
  ASSUME Inv, NEW e \in Entries, Tick(e) \/ Answered(e) PROVE Inv'
<1>1. Good(ent[e]) /\ ent \in [Entries -> Object]
  BY DEF Inv
<1>2. UNCHANGED <<entry, sub, authed, hidden, up, running, lapsed>>
  BY DEF Tick, Answered
<1>3. /\ ent' \in [Entries -> Object]
      /\ \A x \in Entries : /\ Good(ent'[x])
                            /\ ent'[x].listeners = ent[x].listeners
                            /\ ent'[x].timer = ent[x].timer
                            /\ ~Held(entry', x, ent'[x]) => ent'[x] = Blank
  <2>1. CASE Tick(e)
    <3> DEFINE s == poll(ent[e])
    <3>1. Counted(s) /\ s.listeners = ent[e].listeners /\ s.timer = ent[e].timer
      BY <1>1, PollCounted DEF Good
    <3>2. ent' = [ent EXCEPT ![e] = s] /\ ent[e].timer = "set"
      BY <2>1 DEF Tick
    <3> HIDE DEF s
    <3>3. Good(s) /\ s \in Object /\ Held(entry', e, s)
      BY <1>1, <3>1, <3>2 DEF Good, Counted, Held
    <3>4. \A x \in Entries : Good(ent[x]) /\ (~Held(entry', x, ent[x]) => ent[x] = Blank)
      BY <1>2 DEF Inv
    <3> QED
      BY <1>1, <3>1, <3>2, <3>3, <3>4
  <2>2. CASE Answered(e)
    <3> DEFINE r == IF up THEN sampled(ent[e]) ELSE [ent[e] EXCEPT !.unreachable = TRUE]
               s == [r EXCEPT !.inFlight = FALSE, !.requests = r.requests - 1]
    <3>1. ent[e].requests > 0 /\ Put(e, s) /\ running \in BOOLEAN
      BY <2>2 DEF Answered, Inv
    <3>2. /\ r = IF up THEN sampled(ent[e]) ELSE [ent[e] EXCEPT !.unreachable = TRUE]
          /\ s = [r EXCEPT !.inFlight = FALSE, !.requests = r.requests - 1]
      OBVIOUS
    <3> HIDE DEF r, s
    <3>3. Good(s) /\ s.listeners = ent[e].listeners /\ s.timer = ent[e].timer
      BY Zenon, <1>1, <3>1, <3>2, AnswerGood
    <3> QED
      BY <1>2, <3>1, <3>3, PutKeeps
  <2> QED
    BY <2>1, <2>2
<1>4. \A x \in Entries : /\ \A w \in Views : w \in ent'[x].listeners <=> sub'[w] = x
                         /\ authed' \/ x = entry' => ent'[x].timer # "cleared"
  BY <1>2, <1>3 DEF Inv
<1>5. OneFeed'
  BY <1>2 DEF Inv, OneFeed
<1> QED
  BY <1>2, <1>3, <1>4, <1>5 DEF Inv

\* The collection of an entry nobody listens to takes the map's entry away,
\* which is that entry or, with lapsed, another.
LEMMA CollectInv == ASSUME Inv, NEW e \in Entries, Collect(e) PROVE Inv'
<1> DEFINE s(x) == IF x = e THEN [ent[x] EXCEPT !.gcTimer = "null"] ELSE ent[x]
<1>1. /\ entry' = IF ent[e].listeners = {} THEN None ELSE entry
      /\ lapsed' = (lapsed \/ (entry' # entry /\ entry # e))
      /\ ent' = [x \in Entries |-> Keep(entry', x, s(x))]
      /\ UNCHANGED <<sub, authed, hidden, up, running>>
  BY DEF Collect
<1>2. ASSUME NEW x \in Entries
      PROVE  Good(s(x)) /\ s(x).listeners = ent[x].listeners /\ s(x).timer = ent[x].timer
  <2>1. Good(ent[x]) /\ ent[x] \in Object /\ "null" \in Timer
    BY DEF Inv, Timer
  <2>2. /\ s(x) \in Object /\ s(x).listeners = ent[x].listeners /\ s(x).timer = ent[x].timer
        /\ s(x).requests = ent[x].requests /\ s(x).inFlight = ent[x].inFlight
        /\ s(x).samples = ent[x].samples
    BY Zenon, <2>1 DEF Object
  <2> HIDE DEF s
  <2> QED
    BY <2>1, <2>2 DEF Good, Counted
<1> HIDE DEF s
<1>3. ASSUME NEW x \in Entries
      PROVE  /\ Good(ent'[x]) /\ ent'[x].listeners = ent[x].listeners
             /\ ent'[x].timer = ent[x].timer
             /\ ~Held(entry', x, ent'[x]) => ent'[x] = Blank
  <2>1. ent'[x] = Keep(entry', x, s(x))
    BY <1>1
  <2> QED
    BY <1>2, <2>1, KeepGood
<1>4. ent' \in [Entries -> Object]
  <2>1. \A x \in Entries : Keep(entry', x, s(x)) \in Object
    BY <1>1, <1>3 DEF Good, Counted
  <2> QED
    BY <1>1, <2>1
<1>5. entry' \in Entries \cup {None} /\ lapsed' \in BOOLEAN
      /\ \A x \in Entries : x = entry' => x = entry
  BY <1>1, HealthAssumption DEF Inv
<1>6. \A x \in Entries : /\ \A w \in Views : w \in ent'[x].listeners <=> sub'[w] = x
                         /\ authed' \/ x = entry' => ent'[x].timer # "cleared"
  BY <1>1, <1>3, <1>5 DEF Inv
<1>7. OneFeed'
  <2>1. SUFFICES ASSUME authed, ~lapsed', NEW v \in Views
                 PROVE  sub[v] \in {None, entry'}
    BY <1>1 DEF OneFeed
  <2>2. ~lapsed /\ (entry' = entry \/ entry = e) /\ sub[v] \in {None, entry}
    BY Zenon, <1>1, <2>1 DEF Inv, OneFeed
  <2>3. CASE entry' # entry
    <3>1. ent[e].listeners = {} /\ entry = e
      BY <1>1, <2>2, <2>3
    <3>2. sub[v] # e
      BY <3>1 DEF Inv
    <3> QED
      BY <2>2, <3>1, <3>2
  <2> QED
    BY <2>2, <2>3
<1> QED
  BY <1>1, <1>3, <1>4, <1>5, <1>6, <1>7 DEF Inv

\* A 401 clears the timers of the map's entry and signs the console out.
LEMMA UnauthorizedInv == ASSUME Inv, Unauthorized PROVE Inv'
<1> DEFINE r(e) == [ent[e] EXCEPT !.timer = Cleared(ent[e].timer),
                                  !.gcTimer = Cleared(ent[e].gcTimer)]
<1>1. /\ authed' = FALSE /\ entry' = None
      /\ ent' = [e \in Entries |-> IF e # entry THEN ent[e] ELSE Keep(None, e, r(e))]
      /\ UNCHANGED <<sub, hidden, up, running, lapsed>>
  BY Zenon DEF Unauthorized
<1>2. ASSUME NEW e \in Entries
      PROVE  Good(r(e)) /\ r(e).listeners = ent[e].listeners
  <2>1. Good(ent[e]) /\ ent[e] \in Object
    BY DEF Inv
  <2>2. /\ Cleared(ent[e].timer) \in Timer /\ Cleared(ent[e].gcTimer) \in Timer
        /\ Cleared(ent[e].timer) = "null" <=> ent[e].timer = "null"
    BY <2>1 DEF Object, Timer, Cleared
  <2>3. /\ r(e) \in Object /\ r(e).listeners = ent[e].listeners
        /\ r(e).timer = Cleared(ent[e].timer)
        /\ r(e).requests = ent[e].requests /\ r(e).inFlight = ent[e].inFlight
        /\ r(e).samples = ent[e].samples
    BY Zenon, <2>1, <2>2 DEF Object
  <2> HIDE DEF r
  <2> QED
    BY <2>1, <2>2, <2>3 DEF Good, Counted
<1> HIDE DEF r
<1>3. ASSUME NEW e \in Entries
      PROVE  /\ Good(ent'[e]) /\ ent'[e].listeners = ent[e].listeners
             /\ ~Held(entry', e, ent'[e]) => ent'[e] = Blank
  <2>1. CASE e = entry
    <3>1. ent'[e] = Keep(None, e, r(e))
      BY <1>1, <2>1
    <3> QED
      BY <1>1, <1>2, <3>1, KeepGood
  <2>2. CASE e # entry
    <3>1. ent'[e] = ent[e]
      BY <1>1, <2>2
    <3> QED
      BY <1>1, <2>2, <3>1 DEF Inv, Held
  <2> QED
    BY <2>1, <2>2
<1>4. ent' \in [Entries -> Object]
  <2>1. \A e \in Entries : ent'[e] \in Object
    BY <1>3 DEF Good, Counted
  <2> QED
    BY <1>1, <2>1
<1>5. OneFeed'
  BY <1>1 DEF OneFeed
<1>6. \A e \in Entries : /\ \A v \in Views : v \in ent'[e].listeners <=> sub'[v] = e
                         /\ ~(authed' \/ e = entry')
  BY <1>1, <1>3, HealthAssumption DEF Inv
<1> QED
  BY Zenon, <1>1, <1>3, <1>4, <1>5, <1>6 DEF Inv

-----------------------------------------------------------------------------
LEMMA InitInv == Init => Inv
<1> SUFFICES ASSUME Init PROVE Inv
  OBVIOUS
<1>1. Good(Blank) /\ Blank \in Object /\ Blank.listeners = {} /\ Blank.timer = "null"
  BY BlankGood DEF Good, Counted, Blank
<1>2. ent \in [Entries -> Object] /\ \A e \in Entries : ent[e] = Blank
  BY <1>1 DEF Init
<1> QED
  BY Zenon, <1>1, <1>2, HealthAssumption DEF Init, Inv, OneFeed

\* Every handler, timer and answer preserves the invariant.
LEMMA NextInv == Inv /\ [Next]_vars => Inv'
<1> SUFFICES ASSUME Inv, [Next]_vars PROVE Inv'
  OBVIOUS
<1>1. ASSUME NEW v \in Views, Subscribe(v) PROVE Inv'
  BY <1>1, SubscribeInv
<1>2. ASSUME NEW v \in Views, Unsubscribe(v) PROVE Inv'
  BY <1>2, UnsubscribeInv
<1>3. ASSUME NEW e \in Entries, Tick(e) \/ Answered(e) PROVE Inv'
  BY <1>3, PollInv
<1>4. ASSUME NEW e \in Entries, Collect(e) PROVE Inv'
  BY <1>4, CollectInv
<1>5. CASE Unauthorized
  BY <1>5, UnauthorizedInv
<1>6. CASE SignOut
  <2>1. authed' = FALSE /\ UNCHANGED <<entry, ent, sub, hidden, up, running, lapsed>>
    BY <1>6 DEF SignOut
  <2> QED
    BY Zenon, <2>1 DEF Inv, OneFeed, Held
<1>7. CASE Login
  <2>1. authed' = TRUE /\ UNCHANGED <<entry, ent, sub, hidden, up, running, lapsed>>
        /\ \A v \in Views : sub[v] = None
    BY <1>7 DEF Login
  <2>2. \A e \in Entries : ent[e].listeners = {}
    BY <2>1, HealthAssumption DEF Inv, Object
  <2>3. \A e \in Entries : ent[e].timer = "null"
    BY <2>2 DEF Inv, Good
  <2> QED
    BY <2>1, <2>3 DEF Inv, OneFeed, Held
<1>8. CASE Environment
  <2>1. UNCHANGED <<entry, ent, sub, authed, lapsed>>
        /\ hidden' \in BOOLEAN /\ up' \in BOOLEAN /\ running' \in BOOLEAN
    BY Zenon, <1>8 DEF Environment, Inv
  <2> QED
    BY <2>1 DEF Inv, OneFeed, Held
<1>9. CASE UNCHANGED vars
  BY <1>9 DEF vars, Inv, OneFeed, Held
<1> QED
  BY <1>1, <1>2, <1>3, <1>4, <1>5, <1>6, <1>7, <1>8, <1>9 DEF Next

LEMMA AlwaysInv == Spec => []Inv
BY InitInv, NextInv, PTL DEF Spec

\* subscribe, its cleanup and resetHealthStore leave an interval running
\* exactly while a signed-in component watches, for any number of entries.
THEOREM WatchedIsPolled == Spec => []PollsWhileWatched
<1>1. Inv => PollsWhileWatched
  <2> SUFFICES ASSUME Inv, NEW e \in Entries
               PROVE  /\ ent[e].timer = "set" => ent[e].listeners # {}
                      /\ authed /\ ent[e].listeners # {} => ent[e].timer = "set"
    BY DEF PollsWhileWatched
  <2> QED
    BY DEF Inv, Good, Counted, Object, Timer
<1> QED
  BY <1>1, AlwaysInv, PTL

\* poll's inFlight flag keeps requests of one entry from overlapping, and the
\* slice before the push keeps the ring within CAPACITY, whatever it is.
THEOREM FeedInOrder == Spec => []FeedOrdered
<1>1. Inv => FeedOrdered
  BY DEF Inv, Good, Counted, FeedOrdered
<1> QED
  BY <1>1, AlwaysInv, PTL

\* The components of a signed-in console are subscribed to the map's entry,
\* unless the late collection of a reset entry removed it.
THEOREM FeedShared == Spec => []OneFeed
<1>1. Inv => OneFeed
  BY DEF Inv
<1> QED
  BY <1>1, AlwaysInv, PTL
=============================================================================
