---------------------------- MODULE Console_proofs ----------------------------
(***************************************************************************)
(* The console's cache for any number of mutations in flight, any sizes    *)
(* and any number of moves of the server.                                  *)
(*                                                                         *)
(* Two invariants carry the theorems.  TypeInv says what a mutation in     *)
(* flight looks like and when the resources panel is mounted; CacheInv     *)
(* that a row in the cache or in flight can differ from the server's only  *)
(* while a verb that writes the row is unsettled, or drift or late says    *)
(* why.  The last section is about Geometry: the create dialog and the     *)
(* control plane agree for every size a user can type.                     *)
(***************************************************************************)
EXTENDS Console, TLAPS

-----------------------------------------------------------------------------
(* The invariants *)

Claiming == Moving \cup {"resume", "rollback"}

\* A mutation as its sender fills it in and as the server may leave it.
CallOK(c) ==
  /\ c \in Call
  /\ c.verb = "resize" => c.mem \in MEM /\ c.on \in BOOLEAN
  /\ c.verb = "autoscale" => c.on \in BOOLEAN
  /\ c.verb = "create" => c.on \in SubmitVerdicts
  /\ c.chain => c.verb = "autoscale" /\ c.mem \in MEM
  /\ c.at = "serving" => c.verb \in Claiming
  /\ c.verb \in PanelVerbs => c.from = "panel"
  /\ c.from = "composer" => c.verb \in ComposerVerbs

\* The panel is mounted exactly on the overview of a row on screen, and a
\* mutation of it that is still "here" means it is mounted.
Mounting == panel # None <=> Shown /\ page = "overview"
CallsOK == \A i \in Slots : calls[i] # None =>
             /\ CallOK(calls[i])
             /\ calls[i].from = "panel" /\ calls[i].here => panel # None
TypeInv == TypeOK /\ CallsOK /\ Mounting

\* The verbs that leave the row alone.
Inert(c) == c.verb \in {"create"} \cup ComposerVerbs
Settled == \A i \in Slots : calls[i] # None => Inert(calls[i])

\* A row read and not yet delivered is the server's, and so is the row in the
\* cache when no fetch will replace it: on a page that shows it, or on one a
\* later visit could show it from without fetching.
CacheInv ==
  Settled =>
    /\ query.fetch \in Rows /\ ~query.late => query.fetch = server
    /\ /\ query.fetch = None /\ ~query.drift
       /\ Active \/ (query.data # None /\ ~query.invalid)
       => query.data = server

-----------------------------------------------------------------------------
(* Mutations and queries as values *)

\* d is the mutation c with another prev, or of a component that is gone.
Like(c, d) ==
  /\ d.verb = c.verb /\ d.mem = c.mem /\ d.on = c.on /\ d.chain = c.chain
  /\ d.at = c.at /\ d.ok = c.ok /\ d.from = c.from
  /\ d.here => c.here

LEMMA LikeOK ==
  ASSUME NEW c, CallOK(c), NEW d \in Call, Like(c, d)
  PROVE  CallOK(d)
BY Zenon DEF CallOK, Like

\* What the components send.
LEMMA NewCall ==
  ASSUME NEW v \in Verbs, NEW k \in Components, NEW n, n = New(v, k)
  PROVE  /\ n \in Call /\ n.verb = v /\ n.from = k /\ n.at = "sent" /\ ~n.chain
BY DEF New, Call

LEMMA NewOK ==
  ASSUME NEW v \in HeaderVerbs \cup {"exec", "checkpoint", "rollback"}, NEW k \in Components,
         k = "composer" => v \in ComposerVerbs
  PROVE  CallOK(New(v, k))
<1>1. v \in Verbs /\ v \notin PanelVerbs \cup {"create"}
  BY DEF Verbs, HeaderVerbs, PanelVerbs
<1> PICK n : n = New(v, k)
  OBVIOUS
<1>2. n \in Call /\ n.verb = v /\ n.from = k /\ n.at = "sent" /\ ~n.chain
  BY <1>1, NewCall
<1> QED
  BY <1>1, <1>2 DEF CallOK, PanelVerbs

LEMMA CreateOK ==
  ASSUME NEW k \in Components \ {"composer"}, NEW ok \in SubmitVerdicts
  PROVE  CallOK(create(k, ok))
<1> DEFINE c == create(k, ok)
<1> PICK n : n = New("create", k)
  OBVIOUS
<1>1. n \in Call /\ n.verb = "create" /\ n.from = k /\ ~n.chain /\ n.at = "sent"
  <2>1. "create" \in Verbs
    BY DEF Verbs
  <2> QED
    BY <2>1, NewCall
<1>2. c = [n EXCEPT !.on = ok] /\ ok \in BOOLEAN
  <2>1. \A f \in Forms : Fares(f) \in BOOLEAN
    BY DEF Fares
  <2> QED
    BY <2>1 DEF create, SubmitVerdicts
<1> HIDE DEF c
<1>3. c \in Call /\ c.verb = n.verb /\ c.from = n.from /\ c.chain = n.chain /\ c.at = n.at
      /\ c.on = ok
  BY Zenon, <1>1, <1>2 DEF Call
<1>4. CallOK(c)
  BY <1>1, <1>3 DEF CallOK, PanelVerbs
<1> QED
  BY <1>1, <1>3, <1>4 DEF c

LEMMA ResizeOK ==
  ASSUME NEW m \in MEM
  PROVE  CallOK(resize(m)) /\ resize(m).verb = "resize"
<1> DEFINE r == resize(m)
<1> PICK n : n = New("resize", "panel")
  OBVIOUS
<1>1. n \in Call /\ n.verb = "resize" /\ n.from = "panel" /\ ~n.chain /\ n.at = "sent"
  <2>1. "resize" \in Verbs /\ "panel" \in Components
    BY DEF Verbs, PanelVerbs, Components
  <2> QED
    BY <2>1, NewCall
<1>2. r = [n EXCEPT !.mem = m, !.on = TRUE] /\ TRUE \in BOOLEAN
  BY DEF resize
<1> HIDE DEF r
<1>3. r \in Call /\ r.verb = n.verb /\ r.from = n.from /\ r.chain = n.chain /\ r.at = n.at
      /\ r.mem = m /\ r.on = TRUE
  BY Zenon, <1>1, <1>2 DEF Call
<1> QED
  BY Zenon, <1>1, <1>3 DEF CallOK, PanelVerbs, r

LEMMA RetryOK ==
  ASSUME NEW m \in MEM \cup {None}
  PROVE  CallOK(migrateRetry(m))
<1> DEFINE r == migrateRetry(m)
<1> PICK n : n = New("migrateRetry", "panel")
  OBVIOUS
<1>1. n \in Call /\ n.verb = "migrateRetry" /\ n.from = "panel" /\ ~n.chain /\ n.at = "sent"
  <2>1. "migrateRetry" \in Verbs /\ "panel" \in Components
    BY DEF Verbs, PanelVerbs, Components
  <2> QED
    BY <2>1, NewCall
<1>2. r = [n EXCEPT !.mem = m]
  BY DEF migrateRetry
<1> HIDE DEF r
<1>3. r \in Call /\ r.verb = n.verb /\ r.from = n.from /\ r.chain = n.chain /\ r.at = n.at
  BY Zenon, <1>1, <1>2 DEF Call
<1> QED
  BY <1>1, <1>3 DEF CallOK, PanelVerbs, r

LEMMA AutoscaleOK ==
  ASSUME NEW on \in BOOLEAN
  PROVE  CallOK(setAutoscale(on)) /\ setAutoscale(on).verb = "autoscale"
<1> DEFINE r == setAutoscale(on)
<1> PICK n : n = New("autoscale", "panel")
  OBVIOUS
<1>1. n \in Call /\ n.verb = "autoscale" /\ n.from = "panel" /\ ~n.chain /\ n.at = "sent"
  <2>1. "autoscale" \in Verbs /\ "panel" \in Components
    BY DEF Verbs, PanelVerbs, Components
  <2> QED
    BY <2>1, NewCall
<1>2. r = [n EXCEPT !.on = on]
  BY DEF setAutoscale
<1> HIDE DEF r
<1>3. r \in Call /\ r.verb = n.verb /\ r.from = n.from /\ r.chain = n.chain /\ r.at = n.at
      /\ r.on = on
  BY Zenon, <1>1, <1>2 DEF Call
<1> QED
  BY <1>1, <1>3 DEF CallOK, PanelVerbs, r

\* setQueryData, a refetch, an invalidation and a rollback keep a query one.
LEMMA SetData ==
  ASSUME NEW q \in Query, NEW d \in Rows \cup {None}, NEW s, s = setQueryData(q, d)
  PROVE  /\ s \in Query /\ s.data = d /\ s.fetch = q.fetch /\ s.late = q.late
         /\ s.drift = q.drift
<1>1. FALSE \in BOOLEAN
  OBVIOUS
<1> QED
  BY Zenon, <1>1 DEF Query, setQueryData

LEMMA Refetch ==
  ASSUME NEW q \in Query, NEW s, s = Fetching(q)
  PROVE  /\ s \in Query /\ s.data = q.data /\ s.fetch = Sent /\ s.err = q.err
         /\ s.drift = q.drift
<1>1. FALSE \in BOOLEAN
  OBVIOUS
<1> QED
  BY Zenon, <1>1 DEF Query, Fetching

LEMMA Invalidated ==
  ASSUME NEW q \in Query, NEW s, s = invalidateQueries(q)
  PROVE  /\ s \in Query /\ s.data = q.data /\ s.drift = q.drift
         /\ s.fetch = Sent \/ (s.fetch = q.fetch /\ s.invalid)
         /\ s.fetch \in Rows => s.late
         /\ Active => s.fetch # None
<1> DEFINE r == [q EXCEPT !.invalid = TRUE]
<1>1. TRUE \in BOOLEAN
  OBVIOUS
<1>2. r \in Query /\ r.data = q.data /\ r.drift = q.drift
  BY Zenon, <1>1 DEF Query
<1>3. CASE Active /\ (q.fetch = None \/ q.data # None)
  <2>1. s = Fetching(r)
    BY <1>3 DEF invalidateQueries
  <2> HIDE DEF r
  <2>2. s \in Query /\ s.data = r.data /\ s.fetch = Sent /\ s.drift = r.drift
    BY <1>2, <2>1, Refetch
  <2> QED
    BY <1>2, <2>2, ConsoleAssumption, NullAssumption
<1>4. CASE ~(Active /\ (q.fetch = None \/ q.data # None))
  <2> DEFINE l == q.late \/ q.fetch \in Rows
  <2>1. s = [q EXCEPT !.invalid = TRUE, !.late = l] /\ l \in BOOLEAN
    BY <1>4 DEF invalidateQueries, Query
  <2> HIDE DEF l
  <2>2. s \in Query /\ s.data = q.data /\ s.drift = q.drift /\ s.fetch = q.fetch
        /\ s.invalid = TRUE /\ s.late = l
    BY Zenon, <1>1, <2>1 DEF Query
  <2> QED
    BY Zenon, <1>4, <2>2 DEF l
<1> QED
  BY <1>3, <1>4

LEMMA Restored ==
  ASSUME NEW q \in Query, NEW p \in Rows \cup {None}, NEW s, s = restore(q, p)
  PROVE  /\ s \in Query /\ s.fetch = q.fetch /\ s.late = q.late /\ s.drift = q.drift
BY SetData DEF restore

\* onMutate patches the row for the verbs that move it and remembers what it
\* replaced.
LEMMA Mutated ==
  ASSUME NEW q \in Query, NEW c, CallOK(c), NEW s, NEW d,
         s = onMutate(c, q)[1], d = onMutate(c, q)[2]
  PROVE  /\ s \in Query /\ d \in Call /\ Like(c, d) /\ CallOK(d)
         /\ Inert(c) => s = q
<1>1. c \in Call
  BY DEF CallOK
<1>2. CASE c.verb \in {"pause", "resume", "resize"} /\ q.data # None
  <2>1. s = setQueryData(q, patch(c, q.data)) /\ d = [c EXCEPT !.prev = q.data]
    BY <1>2 DEF onMutate
  <2>2. q.data \in Rows
    BY <1>2 DEF Query
  <2>3. patch(c, q.data) \in Rows
    <3>1. CASE c.verb = "pause"
      BY <2>2, <3>1 DEF patch, Rows, States
    <3>2. CASE c.verb = "resume"
      BY <2>2, <3>2 DEF patch, Rows, States
    <3>3. CASE c.verb = "resize"
      BY <2>2, <3>3 DEF patch, Rows, CallOK
    <3> QED
      BY <1>2, <3>1, <3>2, <3>3
  <2>4. s \in Query
    BY <2>1, <2>3, SetData
  <2>5. d \in Call /\ Like(c, d)
    BY Zenon, <1>1, <2>1, <2>2 DEF Call, Like
  <2>6. ~Inert(c)
    BY <1>2 DEF Inert, ComposerVerbs
  <2> QED
    BY <2>4, <2>5, <2>6, LikeOK
<1>3. CASE ~(c.verb \in {"pause", "resume", "resize"} /\ q.data # None)
  <2>1. s = q /\ d = c
    BY <1>3 DEF onMutate
  <2> QED
    BY <1>1, <2>1 DEF Like
<1> QED
  BY <1>2, <1>3

\* A render turns off the calls of what it unmounts, and mounts or unmounts
\* the panel.
LEMMA Rendered ==
  ASSUME NEW cs \in [Slots -> Call \cup {None}], NEW pn \in Panels \cup {None},
         \A i \in Slots : cs[i] # None => CallOK(cs[i]),
         query' \in Query, page' \in Pages, Render(cs, pn)
  PROVE  /\ calls' \in [Slots -> Call \cup {None}] /\ panel' \in Panels \cup {None}
         /\ Mounting' /\ CallsOK'
         /\ \A i \in Slots : /\ cs[i] = None => calls'[i] = None
                             /\ cs[i] # None => calls'[i] # None /\ Like(cs[i], calls'[i])
<1> DEFINE m(i) == cs[i].here /\ Mounted(cs[i], Shown', page')
           d(i) == [cs[i] EXCEPT !.here = m(i)]
<1>1. calls' = [i \in Slots |-> IF cs[i] = None THEN None ELSE d(i)]
  BY DEF Render
<1>2. panel' = IF ~(Shown' /\ page' = "overview") THEN None
               ELSE IF pn # None THEN pn
               ELSE [mem |-> query'.data.mem, noCapacity |-> FALSE]
  BY DEF Render
<1>3. panel' \in Panels \cup {None} /\ Mounting'
  <2>1. CASE ~(Shown' /\ page' = "overview")
    BY <1>2, <2>1 DEF Mounting
  <2>2. CASE Shown' /\ page' = "overview"
    <3>1. query'.data \in Rows
      BY <2>2 DEF Shown, Query
    <3>2. [mem |-> query'.data.mem, noCapacity |-> FALSE] \in Panels
      BY <3>1 DEF Rows, Panels
    <3>3. panel' \in Panels
      BY <1>2, <2>2, <3>2
    <3> QED
      BY <2>2, <3>3, NullAssumption DEF Mounting
  <2> QED
    BY <2>1, <2>2
<1>4. ASSUME NEW i \in Slots, cs[i] # None
      PROVE  /\ d(i) \in Call /\ Like(cs[i], d(i)) /\ CallOK(d(i)) /\ d(i) # None
             /\ d(i).from = "panel" /\ d(i).here => panel' # None
  <2>1. cs[i] \in Call /\ m(i) \in BOOLEAN
    BY <1>4 DEF Call
  <2>2. d(i) \in Call /\ d(i).here = m(i) /\ d(i).verb = cs[i].verb /\ d(i).mem = cs[i].mem
        /\ d(i).on = cs[i].on /\ d(i).chain = cs[i].chain /\ d(i).at = cs[i].at
        /\ d(i).ok = cs[i].ok /\ d(i).from = cs[i].from
    <3> HIDE DEF m
    <3> QED
      BY Zenon, <2>1 DEF Call
  <2>3. m(i) /\ cs[i].from = "panel" => Shown' /\ page' = "overview"
    BY DEF Mounted
  <2>4. m(i) => cs[i].here
    OBVIOUS
  <2> HIDE DEF d, m
  <2>5. Like(cs[i], d(i))
    BY Zenon, <2>2, <2>4 DEF Like
  <2>6. CallOK(d(i)) /\ d(i) # None
    BY <1>4, <2>2, <2>5, LikeOK, NullAssumption
  <2> QED
    BY <1>3, <2>2, <2>3, <2>5, <2>6 DEF Mounting
<1> HIDE DEF d
<1>5. calls' \in [Slots -> Call \cup {None}]
  BY <1>1, <1>4
<1>6. \A i \in Slots : calls'[i] = IF cs[i] = None THEN None ELSE d(i)
  BY <1>1
<1> QED
  BY <1>3, <1>4, <1>5, <1>6 DEF CallsOK

-----------------------------------------------------------------------------
(* Steps *)

Inv == TypeInv /\ CacheInv

\* Slot j holds the mutation it held, or none.
Stays(j) == calls'[j] # None => calls[j] # None /\ Like(calls[j], calls'[j])

\* A mutation is sent: it takes a free slot, and a render follows.
LEMMA MutateStep ==
  ASSUME TypeInv, NEW c, CallOK(c), mutate(c)
  PROVE  /\ TypeInv' /\ UNCHANGED <<server, page>>
         /\ Inert(c) => query' = query
         /\ \E i \in Slots :
              /\ calls[i] = None /\ calls'[i] # None /\ Like(c, calls'[i])
              /\ \A j \in Slots \ {i} : Stays(j) /\ (calls[j] # None => calls'[j] # None)
<1>1. PICK i \in Slots :
        /\ Free(i) /\ query' = onMutate(c, query)[1] /\ UNCHANGED <<server, page>>
        /\ Render([calls EXCEPT ![i] = onMutate(c, query)[2]], panel)
  BY DEF mutate
<1> DEFINE d == onMutate(c, query)[2]
           cs == [calls EXCEPT ![i] = d]
<1>2. query \in Query /\ calls \in [Slots -> Call \cup {None}] /\ page \in Pages
      /\ panel \in Panels \cup {None} /\ moves \in 0..MOVES /\ server \in Rows
  BY DEF TypeInv, TypeOK
<1>3. query' \in Query /\ d \in Call /\ Like(c, d) /\ CallOK(d) /\ (Inert(c) => query' = query)
  BY <1>1, <1>2, Mutated
<1> HIDE DEF d
<1>4. cs \in [Slots -> Call \cup {None}] /\ cs[i] = d /\ \A j \in Slots \ {i} : cs[j] = calls[j]
  BY <1>2, <1>3
<1>5. \A j \in Slots : cs[j] # None => CallOK(cs[j])
  BY <1>3, <1>4 DEF TypeInv, CallsOK
<1>6. Render(cs, panel) /\ page' \in Pages
  BY <1>1, <1>2 DEF d
<1> HIDE DEF cs
<1>7. /\ calls' \in [Slots -> Call \cup {None}] /\ panel' \in Panels \cup {None}
      /\ Mounting' /\ CallsOK'
      /\ \A j \in Slots : /\ cs[j] = None => calls'[j] = None
                          /\ cs[j] # None => calls'[j] # None /\ Like(cs[j], calls'[j])
  BY <1>2, <1>3, <1>4, <1>5, <1>6, Rendered
<1>8. moves' \in 0..MOVES
  BY <1>1, <1>2, ConsoleAssumption DEF Free, Move
<1>9. TypeInv'
  BY <1>1, <1>2, <1>3, <1>6, <1>7, <1>8 DEF TypeInv, TypeOK
<1>10. calls[i] = None /\ calls'[i] # None /\ Like(c, calls'[i])
  <2>1. d # None
    BY <1>3, NullAssumption
  <2>2. Like(d, calls'[i]) /\ calls'[i] # None
    BY <1>4, <1>7, <2>1
  <2> QED
    BY <1>1, <1>3, <2>2 DEF Like, Free
<1>11. \A j \in Slots \ {i} : Stays(j) /\ (calls[j] # None => calls'[j] # None)
  BY <1>4, <1>7 DEF Stays
<1> QED
  BY <1>1, <1>3, <1>9, <1>10, <1>11

LEMMA SendInv ==
  ASSUME Inv, NEW c, CallOK(c), mutate(c)
  PROVE  Inv'
<1>1. /\ TypeInv' /\ UNCHANGED <<server, page>>
      /\ Inert(c) => query' = query
  BY MutateStep DEF Inv
<1>2. PICK i \in Slots :
        /\ calls[i] = None /\ calls'[i] # None /\ Like(c, calls'[i])
        /\ \A j \in Slots \ {i} : Stays(j) /\ (calls[j] # None => calls'[j] # None)
  BY MutateStep DEF Inv
<1>3. CacheInv'
  <2>1. SUFFICES ASSUME Settled' PROVE CacheInv'
    BY DEF CacheInv
  <2>2. Inert(c)
    BY <1>2, <2>1 DEF Settled, Inert, Like
  <2>3. query' = query /\ server' = server /\ page' = page
    BY <1>1, <2>2
  <2>4. ASSUME NEW j \in Slots, calls[j] # None PROVE Inert(calls[j])
    <3>1. CASE j = i
      BY <1>2, <2>4, <3>1
    <3>2. CASE j # i
      BY <1>2, <2>1, <2>4, <3>2 DEF Settled, Stays, Like, Inert
    <3> QED
      BY <3>1, <3>2
  <2>5. Settled
    BY <2>4 DEF Settled
  <2> QED
    BY <2>3, <2>5 DEF Inv, CacheInv, Active
<1> QED
  BY <1>1, <1>3 DEF Inv

\* flipAutoscale patches the row by hand and sends a toggle.
LEMMA FlipInv ==
  ASSUME Inv, NEW c, CallOK(c), c.verb = "autoscale", query.data \in Rows, flipAutoscale(c)
  PROVE  Inv'
<1> DEFINE d == [c EXCEPT !.prev = query.data]
           cs(i) == [calls EXCEPT ![i] = d]
<1>1. PICK i \in Slots :
        /\ Free(i)
        /\ query' = setQueryData(query, [query.data EXCEPT !.auto = c.on])
        /\ UNCHANGED <<server, page>>
        /\ Render(cs(i), panel)
  BY Zenon DEF flipAutoscale
<1>2. query \in Query /\ calls \in [Slots -> Call \cup {None}] /\ page \in Pages
      /\ panel \in Panels \cup {None} /\ moves \in 0..MOVES /\ server \in Rows
  BY DEF Inv, TypeInv, TypeOK
<1>3. query' \in Query
  <2>1. [query.data EXCEPT !.auto = c.on] \in Rows
    BY DEF Rows, CallOK
  <2> QED
    BY Zenon, <1>1, <1>2, <2>1, SetData
<1>4. d \in Call /\ Like(c, d)
  <2>1. c \in Call
    BY DEF CallOK
  <2> QED
    BY Zenon, <2>1 DEF Call, Like
<1> HIDE DEF d
<1>5. CallOK(d) /\ d # None /\ d.verb = "autoscale"
  BY <1>4, LikeOK, NullAssumption DEF Like
<1>6. /\ cs(i) \in [Slots -> Call \cup {None}]
      /\ \A j \in Slots : cs(i)[j] # None => CallOK(cs(i)[j])
      /\ cs(i)[i] = d
  BY <1>2, <1>4, <1>5 DEF Inv, TypeInv, CallsOK
<1> HIDE DEF cs
<1>7. /\ calls' \in [Slots -> Call \cup {None}] /\ panel' \in Panels \cup {None}
      /\ Mounting' /\ CallsOK'
      /\ \A j \in Slots : /\ cs(i)[j] = None => calls'[j] = None
                          /\ cs(i)[j] # None => calls'[j] # None /\ Like(cs(i)[j], calls'[j])
  BY <1>1, <1>2, <1>3, <1>6, Rendered
<1>8. TypeInv'
  <2>1. moves' \in 0..MOVES
    BY <1>1, <1>2, ConsoleAssumption DEF Free, Move
  <2> QED
    BY <1>1, <1>2, <1>3, <1>7, <2>1 DEF TypeInv, TypeOK
<1>9. CacheInv'
  <2>1. calls'[i] # None /\ ~Inert(calls'[i])
    BY <1>5, <1>6, <1>7 DEF Like, Inert, ComposerVerbs
  <2> QED
    BY <2>1 DEF CacheInv, Settled
<1> QED
  BY <1>8, <1>9 DEF Inv

\* Dragging the slider changes the size a chained resize will ask for.
LEMMA SetMemInv == ASSUME Inv, NEW m \in MEM, SetMem(m) PROVE Inv'
<1> DEFINE hit(i) == i \in InFlight /\ calls[i].chain /\ calls[i].here
           x(i) == IF hit(i) THEN [calls[i] EXCEPT !.mem = m] ELSE calls[i]
<1>1. /\ panel # None /\ panel' = [panel EXCEPT !.mem = m]
      /\ calls' = [i \in Slots |-> x(i)]
      /\ UNCHANGED <<server, query, page, moves>>
  BY DEF SetMem
<1>2. TypeOK /\ CallsOK /\ Mounting
  BY DEF Inv, TypeInv
<1>3. panel' \in Panels /\ panel' # None
  <2>1. panel \in Panels
    BY <1>1, <1>2 DEF TypeOK
  <2>2. panel' \in Panels
    BY <1>1, <2>1 DEF Panels
  <2> QED
    BY <2>2, NullAssumption
<1>4. ASSUME NEW i \in Slots
      PROVE  /\ x(i) \in Call \cup {None} /\ (calls[i] = None <=> x(i) = None)
             /\ calls[i] # None =>
                  /\ CallOK(x(i)) /\ x(i).verb = calls[i].verb /\ x(i).from = calls[i].from
                  /\ x(i).here = calls[i].here /\ x(i).chain = calls[i].chain
                  /\ x(i).at = calls[i].at /\ x(i).ok = calls[i].ok
  <2>1. calls[i] \in Call \cup {None} /\ (calls[i] # None => CallOK(calls[i]))
    BY <1>2 DEF TypeOK, CallsOK
  <2>2. CASE hit(i)
    <3>1. calls[i] # None /\ calls[i] \in Call /\ calls[i].chain
      BY <2>1, <2>2 DEF InFlight
    <3>2. x(i) = [calls[i] EXCEPT !.mem = m]
      BY <2>2
    <3> HIDE DEF x
    <3>3. /\ x(i) \in Call /\ x(i).verb = calls[i].verb /\ x(i).from = calls[i].from
          /\ x(i).here = calls[i].here /\ x(i).chain = calls[i].chain /\ x(i).at = calls[i].at
          /\ x(i).ok = calls[i].ok /\ x(i).on = calls[i].on /\ x(i).mem = m
      BY Zenon, <3>1, <3>2 DEF Call
    <3>4. CallOK(x(i))
      BY <2>1, <3>1, <3>3 DEF CallOK
    <3> QED
      BY <3>1, <3>3, <3>4, NullAssumption
  <2>3. CASE ~hit(i)
    BY <2>1, <2>3
  <2> QED
    BY <2>2, <2>3
<1> HIDE DEF x
<1>5. calls' \in [Slots -> Call \cup {None}] /\ \A i \in Slots : calls'[i] = x(i)
  BY <1>1, <1>4
<1>6. TypeInv'
  <2>1. TypeOK'
    BY <1>1, <1>2, <1>3, <1>5 DEF TypeOK
  <2>2. CallsOK'
    BY <1>3, <1>4, <1>5 DEF CallsOK
  <2>3. Mounting'
    BY <1>1, <1>2, <1>3 DEF Mounting, Shown, Active
  <2> QED
    BY <2>1, <2>2, <2>3 DEF TypeInv
<1>7. CacheInv'
  <2>1. Settled' => Settled
    BY <1>4, <1>5 DEF Settled, Inert
  <2> QED
    BY <1>1, <2>1 DEF Inv, CacheInv, Active
<1> QED
  BY <1>6, <1>7 DEF Inv

-----------------------------------------------------------------------------
\* What serving a mutation does to the row.
LEMMA ServedRow ==
  ASSUME server \in Rows, NEW c, CallOK(c), NEW s \in Done(c) \cup Refused(c)
  PROVE  /\ s \in Rows
         /\ Inert(c) => s = server
<1> USE DEF Rows
<1>1. CASE c.at = "serving"
  <2>1. c.verb \in Claiming /\ c \in Call
    BY <1>1 DEF CallOK
  <2>2. ~Inert(c) /\ c.mem \in MEM \cup {None}
    BY <2>1 DEF Claiming, Moving, Inert, ComposerVerbs, Call
  <2>3. s \in Rows
    <3>1. CASE s \in Done(c)
      <4>1. s \in Migrated(c)
        BY <1>1, <2>1, <3>1 DEF Done, Claiming, Moving, ComposerVerbs
      <4>2. \/ c.mem \in MEM /\ s = [server EXCEPT !.state = "RUNNING", !.mem = c.mem]
            \/ \E m \in MEM : s = [server EXCEPT !.state = "RUNNING", !.mem = m]
            \/ s = [server EXCEPT !.state = "PAUSED_HOT"]
        BY Zenon, <2>2, <4>1 DEF Migrated
      <4> QED
        BY Zenon, <4>2 DEF States
    <3>2. CASE s \in Refused(c)
      <4>1. PICK t \in {"FAILED", "RUNNING", "PAUSED_HOT"} : s = [server EXCEPT !.state = t]
        BY <1>1, <2>1, <3>2 DEF Refused, Claiming, Moving
      <4> QED
        BY <4>1 DEF States
    <3> QED
      BY <3>1, <3>2
  <2> QED
    BY <2>2, <2>3
<1>2. CASE c.at # "serving" /\ s \in Refused(c)
  <2>1. c.verb = "resize" /\ \E m \in MEM : s = [server EXCEPT !.mem = m]
    BY <1>2 DEF Refused
  <2> QED
    BY <2>1 DEF Inert, ComposerVerbs
<1>3. CASE c.at # "serving" /\ s \in Done(c)
  <2>1. \/ c.verb = "pause" /\ s = [server EXCEPT !.state = "PAUSED_HOT"]
        \/ c.verb = "kill" /\ s = [server EXCEPT !.state = "STOPPED"]
        \/ c.verb \in {"snapshot", "create"} \cup ComposerVerbs /\ s = server
        \/ c.verb = "resize" /\ s = [server EXCEPT !.mem = c.mem]
        \/ c.verb = "autoscale" /\ s = [server EXCEPT !.auto = c.on]
    BY <1>3 DEF Done, ComposerVerbs
  <2>2. CASE c.verb = "pause" /\ s = [server EXCEPT !.state = "PAUSED_HOT"]
    BY <2>2 DEF Inert, ComposerVerbs, States
  <2>3. CASE c.verb = "kill" /\ s = [server EXCEPT !.state = "STOPPED"]
    BY <2>3 DEF Inert, ComposerVerbs, States
  <2>4. CASE c.verb \in {"snapshot", "create"} \cup ComposerVerbs /\ s = server
    BY <2>4 DEF ComposerVerbs
  <2>5. CASE c.verb = "resize" /\ s = [server EXCEPT !.mem = c.mem]
    BY <2>5 DEF Inert, ComposerVerbs, CallOK
  <2>6. CASE c.verb = "autoscale" /\ s = [server EXCEPT !.auto = c.on]
    BY <1>3, <2>6 DEF Inert, ComposerVerbs, CallOK
  <2> QED
    BY <2>1, <2>2, <2>3, <2>4, <2>5, <2>6
<1> QED
  BY <1>1, <1>2, <1>3

\* A step of the server on mutation i.
LEMMA ServerStep ==
  ASSUME Inv, NEW i \in Slots, calls[i] # None, NEW a \in {"serving", "done"}, NEW b \in BOOLEAN,
         calls' = [calls EXCEPT ![i] = [calls[i] EXCEPT !.at = a, !.ok = b]],
         UNCHANGED <<query, page, panel, moves>>, server' \in Rows,
         a = "serving" => calls[i].verb \in Claiming,
         Inert(calls[i]) => server' = server
  PROVE  Inv'
<1> DEFINE d == [calls[i] EXCEPT !.at = a, !.ok = b]
<1>1. TypeOK /\ CallsOK /\ Mounting
  BY DEF Inv, TypeInv
<1>2. calls[i] \in Call /\ CallOK(calls[i]) /\ calls \in [Slots -> Call \cup {None}]
  BY <1>1 DEF TypeOK, CallsOK
<1>3. a \in {"sent", "serving", "done"}
  OBVIOUS
<1>4. /\ d \in Call /\ d.verb = calls[i].verb /\ d.from = calls[i].from /\ d.here = calls[i].here
      /\ d.chain = calls[i].chain /\ d.mem = calls[i].mem /\ d.on = calls[i].on
      /\ d.at = a /\ d.ok = b
  BY Zenon, <1>2, <1>3 DEF Call
<1> HIDE DEF d
<1>5. CallOK(d) /\ d # None
  BY <1>2, <1>4, NullAssumption DEF CallOK
<1>6. /\ calls' \in [Slots -> Call \cup {None}] /\ calls'[i] = d
      /\ \A j \in Slots \ {i} : calls'[j] = calls[j]
  BY <1>2, <1>4 DEF d
<1>7. TypeInv'
  <2>1. TypeOK'
    BY <1>1, <1>6 DEF TypeOK
  <2>2. CallsOK'
    BY <1>1, <1>4, <1>5, <1>6 DEF CallsOK
  <2>3. Mounting'
    BY <1>1 DEF Mounting, Shown, Active
  <2> QED
    BY <2>1, <2>2, <2>3 DEF TypeInv
<1>8. CacheInv'
  <2>1. SUFFICES ASSUME Settled' PROVE CacheInv'
    BY DEF CacheInv
  <2>2. Inert(calls[i]) /\ Settled
    BY <1>4, <1>5, <1>6, <2>1 DEF Settled, Inert
  <2> QED
    BY <2>2 DEF Inv, CacheInv, Active
<1> QED
  BY <1>7, <1>8 DEF Inv

LEMMA BeginInv == ASSUME Inv, NEW i \in Slots, Begin(i) PROVE Inv'
<1>1. /\ calls[i] # None /\ Claims(calls[i])
      /\ server' = [server EXCEPT !.state = Claimed(@)]
      /\ calls' = [calls EXCEPT ![i].at = "serving"]
      /\ UNCHANGED <<query, page, panel, moves>>
  BY DEF Begin, InFlight
<1>2. server \in Rows /\ calls[i] \in Call /\ calls \in [Slots -> Call \cup {None}]
  BY <1>1 DEF Inv, TypeInv, TypeOK
<1>3. calls[i].verb \in Claiming
  BY <1>1 DEF Claims, Claiming
<1>4. ~Inert(calls[i])
  BY <1>3 DEF Claiming, Moving, Inert, ComposerVerbs
<1>5. server' \in Rows
  BY <1>1, <1>2 DEF Rows, States, Claimed
<1>6. PICK b \in BOOLEAN : b = calls[i].ok
  BY <1>2 DEF Call
<1>7. [calls[i] EXCEPT !.at = "serving"] = [calls[i] EXCEPT !.at = "serving", !.ok = b]
  BY Zenon, <1>2, <1>6 DEF Call
<1>8. calls' = [calls EXCEPT ![i] = [calls[i] EXCEPT !.at = "serving", !.ok = b]]
  BY Zenon, <1>1, <1>7
<1> QED
  BY Zenon, <1>1, <1>3, <1>4, <1>5, <1>8, ServerStep

LEMMA ServeInv == ASSUME Inv, NEW i \in Slots, Serve(i) PROVE Inv'
<1>1. calls[i] # None /\ UNCHANGED <<query, page, panel, moves>>
  BY DEF Serve, InFlight
<1>2. server \in Rows /\ calls[i] \in Call /\ CallOK(calls[i])
  BY <1>1 DEF Inv, TypeInv, TypeOK, CallsOK
<1>3. server' \in Done(calls[i]) \cup Refused(calls[i])
  BY DEF Serve
<1>4. server' \in Rows /\ (Inert(calls[i]) => server' = server)
  BY <1>2, <1>3, ServedRow
<1>5. CASE calls' = [calls EXCEPT ![i].at = "done", ![i].ok = TRUE]
  <2>1. calls' = [calls EXCEPT ![i] = [calls[i] EXCEPT !.at = "done", !.ok = TRUE]]
    BY Zenon, <1>5
  <2> QED
    BY Zenon, <1>1, <1>4, <2>1, ServerStep
<1>6. CASE calls' = [calls EXCEPT ![i].at = "done"]
  <2>1. PICK b \in BOOLEAN : b = calls[i].ok
    BY <1>2 DEF Call
  <2>2. [calls[i] EXCEPT !.at = "done"] = [calls[i] EXCEPT !.at = "done", !.ok = b]
    BY Zenon, <1>2, <2>1 DEF Call
  <2>3. calls' = [calls EXCEPT ![i] = [calls[i] EXCEPT !.at = "done", !.ok = b]]
    BY Zenon, <1>6, <2>2
  <2> QED
    BY Zenon, <1>1, <1>4, <2>3, ServerStep
<1> QED
  BY <1>5, <1>6 DEF Serve

-----------------------------------------------------------------------------
\* The cache after a step that settles mutation i for good, when what it left
\* of the query is refetched, invalid, or marked as drifted.
Excused(q) ==
  /\ q.fetch \in Rows => q.late
  /\ q.fetch = None => q.drift \/ (~Active /\ q.invalid)

\* A mutation settles: slot i is free, or holds the resize of its chain.
LEMMA SettleInv ==
  ASSUME Inv, NEW i \in Slots, calls[i] # None, NEW d, d = None \/ CallOK(d),
         NEW pn \in Panels \cup {None}, Render([calls EXCEPT ![i] = d], pn),
         query' \in Query, page' \in {page, "list"}, UNCHANGED <<server, moves>>,
         d # None => d.verb = "resize",
         d = None => \/ Excused(query')
                     \/ Inert(calls[i]) /\ query' = query
  PROVE  Inv'
<1> DEFINE cs == [calls EXCEPT ![i] = d]
<1>1. TypeOK /\ CallsOK
  BY DEF Inv, TypeInv
<1>2. page' \in Pages /\ calls \in [Slots -> Call \cup {None}]
  BY <1>1 DEF TypeOK, Pages
<1>3. /\ cs \in [Slots -> Call \cup {None}] /\ cs[i] = d
      /\ \A j \in Slots \ {i} : cs[j] = calls[j]
  BY <1>2 DEF CallOK
<1>4. \A j \in Slots : cs[j] # None => CallOK(cs[j])
  BY <1>1, <1>3 DEF CallsOK
<1>5. Render(cs, pn)
  OBVIOUS
<1> HIDE DEF cs
<1>6. /\ calls' \in [Slots -> Call \cup {None}] /\ panel' \in Panels \cup {None}
      /\ Mounting' /\ CallsOK'
      /\ \A j \in Slots : /\ cs[j] = None => calls'[j] = None
                          /\ cs[j] # None => calls'[j] # None /\ Like(cs[j], calls'[j])
  BY <1>2, <1>3, <1>4, <1>5, Rendered
<1>7. TypeInv'
  BY <1>1, <1>2, <1>6 DEF TypeInv, TypeOK
<1>8. \A j \in Slots \ {i} : Stays(j) /\ (calls[j] # None => calls'[j] # None)
  BY <1>3, <1>6 DEF Stays
<1>9. CASE d # None
  <2>1. calls'[i] # None /\ calls'[i].verb = "resize"
    BY <1>3, <1>6, <1>9 DEF Like
  <2>2. CacheInv'
    BY <2>1 DEF CacheInv, Settled, Inert, ComposerVerbs
  <2> QED
    BY <1>7, <2>2 DEF Inv
<1>10. CASE d = None
  <2>1. CacheInv'
    <3>1. SUFFICES ASSUME Settled' PROVE CacheInv'
      BY DEF CacheInv
    <3>2. Active' => Active
      BY DEF Active, WorkPages
    <3>3. CASE Excused(query')
      BY <3>2, <3>3 DEF Excused, CacheInv
    <3>4. CASE Inert(calls[i]) /\ query' = query
      <4>1. \A j \in Slots : calls[j] # None => Inert(calls[j])
        BY <1>8, <3>1, <3>4 DEF Settled, Stays, Like, Inert
      <4>2. Settled
        BY <4>1 DEF Settled
      <4> QED
        BY <3>2, <3>4, <4>2 DEF Inv, CacheInv
    <3> QED
      BY <1>10, <3>3, <3>4
  <2> QED
    BY <1>7, <2>1 DEF Inv
<1> QED
  BY <1>9, <1>10

LEMMA InvalidatedExcused ==
  ASSUME NEW q \in Query, NEW s, s = invalidateQueries(q)
  PROVE  Excused(s) /\ s \in Query
<1>1. /\ s \in Query /\ s.data = q.data /\ s.drift = q.drift
      /\ s.fetch = Sent \/ (s.fetch = q.fetch /\ s.invalid)
      /\ s.fetch \in Rows => s.late
      /\ Active => s.fetch # None
  BY Invalidated
<1> QED
  BY <1>1, ConsoleAssumption DEF Excused

\* onSuccess and onSettled; the toggle of a chain is followed by its resize.
LEMMA AnsweredInv == ASSUME Inv, NEW i \in Slots, Answered(i) PROVE Inv'
<1> DEFINE c == calls[i]
           q == invalidateQueries(query)
           on == q.data = None \/ q.data.mem # c.mem
           next == [resize(c.mem) EXCEPT !.here = c.here, !.on = on]
           silent == c.from = "composer" \/ (c.from = "timeline" /\ c.verb = "fork")
           s == onMutate(next, q)[1]
           e == onMutate(next, q)[2]
           pn == IF c.here /\ c.verb \in {"resize", "migrateRetry"}
                 THEN [panel EXCEPT !.noCapacity = FALSE] ELSE panel
<1>1. /\ c # None /\ UNCHANGED <<server, moves>> /\ page' \in {page, "list"}
      /\ c.at = "done" /\ c.ok
      /\ query' = CASE c.chain -> s [] silent -> query [] OTHER -> q
      /\ Render([calls EXCEPT ![i] = IF c.chain THEN e ELSE None], pn)
  BY Zenon DEF Answered, InFlight
<1>2. /\ query \in Query /\ c \in Call /\ CallOK(c) /\ panel \in Panels \cup {None}
      /\ c.from = "panel" /\ c.here => panel # None
  BY <1>1 DEF Inv, TypeInv, TypeOK, CallsOK
<1>3. Excused(q) /\ q \in Query
  BY <1>2, InvalidatedExcused
<1>4. pn \in Panels \cup {None}
  <2>1. CASE c.here /\ c.verb \in {"resize", "migrateRetry"}
    <3>1. panel \in Panels
      BY <1>2, <2>1 DEF CallOK, PanelVerbs
    <3> QED
      BY Zenon, <2>1, <3>1 DEF Panels
  <2>2. CASE ~(c.here /\ c.verb \in {"resize", "migrateRetry"})
    BY <1>2, <2>2
  <2> QED
    BY <2>1, <2>2
<1>5. CASE c.chain
  <2>1. c.mem \in MEM /\ c.verb = "autoscale" /\ c.here \in BOOLEAN /\ on \in BOOLEAN
    BY <1>2, <1>5 DEF CallOK, Call
  <2>2. ~silent
    BY <1>2, <2>1 DEF CallOK, PanelVerbs
  <2>3. PICK m \in MEM, h \in BOOLEAN, o \in BOOLEAN : m = c.mem /\ h = c.here /\ o = on
    BY Zenon, <2>1
  <2>4. PICK r : r = resize(m)
    OBVIOUS
  <2>5. CallOK(r) /\ r \in Call /\ r.verb = "resize"
    BY Zenon, <2>4, ResizeOK DEF CallOK
  <2>6. PICK n : n = [r EXCEPT !.here = h, !.on = o] /\ n = next
    BY <2>3, <2>4
  <2>7. /\ n \in Call /\ n.verb = r.verb /\ n.chain = r.chain /\ n.mem = r.mem
        /\ n.on = o /\ n.at = r.at /\ n.from = r.from
    BY Zenon, <2>5, <2>6 DEF Call
  <2>8. CallOK(n) /\ n.verb = "resize"
    BY <2>5, <2>7 DEF CallOK
  <2>9. s = onMutate(n, q)[1] /\ e = onMutate(n, q)[2]
    BY Zenon, <2>6
  <2> HIDE DEF q, on, next, silent, s, e, pn
  <2>10. s \in Query /\ e \in Call /\ Like(n, e) /\ CallOK(e)
    BY <1>3, <2>8, <2>9, Mutated
  <2>11. query' = s
    BY <1>1, <1>5, <2>2
  <2>12. e # None /\ e.verb = "resize"
    BY <2>8, <2>10, NullAssumption DEF Like
  <2>13. Render([calls EXCEPT ![i] = e], pn)
    BY <1>1, <1>5
  <2> QED
    BY <1>1, <1>4, <2>10, <2>11, <2>12, <2>13, SettleInv
<1>6. CASE ~c.chain
  <2> HIDE DEF q, on, next, s, e, pn
  <2>1. query' = IF silent THEN query ELSE q
    BY <1>1, <1>6
  <2>2. silent => Inert(c)
    BY <1>2 DEF CallOK, Inert, ComposerVerbs
  <2>3. query' \in Query /\ (Excused(query') \/ (Inert(c) /\ query' = query))
    <3>1. CASE silent
      BY <1>2, <2>1, <2>2, <3>1
    <3>2. CASE ~silent
      <4>1. query' = q
        BY <2>1, <3>2
      <4> QED
        BY <1>3, <4>1 DEF Excused
    <3> QED
      BY <3>1, <3>2
  <2>4. Render([calls EXCEPT ![i] = None], pn)
    BY <1>1, <1>6
  <2> QED
    BY <1>1, <1>4, <2>3, <2>4, SettleInv
<1> QED
  BY <1>5, <1>6

\* onError and onSettled.
LEMMA FailedInv == ASSUME Inv, NEW i \in Slots, Failed(i) PROVE Inv'
<1> DEFINE c == calls[i]
           r == restore(query, c.prev)
           a == restore(invalidateQueries(query), c.prev)
           ad == [a EXCEPT !.drift = a.drift \/ ~Active]
           l == query.fetch \in Rows
           dr == [query EXCEPT !.drift = TRUE, !.late = l]
           pn(full) == IF full THEN [panel EXCEPT !.noCapacity = TRUE] ELSE panel
<1>1. /\ c # None /\ UNCHANGED <<server, page, moves>>
      /\ query' = CASE c.verb = "autoscale" -> ad
                    [] Settling(c) /\ c.verb # "autoscale" -> invalidateQueries(r)
                    [] c.verb \in {"create"} \cup ComposerVerbs -> query
                    [] OTHER -> dr
      /\ \E full \in BOOLEAN : /\ full => c.here /\ c.verb = "resize"
                               /\ Render([calls EXCEPT ![i] = None], pn(full))
  BY Zenon DEF Failed, InFlight
<1>2. /\ query \in Query /\ c \in Call /\ CallOK(c) /\ panel \in Panels \cup {None}
      /\ c.from = "panel" /\ c.here => panel # None
      /\ c.prev \in Rows \cup {None}
  BY <1>1 DEF Inv, TypeInv, TypeOK, CallsOK, Call
<1>3. PICK full \in BOOLEAN : /\ full => c.here /\ c.verb = "resize"
                              /\ Render([calls EXCEPT ![i] = None], pn(full))
  BY <1>1
<1>4. pn(full) \in Panels \cup {None}
  <2>1. CASE full
    <3>1. panel \in Panels
      BY <1>2, <1>3, <2>1 DEF CallOK, PanelVerbs
    <3> QED
      BY Zenon, <2>1, <3>1 DEF Panels
  <2>2. CASE ~full
    BY <1>2, <2>2
  <2> QED
    BY <2>1, <2>2
<1>5. ad \in Query /\ Excused(ad)
  <2> DEFINE q == invalidateQueries(query)
  <2>1. /\ q \in Query /\ (q.fetch \in Rows => q.late) /\ (Active => q.fetch # None)
    BY <1>2, Invalidated
  <2>2. /\ a \in Query /\ a.fetch = q.fetch /\ a.late = q.late
    BY <1>2, <2>1, Restored
  <2>3. PICK b \in BOOLEAN : b = (a.drift \/ ~Active)
    BY Zenon
  <2>4. ad = [a EXCEPT !.drift = b]
    BY <2>3
  <2> HIDE DEF a, ad, q
  <2>5. ad \in Query /\ ad.fetch = a.fetch /\ ad.late = a.late /\ ad.drift = b
    BY Zenon, <2>2, <2>4 DEF Query
  <2> QED
    BY Zenon, <2>1, <2>2, <2>3, <2>5 DEF Excused
<1>6. invalidateQueries(r) \in Query /\ Excused(invalidateQueries(r))
  <2>1. r \in Query
    BY <1>2, Restored
  <2> QED
    BY <2>1, InvalidatedExcused
<1>7. dr \in Query /\ Excused(dr)
  <2>1. l \in BOOLEAN /\ TRUE \in BOOLEAN
    OBVIOUS
  <2> HIDE DEF l
  <2>2. dr \in Query /\ dr.fetch = query.fetch /\ dr.late = l /\ dr.drift = TRUE
    BY Zenon, <1>2, <2>1 DEF Query
  <2> QED
    BY Zenon, <2>2 DEF Excused, l
<1>8. \/ query' = ad \/ query' = invalidateQueries(r) \/ query' = dr
      \/ query' = query /\ Inert(c)
  <2> HIDE DEF ad, r, dr
  <2> QED
    BY <1>1 DEF Inert
<1> HIDE DEF ad, r, dr, pn, c
<1>9. query' \in Query /\ (Excused(query') \/ (Inert(c) /\ query' = query))
  BY <1>2, <1>5, <1>6, <1>7, <1>8
<1> QED
  BY <1>1, <1>3, <1>4, <1>9, SettleInv DEF c

-----------------------------------------------------------------------------
\* A step of the query alone, with a render or without a change of what is on
\* screen.
LEMMA QueryInv ==
  ASSUME Inv, query' \in Query, page' \in Pages, server' \in Rows, moves' \in 0..MOVES,
         \/ Render(calls, panel)
         \/ UNCHANGED <<calls, panel, page>> /\ query'.data = query.data /\ query'.err = query.err,
         Settled => /\ query'.fetch \in Rows /\ ~query'.late => query'.fetch = server'
                    /\ /\ query'.fetch = None /\ ~query'.drift
                       /\ Active' \/ (query'.data # None /\ ~query'.invalid)
                       => query'.data = server'
  PROVE  Inv'
<1>1. TypeOK /\ CallsOK /\ Mounting
  BY DEF Inv, TypeInv
<1>2. /\ TypeInv' /\ \A j \in Slots : Stays(j) /\ (calls[j] # None => calls'[j] # None)
  <2>1. CASE Render(calls, panel)
    <3>1. calls \in [Slots -> Call \cup {None}] /\ panel \in Panels \cup {None}
          /\ \A j \in Slots : calls[j] # None => CallOK(calls[j])
      BY <1>1 DEF TypeOK, CallsOK
    <3>2. /\ calls' \in [Slots -> Call \cup {None}] /\ panel' \in Panels \cup {None}
          /\ Mounting' /\ CallsOK'
          /\ \A j \in Slots : /\ calls[j] = None => calls'[j] = None
                              /\ calls[j] # None => calls'[j] # None /\ Like(calls[j], calls'[j])
      BY <2>1, <3>1, Rendered
    <3> QED
      BY <3>2 DEF TypeInv, TypeOK, Stays
  <2>2. CASE UNCHANGED <<calls, panel, page>> /\ query'.data = query.data /\ query'.err = query.err
    <3>1. TypeOK' /\ CallsOK' /\ Mounting'
      BY <1>1, <2>2 DEF TypeOK, CallsOK, Mounting, Shown, Active
    <3> QED
      BY <2>2, <3>1 DEF TypeInv, Stays, Like
  <2> QED
    BY <2>1, <2>2
<1>3. CacheInv'
  <2>1. Settled' => Settled
    BY <1>2 DEF Settled, Stays, Like, Inert
  <2> QED
    BY <2>1 DEF CacheInv
<1> QED
  BY <1>2, <1>3 DEF Inv

LEMMA PollInv == ASSUME Inv, Poll PROVE Inv'
<1>1. query \in Query /\ page \in Pages /\ server \in Rows /\ moves \in 0..MOVES
  BY DEF Inv, TypeInv, TypeOK
<1>2. query' = Fetching(query) /\ UNCHANGED <<server, calls, page, panel, moves>>
  BY DEF Poll
<1>3. query' \in Query /\ query'.data = query.data /\ query'.fetch = Sent /\ query'.err = query.err
  BY <1>1, <1>2, Refetch
<1> QED
  BY <1>1, <1>2, <1>3, QueryInv, ConsoleAssumption, NullAssumption

LEMMA ReadInv == ASSUME Inv, Read PROVE Inv'
<1>1. query \in Query /\ page \in Pages /\ server \in Rows /\ moves \in 0..MOVES
  BY DEF Inv, TypeInv, TypeOK
<1>2. query' = [query EXCEPT !.fetch = server] /\ UNCHANGED <<server, calls, page, panel, moves>>
  BY DEF Read
<1>3. query' \in Query /\ query'.data = query.data /\ query'.fetch = server /\ query'.err = query.err
  BY Zenon, <1>1, <1>2 DEF Query
<1> QED
  BY <1>1, <1>2, <1>3, QueryInv, NullAssumption

LEMMA DeliveredInv == ASSUME Inv, Delivered PROVE Inv'
<1> DEFINE s == setQueryData(query, query.fetch)
<1>1. query \in Query /\ page \in Pages /\ server \in Rows /\ moves \in 0..MOVES
  BY DEF Inv, TypeInv, TypeOK
<1>2. /\ query.fetch \in Rows /\ Render(calls, panel) /\ UNCHANGED <<server, page, moves>>
      /\ query' = [s EXCEPT !.fetch = None, !.drift = query.late, !.late = FALSE]
  BY DEF Delivered
<1>3. s \in Query /\ s.data = query.fetch
  BY <1>1, <1>2, SetData
<1> HIDE DEF s
<1>4. query.late \in BOOLEAN /\ FALSE \in BOOLEAN
  BY <1>1 DEF Query
<1>5. query' \in Query /\ query'.data = query.fetch /\ query'.fetch = None
      /\ query'.drift = query.late
  BY Zenon, <1>2, <1>3, <1>4 DEF Query
<1>6. Settled /\ ~query.late => query.fetch = server
  BY <1>2 DEF Inv, CacheInv
<1> QED
  BY <1>1, <1>2, <1>5, <1>6, QueryInv, NullAssumption

LEMMA FetchFailsInv == ASSUME Inv, FetchFails PROVE Inv'
<1>1. query \in Query /\ page \in Pages /\ server \in Rows /\ moves \in 0..MOVES
  BY DEF Inv, TypeInv, TypeOK
<1>2. /\ Render(calls, panel) /\ UNCHANGED <<server, page, moves>>
      /\ query' = [query EXCEPT !.fetch = None, !.err = TRUE, !.drift = TRUE, !.late = FALSE]
      /\ {TRUE, FALSE} \subseteq BOOLEAN
  BY DEF FetchFails
<1>3. query' \in Query /\ query'.fetch = None /\ query'.drift = TRUE
  BY Zenon, <1>1, <1>2 DEF Query
<1> QED
  BY <1>1, <1>2, <1>3, QueryInv, NullAssumption

LEMMA VisitInv == ASSUME Inv, NEW p \in Pages, Visit(p) PROVE Inv'
<1>1. query \in Query /\ page \in Pages /\ server \in Rows /\ moves \in 0..MOVES
  BY DEF Inv, TypeInv, TypeOK
<1>2. page' = p /\ Render(calls, panel) /\ UNCHANGED <<server, moves>>
  BY DEF Visit
<1>3. CASE query' = Fetching(query)
  <2>1. query' \in Query /\ query'.fetch = Sent
    BY <1>1, <1>3, Refetch
  <2> QED
    BY <1>1, <1>2, <2>1, QueryInv, ConsoleAssumption, NullAssumption
<1>4. CASE /\ UNCHANGED query
           /\ p \in WorkPages /\ ~Active
                => query.fetch # None \/ (query.data # None /\ ~query.invalid)
  <2>1. Active' = (p \in WorkPages)
    BY <1>2 DEF Active
  <2>2. Settled => /\ query.fetch \in Rows /\ ~query.late => query.fetch = server
                   /\ /\ query.fetch = None /\ ~query.drift
                      /\ Active' \/ (query.data # None /\ ~query.invalid)
                      => query.data = server
    BY Zenon, <1>4, <2>1 DEF Inv, CacheInv
  <2> QED
    BY <1>1, <1>2, <1>4, <2>2, QueryInv
<1> QED
  BY <1>3, <1>4 DEF Visit

LEMMA WorldInv == ASSUME Inv, World PROVE Inv'
<1> DEFINE l == query.late \/ query.fetch \in Rows
<1>1. query \in Query /\ page \in Pages /\ server \in Rows /\ moves \in 0..MOVES
  BY DEF Inv, TypeInv, TypeOK
<1>2. /\ query' = [query EXCEPT !.drift = TRUE, !.late = l] /\ UNCHANGED <<calls, page, panel>>
      /\ TRUE \in BOOLEAN /\ l \in BOOLEAN
  BY DEF World
<1>3. moves' \in 0..MOVES
  BY <1>1, ConsoleAssumption DEF World, Move
<1>4. server' \in Rows
  <2>1. \/ \E m \in MEM : server' = [server EXCEPT !.mem = m]
        \/ \E t \in Written : server' = [server EXCEPT !.state = t]
        \/ server' = [server EXCEPT !.state = Claimed(server.state)]
        \/ server' = [server EXCEPT !.auto = ~server.auto]
    BY Zenon DEF World, UpdateSandboxGeometry, SetSandboxState, TransitionSandbox,
                 SetSandboxAutoscale
  <2>2. Written \subseteq States /\ Claimed(server.state) \in States
    BY DEF Written, Claimed, States
  <2> QED
    BY <1>1, <2>1, <2>2 DEF Rows
<1> HIDE DEF l
<1>5. query' \in Query /\ query'.data = query.data /\ query'.err = query.err
      /\ query'.fetch = query.fetch /\ query'.drift = TRUE /\ query'.late = l
  BY Zenon, <1>1, <1>2 DEF Query
<1>6. query'.fetch \in Rows => query'.late
  BY Zenon, <1>5 DEF l
<1> QED
  BY <1>1, <1>2, <1>3, <1>4, <1>5, <1>6, QueryInv

-----------------------------------------------------------------------------
\* A button, menu entry or dialog sends a mutation of the plain kind.
LEMMA ClickInv ==
  ASSUME Inv, NEW v \in HeaderVerbs \cup {"exec", "checkpoint", "rollback"},
         NEW k \in Components, k = "composer" => v \in ComposerVerbs,
         mutate(New(v, k))
  PROVE  Inv'
<1>1. PICK c : c = New(v, k)
  OBVIOUS
<1>2. CallOK(c)
  BY <1>1, NewOK
<1> QED
  BY <1>1, <1>2, SendInv

LEMMA SubmitInv ==
  ASSUME Inv, NEW k \in {"list", "palette"}, Submit(k) PROVE Inv'
<1>1. PICK ok \in SubmitVerdicts : mutate(create(k, ok))
  BY DEF Submit
<1>2. k \in Components \ {"composer"}
  BY DEF Components
<1>3. PICK c : c = create(k, ok)
  OBVIOUS
<1>4. CallOK(c)
  BY <1>2, <1>3, CreateOK
<1> QED
  BY <1>1, <1>3, <1>4, SendInv

\* The controls of the resources panel.
LEMMA PanelInv ==
  ASSUME Inv, ApplyResize \/ Toggle \/ TurnOffAndApply \/ MigrateRetry
  PROVE  Inv'
<1>1. panel # None /\ panel \in Panels /\ query.data \in Rows
  BY DEF ApplyResize, Toggle, TurnOffAndApply, MigrateRetry, Inv, TypeInv, TypeOK, Mounting,
         Shown, Query
<1>2. panel.mem \in MEM /\ query.data.auto \in BOOLEAN
  BY <1>1 DEF Panels, Rows
<1>3. CASE ApplyResize
  <2>1. PICK c : c = resize(panel.mem)
    OBVIOUS
  <2>2. CallOK(c)
    BY <1>2, <2>1, ResizeOK
  <2> QED
    BY <1>3, <2>1, <2>2, SendInv DEF ApplyResize
<1>4. CASE MigrateRetry
  <2>1. PICK m \in MEM \cup {None} : m = IF dirty THEN panel.mem ELSE None
    BY <1>2
  <2>2. PICK c : c = migrateRetry(m)
    OBVIOUS
  <2>3. CallOK(c)
    BY <2>2, RetryOK
  <2>4. mutate(c)
    BY <1>4, <2>1, <2>2 DEF MigrateRetry
  <2> QED
    BY <2>3, <2>4, SendInv
<1>5. CASE Toggle
  <2>1. PICK on \in BOOLEAN : on = ~query.data.auto
    BY Zenon
  <2>2. PICK c : c = setAutoscale(on)
    OBVIOUS
  <2>3. CallOK(c) /\ c.verb = "autoscale"
    BY <2>2, AutoscaleOK
  <2>4. flipAutoscale(c)
    BY <1>5, <2>1, <2>2 DEF Toggle
  <2> QED
    BY <1>1, <2>3, <2>4, FlipInv
<1>6. CASE TurnOffAndApply
  <2>1. PICK s : s = setAutoscale(FALSE)
    BY Zenon
  <2>2. CallOK(s) /\ s \in Call /\ s.verb = "autoscale"
    BY Zenon, <2>1, AutoscaleOK DEF CallOK
  <2>3. PICK c : c = [s EXCEPT !.chain = TRUE, !.mem = panel.mem]
    OBVIOUS
  <2>4. TRUE \in BOOLEAN /\ panel.mem \in MEM \cup {None}
    BY <1>2
  <2>5. /\ c \in Call /\ c.verb = s.verb /\ c.from = s.from /\ c.chain = TRUE
        /\ c.at = s.at /\ c.on = s.on /\ c.mem = panel.mem
    BY Zenon, <2>2, <2>3, <2>4 DEF Call
  <2>6. CallOK(c)
    BY <1>2, <2>2, <2>5 DEF CallOK
  <2>7. flipAutoscale(c)
    BY Zenon, <1>6, <2>1, <2>3 DEF TurnOffAndApply
  <2> QED
    BY <1>1, <2>2, <2>5, <2>6, <2>7, FlipInv
<1> QED
  BY <1>3, <1>4, <1>5, <1>6

LEMMA UserInv == ASSUME Inv, User PROVE Inv'
<1>1. ASSUME NEW v \in HeaderVerbs, Click(v) \/ ClickInList(v) PROVE Inv'
  <2>1. CASE Click(v)
    BY <2>1, ClickInv DEF Click, Components
  <2>2. CASE ClickInList(v)
    BY <2>2, ClickInv DEF ClickInList, Components
  <2> QED
    BY <1>1, <2>1, <2>2
<1>2. ASSUME NEW v \in ComposerVerbs, Compose(v) PROVE Inv'
  <2>1. v \in HeaderVerbs \cup {"exec", "checkpoint", "rollback"}
    BY DEF ComposerVerbs, HeaderVerbs
  <2> QED
    BY <1>2, <2>1, ClickInv DEF Compose, Components
<1>3. CASE Kill \/ KillInList \/ KillInSettings
  <2>1. "kill" \in HeaderVerbs /\ {"header", "list", "settings"} \subseteq Components
    BY DEF HeaderVerbs, Components
  <2> QED
    BY <1>3, <2>1, ClickInv DEF Kill, KillInList, KillInSettings, Confirm
<1>4. CASE Rollback
  BY <1>4, ClickInv DEF Rollback, Confirm, Components
<1>5. CASE ForkCheckpoint
  BY <1>5, ClickInv DEF ForkCheckpoint, HeaderVerbs, Components
<1>6. CASE Place
  BY <1>6, ClickInv DEF Place, HeaderVerbs, Components
<1>7. CASE Submit("list") \/ Submit("palette")
  BY <1>7, SubmitInv
<1>8. ASSUME NEW m \in MEM, SetMem(m) PROVE Inv'
  BY <1>8, SetMemInv
<1>9. CASE ApplyResize \/ Toggle \/ TurnOffAndApply \/ MigrateRetry
  BY <1>9, PanelInv
<1>10. ASSUME NEW p \in Pages, Visit(p) PROVE Inv'
  BY <1>10, VisitInv
<1> QED
  BY <1>1, <1>2, <1>3, <1>4, <1>5, <1>6, <1>7, <1>8, <1>9, <1>10 DEF User

-----------------------------------------------------------------------------
LEMMA InitInv == Init => Inv
<1> SUFFICES ASSUME Init PROVE Inv
  OBVIOUS
<1>1. server \in Rows /\ query \in Query
  BY ConsoleAssumption DEF Init, Rows, States, Query
<1>2. \A i \in Slots : calls[i] = None
  BY DEF Init
<1>3. TypeInv
  BY <1>1, <1>2, ConsoleAssumption
     DEF Init, TypeInv, TypeOK, CallsOK, Mounting, Shown, Active, Pages, WorkPages
<1>4. CacheInv
  BY NullAssumption DEF Init, CacheInv, Active, WorkPages
<1> QED
  BY <1>2, <1>3, <1>4 DEF Inv, Settled

\* Every handler, answer, poll and move of the server preserves the invariant.
LEMMA NextInv == Inv /\ [Next]_vars => Inv'
<1> SUFFICES ASSUME Inv, [Next]_vars PROVE Inv'
  OBVIOUS
<1>1. CASE User
  BY <1>1, UserInv
<1>2. ASSUME NEW i \in Slots, Begin(i) \/ Serve(i) \/ Answered(i) \/ Failed(i)
      PROVE  Inv'
  BY <1>2, BeginInv, ServeInv, AnsweredInv, FailedInv
<1>3. CASE Poll \/ Read \/ Delivered \/ FetchFails \/ World
  BY <1>3, PollInv, ReadInv, DeliveredInv, FetchFailsInv, WorldInv
<1>4. CASE UNCHANGED vars
  <2>1. UNCHANGED <<server, query, calls, page, panel, moves>>
    BY <1>4 DEF vars
  <2>2. TypeInv'
    BY <2>1 DEF Inv, TypeInv, TypeOK, CallsOK, Mounting, Shown, Active
  <2>3. CacheInv'
    BY <2>1 DEF Inv, CacheInv, Settled, Active
  <2> QED
    BY <2>2, <2>3 DEF Inv
<1> QED
  BY <1>1, <1>2, <1>3, <1>4 DEF Next

LEMMA AlwaysInv == Spec => []Inv
BY InitInv, NextInv, PTL DEF Spec

\* Rows, queries, mutations and the panel keep the shapes of types.ts
\* through every patch, rollback and chained resize.
THEOREM TypesKept == Spec => []TypeOK
<1>1. Inv => TypeOK
  BY DEF Inv, TypeInv
<1> QED
  BY <1>1, AlwaysInv, PTL

\* Once the verbs in flight are settled, a row on screen that nothing is about
\* to refresh is the server's: useSandboxAction's patches, rollbacks and
\* invalidations leave no wrong row behind, however many overlap.
THEOREM CacheSettles == Spec => []CacheTrue
<1>1. Inv => CacheTrue
  BY DEF Inv, CacheInv, CacheTrue, Settled, InFlight
<1> QED
  BY <1>1, AlwaysInv, PTL

-----------------------------------------------------------------------------
(* The create dialog: one lemma for each of its modes *)

LEMMA Limits == /\ MAX_VCPUS \in Nat /\ 8 <= MAX_VCPUS
                /\ MAX_DISK_GIB \in Nat
                /\ MAX_MEMORY_MIB \in Nat /\ 8192 <= MAX_MEMORY_MIB
BY DEF MAX_VCPUS, MAX_DISK_GIB, MAX_MEMORY_MIB

\* What a form holds: whole numbers, and the native limits of its inputs.
LEMMA FormFields ==
  ASSUME NEW f \in Forms
  PROVE  /\ f.size \in Sizes
         /\ f.size.vcpus \in Nat /\ f.size.memory_mib \in Nat /\ f.size.data_disk_gib \in Nat
         /\ f.size.max_vcpus \in Nat /\ f.size.max_memory_mib \in Nat
BY Zenon, GeometryAssumption DEF Forms, Sizes

\* The disk submit() sends: 15 GiB is the default, and is not sent.
LEMMA SentDisk ==
  ASSUME NEW g \in Sizes, NEW h,
         h = [g EXCEPT !.data_disk_gib = IF g.data_disk_gib = 15 THEN 0 ELSE g.data_disk_gib]
  PROVE  /\ h.vcpus = g.vcpus /\ h.memory_mib = g.memory_mib
         /\ h.max_vcpus = g.max_vcpus /\ h.max_memory_mib = g.max_memory_mib
         /\ h.data_disk_gib \in {0, g.data_disk_gib}
         /\ h \in [vcpus : VCPUS, memory_mib : MEMORY, data_disk_gib : DISKS \cup {0},
                   max_vcpus : VCPUS, max_memory_mib : MEMORY]
BY DEF Sizes

\* A sandbox of fixed size.
LEMMA FixedFares ==
  ASSUME NEW f \in Forms, f.mode = "fixed", inputsValid(f), ~validationError(f), ~Disabled
  PROVE  Fares(f)
<1> DEFINE g == f.size
           h == [g EXCEPT !.data_disk_gib = IF @ = 15 THEN 0 ELSE @]
           z == Fixed(h)
           b == body(f)
           r == resolveGeometry(b)
<1>1. /\ g \in Sizes /\ g.vcpus \in Nat /\ g.memory_mib \in Nat /\ g.data_disk_gib \in Nat
  BY FormFields
<1>2. /\ h.vcpus = g.vcpus /\ h.memory_mib = g.memory_mib
      /\ h.data_disk_gib \in {0, g.data_disk_gib}
      /\ h \in [vcpus : VCPUS, memory_mib : MEMORY, data_disk_gib : DISKS \cup {0},
                max_vcpus : VCPUS, max_memory_mib : MEMORY]
  BY <1>1, SentDisk
<1>3. b = [size |-> z, autoscale |-> "nil"]
  BY DEF body
<1> HIDE DEF h
<1>4. /\ z.vcpus = g.vcpus /\ z.memory_mib = g.memory_mib
      /\ z.data_disk_gib \in {0, g.data_disk_gib} /\ z.max_vcpus = 0 /\ z.max_memory_mib = 0
      /\ z \in [vcpus : VCPUS, memory_mib : MEMORY, data_disk_gib : DISKS \cup {0},
                max_vcpus : VCPUS \cup {0}, max_memory_mib : MEMORY \cup {0}]
  BY Zenon, <1>2 DEF Fixed
<1>5. /\ g.vcpus \in 1..MAX_VCPUS /\ g.memory_mib >= 128 /\ g.memory_mib <= MAX_MEMORY_MIB
      /\ g.data_disk_gib \in 1..MAX_DISK_GIB
  <2>1. validateGeometry(Fixed(g), "nil")
    BY DEF validationError
  <2>2. Fixed(g).memory_mib = g.memory_mib
    BY <1>1 DEF Fixed, Sizes
  <2>3. g.memory_mib <= MAX_MEMORY_MIB
    BY <1>1, <2>1, <2>2, Limits DEF validateGeometry
  <2> QED
    BY <1>1, <2>3, Limits DEF inputsValid, baseInputs
<1> HIDE DEF z
<1>6. baseGiven(b.size) /\ ~maxGiven(b.size)
  BY <1>3, <1>4, <1>5 DEF baseGiven, maxGiven
<1> DEFINE y == [z EXCEPT !.data_disk_gib = Default(@, 15)]
<1>7. /\ y.vcpus = z.vcpus /\ y.memory_mib = z.memory_mib /\ y.max_vcpus = 0 /\ y.max_memory_mib = 0
      /\ y \in [vcpus : VCPUS, memory_mib : MEMORY, data_disk_gib : DISKS \cup {0, 15},
                max_vcpus : VCPUS \cup {0}, max_memory_mib : MEMORY \cup {0}]
  BY <1>4 DEF Default
<1>8. r = [b EXCEPT !.size = [y EXCEPT !.vcpus = Default(@, 1), !.memory_mib = Default(@, 256)]]
  <2>1. b.size = z /\ baseGiven(y) /\ ~maxGiven(y)
    BY <1>3, <1>4, <1>5, <1>7 DEF baseGiven, maxGiven
  <2> QED
    BY <2>1 DEF resolveGeometry
<1> HIDE DEF y
<1> DEFINE x == [y EXCEPT !.vcpus = Default(@, 1), !.memory_mib = Default(@, 256)]
<1>11. x.max_vcpus = 0 /\ x.max_memory_mib = 0
  BY <1>7
<1>9. r.autoscale = "nil" /\ r.size = x
  BY <1>3, <1>8
<1> HIDE DEF b, r
<1>12. validateCeilings(r.size)
  BY <1>11, <1>9 DEF validateCeilings
<1> QED
  <2>1. /\ z.vcpus \in 0..MAX_VCPUS /\ z.memory_mib \in 0..MAX_MEMORY_MIB
        /\ z.data_disk_gib \in 0..MAX_DISK_GIB
    BY <1>1, <1>4, <1>5, Limits
  <2>2. b.size = z /\ b.autoscale = "nil"
    BY <1>3
  <2>3. Accepts(b)
    BY <1>9, <1>12, <2>1, <2>2 DEF Accepts, r
  <2> QED
    BY <2>3 DEF Fares, b

\* A sandbox whose base and ceiling are typed in.
LEMMA AdvancedFares ==
  ASSUME NEW f \in Forms, f.mode = "advanced", inputsValid(f), ~validationError(f), ~Disabled
  PROVE  Fares(f)
<1> DEFINE g == f.size
           h == [g EXCEPT !.data_disk_gib = IF @ = 15 THEN 0 ELSE @]
           y == [h EXCEPT !.data_disk_gib = Default(@, 15)]
           b == body(f)
           r == resolveGeometry(b)
<1>1. /\ g \in Sizes /\ g.vcpus \in Nat /\ g.memory_mib \in Nat /\ g.data_disk_gib \in Nat
      /\ g.max_vcpus \in Nat /\ g.max_memory_mib \in Nat
  BY FormFields
<1>2. /\ h.vcpus = g.vcpus /\ h.memory_mib = g.memory_mib
      /\ h.max_vcpus = g.max_vcpus /\ h.max_memory_mib = g.max_memory_mib
      /\ h.data_disk_gib \in {0, g.data_disk_gib}
      /\ h \in [vcpus : VCPUS, memory_mib : MEMORY, data_disk_gib : DISKS \cup {0},
                max_vcpus : VCPUS, max_memory_mib : MEMORY]
  BY <1>1, SentDisk
<1>3. b = [size |-> h, autoscale |-> f.autoscale]
  BY DEF body
<1> HIDE DEF h
<1>4. /\ y.vcpus = h.vcpus /\ y.memory_mib = h.memory_mib
      /\ y.max_vcpus = h.max_vcpus /\ y.max_memory_mib = h.max_memory_mib
  BY <1>2 DEF Default
<1> HIDE DEF y
<1>5. /\ g.vcpus \in 1..MAX_VCPUS /\ g.memory_mib >= 128 /\ g.data_disk_gib \in 1..MAX_DISK_GIB
      /\ g.max_vcpus \in g.vcpus..MAX_VCPUS /\ g.max_memory_mib >= g.memory_mib
  <2>1. g.data_disk_gib \in 1..MAX_DISK_GIB /\ baseInputs(g) /\ ceilingInputs(g)
    BY DEF inputsValid
  <2> QED
    BY <2>1 DEF baseInputs, ceilingInputs
<1>6. g.memory_mib <= MAX_MEMORY_MIB /\ g.max_memory_mib <= MAX_MEMORY_MIB
  <2>1. validateGeometry(g, f.autoscale)
    BY DEF validationError
  <2> QED
    BY <1>1, <2>1, Limits DEF validateGeometry
<1>7. baseGiven(y) /\ maxGiven(y) /\ maxGiven(h) /\ b.size = h
  BY <1>1, <1>2, <1>3, <1>4, <1>5 DEF baseGiven, maxGiven
<1>8. r = [b EXCEPT !.size = y]
  <2>1. y = [b.size EXCEPT !.data_disk_gib = Default(@, 15)]
    BY <1>7 DEF y
  <2> HIDE DEF b
  <2> QED
    BY <1>7, <2>1 DEF resolveGeometry
<1>9. r.size = y
  BY <1>3, <1>8
<1> HIDE DEF b, r
<1>10. validateCeilings(y)
  BY <1>1, <1>2, <1>4, <1>5, <1>6, Limits DEF validateCeilings
<1>11. /\ h.vcpus \in 0..MAX_VCPUS /\ h.memory_mib \in 0..MAX_MEMORY_MIB
       /\ h.data_disk_gib \in 0..MAX_DISK_GIB
  BY <1>1, <1>2, <1>5, <1>6, Limits
<1>12. Accepts(b)
  BY <1>7, <1>9, <1>10, <1>11 DEF Accepts, r
<1>13. Stored(b) = effectiveCeiling(g.memory_mib, g.max_memory_mib)
  <2>1. Stored(b) = IF g.max_memory_mib > g.memory_mib
                    THEN g.memory_mib + roundUpToSlot(g.max_memory_mib - g.memory_mib)
                    ELSE g.max_memory_mib
    BY <1>2, <1>4, <1>9 DEF Stored, r
  <2>2. CASE g.max_memory_mib > g.memory_mib
    BY <1>1, <2>1, <2>2 DEF effectiveCeiling
  <2>3. CASE g.max_memory_mib = g.memory_mib
    BY <1>1, <2>1, <2>3 DEF effectiveCeiling
  <2> QED
    BY <1>1, <1>5, <2>2, <2>3
<1> QED
  BY <1>12, <1>13 DEF Fares, b

\* A preset: the base is left to the control plane.
LEMMA SimpleFares ==
  ASSUME NEW f \in Forms, f.mode = "simple", inputsValid(f), ~Disabled
  PROVE  Fares(f)
<1> DEFINE g == f.size
           h == [g EXCEPT !.data_disk_gib = IF @ = 15 THEN 0 ELSE @]
           p == ELASTIC_PRESETS[f.preset]
           z == [h EXCEPT !.vcpus = 0, !.memory_mib = 0, !.max_memory_mib = p[1], !.max_vcpus = p[2]]
           y == [z EXCEPT !.data_disk_gib = Default(@, 15)]
           x == [y EXCEPT !.vcpus = 1, !.memory_mib = 256,
                          !.max_vcpus = IF maxGiven(y) THEN @ ELSE 4,
                          !.max_memory_mib = IF maxGiven(y) THEN @ ELSE 4096]
           b == body(f)
           r == resolveGeometry(b)
<1> HIDE DEF h, p, z, y, x, b, r
<1>1. /\ g \in Sizes /\ g.data_disk_gib \in Nat /\ g.data_disk_gib \in 1..MAX_DISK_GIB
  BY FormFields DEF inputsValid
<1>2. /\ h.data_disk_gib \in {0, g.data_disk_gib}
      /\ h \in [vcpus : VCPUS, memory_mib : MEMORY, data_disk_gib : DISKS \cup {0},
                max_vcpus : VCPUS, max_memory_mib : MEMORY]
  BY <1>1, SentDisk DEF h
<1>3. b = [size |-> z, autoscale |-> "nil"]
  BY DEF body, b, z, h, p
<1>4. p \in {<<0, 0>>, <<1024, 1>>, <<8192, 8>>}
  <2>1. f.preset \in {"standard", "small", "large"}
    BY DEF Forms
  <2> QED
    BY <2>1 DEF p, ELASTIC_PRESETS
<1>5. /\ z.vcpus = 0 /\ z.memory_mib = 0 /\ z.data_disk_gib = h.data_disk_gib
      /\ z.max_memory_mib = p[1] /\ z.max_vcpus = p[2]
      /\ z \in [vcpus : Nat, memory_mib : Nat, data_disk_gib : DISKS \cup {0},
                max_vcpus : Nat, max_memory_mib : Nat]
  <2>1. p[1] \in Nat /\ p[2] \in Nat
    BY <1>4
  <2> QED
    BY Zenon, <1>2, <2>1 DEF z
<1>6. /\ y.vcpus = 0 /\ y.memory_mib = 0 /\ y.max_memory_mib = p[1] /\ y.max_vcpus = p[2]
      /\ y \in [vcpus : Nat, memory_mib : Nat, data_disk_gib : DISKS \cup {0, 15},
                max_vcpus : Nat, max_memory_mib : Nat]
  BY <1>5 DEF y, Default
<1>7. /\ x.vcpus = 1 /\ x.memory_mib = 256
      /\ x.max_vcpus = IF maxGiven(y) THEN y.max_vcpus ELSE 4
      /\ x.max_memory_mib = IF maxGiven(y) THEN y.max_memory_mib ELSE 4096
  BY <1>6 DEF x
<1>8. r = [size |-> x, autoscale |-> "on"]
  <2>1. b.size = z /\ b.autoscale = "nil"
    BY <1>3
  <2>2. ~baseGiven(y)
    BY <1>6 DEF baseGiven
  <2>3. y = [b.size EXCEPT !.data_disk_gib = Default(@, 15)]
    BY <2>1 DEF y
  <2> QED
    BY <2>1, <2>2, <2>3 DEF resolveGeometry, r, x
<1>9. x.max_vcpus \in {1, 4, 8} /\ x.max_memory_mib \in {1024, 4096, 8192}
  BY <1>4, <1>6, <1>7 DEF maxGiven
<1>10. validateCeilings(x) /\ maxGiven(x)
  BY <1>7, <1>9, Limits DEF validateCeilings, maxGiven
<1>11. /\ z.vcpus \in 0..MAX_VCPUS /\ z.memory_mib \in 0..MAX_MEMORY_MIB
       /\ z.data_disk_gib \in 0..MAX_DISK_GIB
  BY <1>1, <1>2, <1>5, Limits
<1>12. Accepts(b)
  <2>1. b.size = z /\ b.autoscale = "nil" /\ r.size = x
    BY <1>3, <1>8
  <2> QED
    BY <1>10, <1>11, <2>1 DEF Accepts, r
<1> QED
  BY <1>12 DEF Fares, b

\* With elastic defaults on, every form the browser and the dialog let
\* through is accepted by the control plane, and an advanced one stored with
\* the ceiling slotRoundingHint announced (validateGeometry of geometry.ts
\* against validateGeometry, resolveGeometry and validateCeilings in Go).
THEOREM DialogAgrees ==
  ASSUME ~Disabled
  PROVE  \A verdict \in SubmitVerdicts : verdict
<1> SUFFICES ASSUME NEW f \in Forms, inputsValid(f), ~validationError(f)
             PROVE  Fares(f)
  BY DEF SubmitVerdicts
<1>1. f.mode \in {"simple", "advanced", "fixed"}
  BY DEF Forms
<1> QED
  BY <1>1, SimpleFares, AdvancedFares, FixedFares

\* With elastic defaults on, every create in flight carries a geometry the
\* control plane accepts and stores as announced: the dialog and the server
\* agree (DialogAgrees), and nothing alters a body on its way.
THEOREM CreatesAccepted ==
  ASSUME ~Disabled
  PROVE  Spec => []CreateAccepted
<1>1. Inv => CreateAccepted
  <2> SUFFICES ASSUME Inv PROVE CreateAccepted
    OBVIOUS
  <2>1. \A verdict \in SubmitVerdicts : verdict
    BY DialogAgrees
  <2>2. ASSUME NEW i \in InFlight, calls[i].verb = "create" PROVE calls[i].on
    <3>1. calls[i].on \in SubmitVerdicts
      BY <2>2 DEF Inv, TypeInv, CallsOK, CallOK, InFlight
    <3> QED
      BY <2>1, <3>1
  <2> QED
    BY <2>2 DEF CreateAccepted
<1> QED
  BY <1>1, AlwaysInv, PTL
=============================================================================
