------------------------------- MODULE Console --------------------------------
(***************************************************************************)
(* One sandbox in the console: its row in the query cache, the polls and   *)
(* refetches that fill it, the verbs that patch it optimistically and roll *)
(* it back (useSandboxAction and the mutations beside it), the pages whose *)
(* buttons and dialogs send them, and the resources panel with its own     *)
(* copy of the size.                                                       *)
(*                                                                         *)
(* The cache holds the row twice, in the query of the sandbox and in that  *)
(* of the list.  Every handler does the same to both (but flipAutoscale,   *)
(* which patches the first), so the first is the one modelled; the list    *)
(* shows a row of its own, and its menu offers what that row allows.       *)
(*                                                                         *)
(* A handler is one step of the JavaScript thread; a render is taken with  *)
(* the change that causes it, so a button is never clicked between a verb  *)
(* and the isPending that disables it.                                     *)
(***************************************************************************)
EXTENDS Geometry, FiniteSets

CONSTANTS Slots,        \* bound: mutations in flight at once
          MOVES,        \* bound: verbs sent and changes the server makes on its own
          MEM,          \* sizes of the sandbox
          None, Sent    \* null; a request the server has not read yet

\* null is no value of the other kinds, and the server's row has a size.
ASSUME ConsoleAssumption ==
  MOVES \in Nat /\ MEM # {} /\ None \notin MEM /\ None # Sent

VARIABLES
  server,    \* the row of the sandbox in the control plane
  query,     \* ["sandboxes", id] in the cache
  calls,     \* the mutations in flight
  page,      \* "overview" or "tabs" (checkpoints, settings) of the sandbox's
             \* workspace, or "list": every page outside the workspace
  panel,     \* useState of the ResourcesPanel while it is mounted
  moves      \* counts against MOVES

vars == <<server, query, calls, page, panel, moves>>

States == {"RUNNING", "PAUSING", "PAUSED_HOT", "RESUMING", "FAILED", "STOPPED"}
Rows == [state : States, mem : MEM, auto : BOOLEAN]
Panels == [mem : MEM, noCapacity : BOOLEAN]

(***************************************************************************)
(* A query: its data, isInvalidated, whether the last fetch failed, and    *)
(* the fetch in flight (Sent, or the row read).  Two ghosts say why the    *)
(* data may lag: drift, something no mutation settles changed the row or   *)
(* kept it from being read since; late, the same of the row in flight.     *)
(***************************************************************************)
Query == [data : Rows \cup {None}, invalid : BOOLEAN, err : BOOLEAN,
          fetch : Rows \cup {None, Sent}, drift : BOOLEAN, late : BOOLEAN]

WorkPages == {"overview", "tabs"}
Pages == WorkPages \cup {"list"}
Active == page \in WorkPages
Shown == Active /\ query.data # None /\ ~query.err

setQueryData(q, d) == [q EXCEPT !.data = d, !.invalid = FALSE, !.err = FALSE]
Fetching(q) == [q EXCEPT !.fetch = Sent, !.late = FALSE]

\* A fetch that outlives an invalidation delivers what it read before it.
invalidateQueries(q) ==
  IF Active /\ (q.fetch = None \/ q.data # None) THEN Fetching([q EXCEPT !.invalid = TRUE])
  ELSE [q EXCEPT !.invalid = TRUE, !.late = @ \/ q.fetch \in Rows]

-----------------------------------------------------------------------------
(***************************************************************************)
(* Mutations.  prev is what onError puts back; from is the component that  *)
(* sent it and here whether that is still mounted, so that its isPending   *)
(* counts.  on is the value of a toggle, whether the body of a resize has  *)
(* the size, and the verdict on the body of a create.                      *)
(***************************************************************************)
Components == {"list", "header", "panel", "composer", "timeline", "settings", "palette"}
HeaderVerbs == {"pause", "resume", "snapshot", "fork", "migrate", "kill"}
PanelVerbs == {"resize", "autoscale", "migrateRetry"}
Verbs == HeaderVerbs \cup PanelVerbs \cup {"exec", "checkpoint", "rollback", "create"}
\* Sent through useSandboxAction, which refetches the row when they settle.
Settling(c) == /\ c.verb \in HeaderVerbs \cup {"resize", "autoscale"}
               /\ c.from \notin {"composer", "timeline"}

Call == [verb : Verbs, mem : MEM \cup {None}, on : BOOLEAN \cup {None}, chain : BOOLEAN,
         at : {"sent", "serving", "done"}, ok : BOOLEAN,
         prev : Rows \cup {None}, here : BOOLEAN, from : Components]
New(v, k) == [verb |-> v, mem |-> None, on |-> None, chain |-> FALSE, at |-> "sent", ok |-> FALSE,
           prev |-> None, here |-> TRUE, from |-> k]

ASSUME NullAssumption ==
  None \notin Rows /\ None \notin Call /\ None \notin Panels /\ Sent \notin Rows

Move == moves < MOVES /\ moves' = moves + 1
Free(i) == /\ calls[i] = None /\ \A j \in Slots : calls[j] = None => i <= j
           /\ Move
InFlight == {i \in Slots : calls[i] # None}
\* isPending, which disables a Button.
Pending(v, k) == \E i \in InFlight : calls[i].verb = v /\ calls[i].from = k /\ calls[i].here

patch(c, sb) ==
  CASE c.verb = "pause"  -> [sb EXCEPT !.state = "PAUSING"]
    [] c.verb = "resume" -> [sb EXCEPT !.state = "RESUMING"]
    [] c.verb = "resize" -> [sb EXCEPT !.mem = c.mem]
    [] OTHER             -> sb

\* onMutate of useSandboxAction: the query and the call after it.
onMutate(c, q) ==
  IF c.verb \in {"pause", "resume", "resize"} /\ q.data # None
  THEN <<setQueryData(q, patch(c, q.data)), [c EXCEPT !.prev = q.data]>>
  ELSE <<q, c>>

restore(q, prev) == IF prev = None THEN q ELSE setQueryData(q, prev)

-----------------------------------------------------------------------------
\* What a render leaves of the components' state: those of a page or a tab
\* that is gone, or of a workspace whose row failed to load, are unmounted.
Mounted(c, shown, p) ==
  CASE c.from = "palette" -> TRUE
    [] c.from = "list"    -> p = "list"
    [] c.from = "header"  -> shown
    [] c.from = "panel"   -> shown /\ p = "overview"
    [] OTHER              -> shown /\ p = "tabs"

Render(cs, pn) ==
  LET shown == Shown'
      p == page'
  IN /\ calls' = [i \in Slots |-> IF cs[i] = None THEN None
                                  ELSE [cs[i] EXCEPT !.here = @ /\ Mounted(cs[i], shown, p)]]
     /\ panel' = IF ~(shown /\ p = "overview") THEN None
                 ELSE IF pn # None THEN pn
                 ELSE [mem |-> query'.data.mem, noCapacity |-> FALSE]

mutate(c) ==
  \E i \in Slots :
    /\ Free(i)
    /\ query' = onMutate(c, query)[1]
    /\ UNCHANGED <<server, page>>
    /\ Render([calls EXCEPT ![i] = onMutate(c, query)[2]], panel)

PausedLike(s) == s \in {"PAUSED_HOT", "FAILED"}
Offered(v, state) ==
  \/ v \in {"pause", "snapshot", "fork"} /\ state = "RUNNING"
  \/ v = "resume" /\ PausedLike(state)
  \/ v = "migrate" /\ state \in {"RUNNING", "PAUSED_HOT"}

\* A button of the workspace header, or an entry of its menu.
Click(v) ==
  /\ Shown /\ Offered(v, query.data.state)
  /\ Pending(v, "header") => v = "migrate"
  /\ mutate(New(v, "header"))

\* An entry of the menu of a row in the list.
ClickInList(v) ==
  /\ page = "list" /\ v \in {"pause", "resume", "fork"}
  /\ mutate(New(v, "list"))

\* "Run" (a command, after a checkpoint unless that is switched off),
\* "Checkpoint" and "Fork now" of the checkpoints tab.
ComposerVerbs == {"exec", "checkpoint", "fork"}
Compose(v) ==
  /\ Shown /\ page = "tabs"
  /\ query.data.state = "RUNNING" /\ ~Pending(v, "composer")
  /\ mutate(New(v, "composer"))

\* The red button of a ConfirmDialog; opening and dismissing it changes
\* nothing else.
Confirm(v, k) == ~Pending(v, k) /\ mutate(New(v, k))

Kill == Shown /\ Confirm("kill", "header")
KillInList == page = "list" /\ Confirm("kill", "list")
KillInSettings == Shown /\ page = "tabs" /\ Confirm("kill", "settings")

\* A checkpoint of the timeline: no test of the row's state.
Rollback == Shown /\ page = "tabs" /\ Confirm("rollback", "timeline")
ForkCheckpoint == /\ Shown /\ page = "tabs" /\ ~Pending("fork", "timeline")
                  /\ mutate(New("fork", "timeline"))

\* Placement in the settings tab.
Place == /\ Shown /\ page = "tabs" /\ Offered("migrate", query.data.state)
         /\ ~Pending("migrate", "settings")
         /\ mutate(New("migrate", "settings"))

\* The create dialog, of the list or of the palette, submits a body; ok is
\* how it will fare with the server.
create(k, ok) == [New("create", k) EXCEPT !.on = ok]
Submit(k) ==
  /\ k = "list" => page = "list"
  /\ ~Pending("create", k)
  /\ \E ok \in SubmitVerdicts : mutate(create(k, ok))

-----------------------------------------------------------------------------
\* The ResourcesPanel: its three mutations and its controls.
resize(m) == [New("resize", "panel") EXCEPT !.mem = m, !.on = TRUE]
setAutoscale(on) == [New("autoscale", "panel") EXCEPT !.on = on]
migrateRetry(m) == [New("migrateRetry", "panel") EXCEPT !.mem = m]

dirty == panel.mem # query.data.mem

\* The slider; a chained resize reads the last rendered value.
SetMem(m) ==
  /\ panel # None /\ m # panel.mem
  /\ panel' = [panel EXCEPT !.mem = m]
  /\ calls' = [i \in Slots |-> IF i \in InFlight /\ calls[i].chain /\ calls[i].here
                               THEN [calls[i] EXCEPT !.mem = m] ELSE calls[i]]
  /\ UNCHANGED <<server, query, page, moves>>

ApplyResize ==
  /\ panel # None /\ dirty /\ query.data.state = "RUNNING" /\ ~Pending("resize", "panel")
  /\ mutate(resize(panel.mem))

\* flipAutoscale patches by hand and keeps prev to roll back by hand.
flipAutoscale(c) ==
  \E i \in Slots :
    /\ Free(i)
    /\ query' = setQueryData(query, [query.data EXCEPT !.auto = c.on])
    /\ UNCHANGED <<server, page>>
    /\ Render([calls EXCEPT ![i] = [c EXCEPT !.prev = query.data]], panel)

Toggle ==
  /\ panel # None /\ ~dirty
  /\ flipAutoscale(setAutoscale(~query.data.auto))

TurnOffAndApply ==
  /\ panel # None /\ dirty /\ query.data.auto
  /\ query.data.state = "RUNNING" /\ ~Pending("autoscale", "panel")
  /\ flipAutoscale([setAutoscale(FALSE) EXCEPT !.chain = TRUE, !.mem = panel.mem])

MigrateRetry ==
  /\ panel # None /\ panel.noCapacity /\ ~Pending("migrateRetry", "panel")
  /\ mutate(migrateRetry(IF dirty THEN panel.mem ELSE None))

-----------------------------------------------------------------------------
(***************************************************************************)
(* The control plane: the rows an accepted and a refused request can leave.*)
(* resume, migrate and rollback claim the row first (the claimed state     *)
(* stands for the ones they pass through) and write its last state by id,  *)
(* whatever it is by then; a restore can bring back another plugged size.  *)
(***************************************************************************)
Moving == {"migrate", "migrateRetry"}
Claimed(state) == IF state = "RUNNING" THEN "PAUSING" ELSE "RESUMING"
Claims(c) == \/ c.verb = "resume" /\ PausedLike(server.state)
             \/ c.verb \in Moving \cup {"rollback"} /\ server.state \in {"RUNNING", "PAUSED_HOT"}

Begin(i) ==
  /\ i \in InFlight /\ calls[i].at = "sent" /\ Claims(calls[i])
  /\ server' = [server EXCEPT !.state = Claimed(@)]
  /\ calls' = [calls EXCEPT ![i].at = "serving"]
  /\ UNCHANGED <<query, page, panel, moves>>

\* Mutant: migrateRetry stores the size even when its body has none.
MigratedUnset(c) ==
  IF c.verb = "migrateRetry" THEN {[server EXCEPT !.state = "RUNNING", !.mem = c.mem]}
  ELSE {[server EXCEPT !.state = "RUNNING"]}

\* A claim's outcome.  The resize after the migration of migrateRetry is
\* refused when its body is empty.
Migrated(c) ==
  IF c.verb = "migrateRetry"
  THEN IF c.mem = None THEN {} ELSE {[server EXCEPT !.state = "RUNNING", !.mem = c.mem]}
  ELSE {[server EXCEPT !.state = "RUNNING", !.mem = m] : m \in MEM}
       \cup IF c.verb = "migrate" THEN {[server EXCEPT !.state = "PAUSED_HOT"]} ELSE {}

Done(c) ==
  CASE c.at = "serving"                              -> Migrated(c)
    [] c.verb = "pause" /\ server.state = "RUNNING"  -> {[server EXCEPT !.state = "PAUSED_HOT"]}
    [] c.verb = "kill"                               -> {[server EXCEPT !.state = "STOPPED"]}
    [] c.verb \in {"snapshot"} \cup ComposerVerbs /\ server.state = "RUNNING" -> {server}
    [] c.verb = "fork" /\ c.from = "timeline"        -> {server}
    [] c.verb = "resize" /\ c.on /\ server.state = "RUNNING" -> {[server EXCEPT !.mem = c.mem]}
    [] c.verb = "autoscale"                          -> {[server EXCEPT !.auto = c.on]}
    [] c.verb = "create" /\ c.on                     -> {server}
    [] OTHER                                         -> {}

\* A resize that fails half way stores the size it got to.  A refusal that
\* leaves the row as it was is a Failed from "sent".
Refused(c) ==
  CASE c.at = "serving" -> {[server EXCEPT !.state = s] :
                              s \in {"FAILED"} \cup IF c.verb \in Moving THEN {"RUNNING", "PAUSED_HOT"} ELSE {}}
    [] c.verb = "resize" /\ server.state = "RUNNING" -> {[server EXCEPT !.mem = m] : m \in MEM}
    [] OTHER -> {}

Serve(i) ==
  /\ i \in InFlight /\ calls[i].at # "done"
  /\ calls[i].at = "sent" => ~Claims(calls[i])
  /\ \/ /\ server' \in Done(calls[i])
        /\ calls' = [calls EXCEPT ![i].at = "done", ![i].ok = TRUE]
     \/ /\ server' \in Refused(calls[i])
        /\ calls' = [calls EXCEPT ![i].at = "done"]
  /\ UNCHANGED <<query, page, panel, moves>>

-----------------------------------------------------------------------------
\* onSuccess, onSettled and what the caller of mutateAsync does next.
Answered(i) ==
  /\ i \in InFlight /\ calls[i].at = "done" /\ calls[i].ok
  /\ LET c == calls[i]
         q == invalidateQueries(query)
         next == [resize(c.mem) EXCEPT !.here = c.here, !.on = q.data = None \/ q.data.mem # c.mem]
     IN /\ query' = CASE c.chain -> onMutate(next, q)[1]
                     [] c.from = "composer" \/ (c.from = "timeline" /\ c.verb = "fork") -> query
                     [] OTHER -> q
        /\ page' = IF c.verb \in {"fork", "create"} \/ (c.verb = "kill" /\ c.from # "list")
                   THEN "list" ELSE page
        /\ Render([calls EXCEPT ![i] = IF c.chain THEN onMutate(next, q)[2] ELSE None],
                  IF c.here /\ c.verb \in {"resize", "migrateRetry"}
                  THEN [panel EXCEPT !.noCapacity = FALSE] ELSE panel)
  /\ UNCHANGED <<server, moves>>

\* Mutant: a verb that fails is rolled back and nothing is read again.
FailedNoSettle(i) ==
  /\ i \in InFlight
  /\ query' = restore(query, calls[i].prev)
  /\ UNCHANGED <<server, page, moves>>
  /\ Render([calls EXCEPT ![i] = None], panel)

\* onError and onSettled, of a refusal or of an answer that never came; then
\* the catch of flipAutoscale.  Rollback and migrateRetry refresh nothing
\* when they fail.
Failed(i) ==
  /\ i \in InFlight
  /\ LET c == calls[i]
         q == restore(query, c.prev)
     IN /\ query' = CASE c.verb = "autoscale" ->
                        [restore(invalidateQueries(query), c.prev) EXCEPT !.drift = @ \/ ~Active]
                     [] Settling(c) /\ c.verb # "autoscale" -> invalidateQueries(q)
                     [] c.verb \in {"create"} \cup ComposerVerbs -> query
                     [] OTHER -> [query EXCEPT !.drift = TRUE, !.late = query.fetch \in Rows]
        /\ UNCHANGED page
        /\ \E full \in BOOLEAN :
             /\ full => c.here /\ c.verb = "resize"
             /\ Render([calls EXCEPT ![i] = None],
                       IF full THEN [panel EXCEPT !.noCapacity = TRUE] ELSE panel)
  /\ UNCHANGED <<server, moves>>

-----------------------------------------------------------------------------
\* Mutant: only a row in transit is polled.
PollTransit ==
  /\ Active /\ query.fetch = None
  /\ query.data # None /\ query.data.state \in {"PAUSING", "RESUMING"}
  /\ query' = Fetching(query)
  /\ UNCHANGED <<server, calls, page, panel, moves>>

\* The query: an interval or a focus refetch, the server reads the row, the
\* answer arrives or the fetch fails for good.
Poll ==
  /\ Active /\ query.fetch = None
  /\ query' = Fetching(query)
  /\ UNCHANGED <<server, calls, page, panel, moves>>

Read ==
  /\ query.fetch = Sent
  /\ query' = [query EXCEPT !.fetch = server]
  /\ UNCHANGED <<server, calls, page, panel, moves>>

Delivered ==
  /\ query.fetch \in Rows
  /\ query' = [setQueryData(query, query.fetch) EXCEPT
                 !.fetch = None, !.drift = query.late, !.late = FALSE]
  /\ UNCHANGED <<server, page, moves>>
  /\ Render(calls, panel)

FetchFails ==
  /\ query.fetch # None
  /\ query' = [query EXCEPT !.fetch = None, !.err = TRUE, !.drift = TRUE, !.late = FALSE]
  /\ UNCHANGED <<server, page, moves>>
  /\ Render(calls, panel)

\* Entering the workspace mounts useSandbox, which fetches what is missing,
\* invalidated or older than staleTime.
Visit(p) ==
  /\ p # page /\ page' = p
  /\ LET enters == p \in WorkPages /\ ~Active
     IN \/ /\ enters /\ query.fetch = None
           /\ query' = Fetching(query)
        \/ /\ enters => query.fetch # None \/ (query.data # None /\ ~query.invalid)
           /\ UNCHANGED query
  /\ Render(calls, panel)
  /\ UNCHANGED <<server, moves>>

\* The store's writes as other clients, the autoscaler, the engine and the
\* scheduler make them, and as a claim ends whose caller is gone.  A state is
\* written by id, whatever it was; a claim compares it.
Written == {"RUNNING", "PAUSED_HOT", "FAILED", "STOPPED"}
SetSandboxState(s) == server' = [server EXCEPT !.state = s]
TransitionSandbox == /\ server.state = "RUNNING" \/ PausedLike(server.state)
                     /\ SetSandboxState(Claimed(server.state))
UpdateSandboxGeometry(m) == server' = [server EXCEPT !.mem = m]
SetSandboxAutoscale == server' = [server EXCEPT !.auto = ~@]

World ==
  /\ Move
  /\ \/ \E s \in Written : SetSandboxState(s)
     \/ \E m \in MEM : UpdateSandboxGeometry(m)
     \/ TransitionSandbox \/ SetSandboxAutoscale
  /\ query' = [query EXCEPT !.drift = TRUE, !.late = @ \/ query.fetch \in Rows]
  /\ UNCHANGED <<calls, page, panel>>

-----------------------------------------------------------------------------
Init ==
  /\ server = [state |-> "RUNNING", mem |-> CHOOSE m \in MEM : TRUE, auto |-> TRUE]
  /\ query = [data |-> None, invalid |-> FALSE, err |-> FALSE, fetch |-> None,
              drift |-> FALSE, late |-> FALSE]
  /\ calls = [i \in Slots |-> None]
  /\ page = "list" /\ panel = None /\ moves = 0

User == \/ \E v \in HeaderVerbs : Click(v) \/ ClickInList(v)
        \/ \E v \in ComposerVerbs : Compose(v)
        \/ Kill \/ KillInList \/ KillInSettings
        \/ Rollback \/ ForkCheckpoint \/ Place \/ Submit("list") \/ Submit("palette")
        \/ \E m \in MEM : SetMem(m)
        \/ ApplyResize \/ Toggle \/ TurnOffAndApply \/ MigrateRetry
        \/ \E p \in Pages : Visit(p)

Next == \/ User
        \/ \E i \in Slots : Begin(i) \/ Serve(i) \/ Answered(i) \/ Failed(i)
        \/ Poll \/ Read \/ Delivered \/ FetchFails \/ World

Spec == Init /\ [][Next]_vars

\* Intervals fire, the server reads requests, and fetches do not all fail.
LiveSpec == Spec /\ WF_vars(Poll) /\ SF_vars(Read) /\ SF_vars(Delivered)

-----------------------------------------------------------------------------
TypeOK ==
  /\ server \in Rows /\ query \in Query
  /\ calls \in [Slots -> Call \cup {None}]
  /\ page \in Pages
  /\ panel \in Panels \cup {None}
  /\ moves \in 0..MOVES

\* A row on screen that nothing is about to refresh is the server's row: no
\* optimistic patch, rollback, cancelled or overtaken fetch of any verb
\* leaves the cache wrong once the verbs in flight are settled.  It may lag
\* what the server did on its own, a fetch that failed, and the cases drift
\* records.
CacheTrue ==
  InFlight = {} /\ Active /\ query.fetch = None /\ ~query.drift => query.data = server

\* The resize of "Turn off autoscale & apply" is sent only when autoscale is
\* off on the server ("only after the toggle actually landed").
ToggleFirst ==
  [][\A i \in InFlight : calls[i].chain /\ calls'[i] # None
       => (calls'[i].verb = "resize" => ~server.auto)]_vars

\* The create dialog posts no geometry the control plane refuses, and the
\* ceiling it announces is the one stored.
CreateAccepted == \A i \in InFlight : calls[i].verb = "create" => calls[i].on

\* With the workspace open and the server's row at rest, the console comes to
\* show it: polling repairs what rollbacks, failed fetches and races left.
Converges ==
  <>[](page \in WorkPages /\ InFlight = {}) /\ <>[][UNCHANGED server]_vars
    => <>[](query.data = server)
=============================================================================
