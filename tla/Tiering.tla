------------------------------- MODULE Tiering -------------------------------
(***************************************************************************)
(* One sandbox through the whole system: its PostgreSQL row, the REST      *)
(* handlers and the lifecycle engine that move the row, the node agents    *)
(* that hold its VM, and the two object stores its snapshots live in.      *)
(*                                                                         *)
(* A handler is a thread of th with one step per store write and per agent *)
(* call; what it read from the row before those steps stays in the thread, *)
(* as the handler's local copy sb does.  The engine is one more thread: it *)
(* is a single goroutine.  A node agent's verb takes effect in one step    *)
(* (NodeAgent models what happens inside it).                              *)
(*                                                                         *)
(* A snapshot is the layer a pause produces: its tag p<N> (the agent's     *)
(* snapCount) names its objects, its generation is its content, unique in  *)
(* a behaviour.  The memory manifest and the snapfile of a tag are one     *)
(* object here, its disk delta another, and the descriptor a third.        *)
(***************************************************************************)
EXTENDS Lifecycle, Integers, FiniteSets

CONSTANTS
  Nodes,      \* the registered workers
  Clients,    \* concurrent REST requests
  Verbs,      \* the verbs clients issue
  Faults,     \* what may go wrong in the environment
  Tiers,      \* the TTL transitions the engine has enabled
  MaxGen,     \* bound: snapshots taken in a behaviour
  NoNode      \* the row's node before placement

AllVerbs == {"create", "pause", "resume", "snapshot", "migrate", "kill"}
AllFaults == {"agent", "crash", "partition", "lost", "process", "db", "copy",
              "apiserver", "capacity"}

ASSUME ConstantsAssumption ==
  /\ Verbs \subseteq AllVerbs
  /\ Faults \subseteq AllFaults
  /\ Tiers \subseteq {"warm", "cold", "recycle"}
  /\ MaxGen \in Nat
  /\ NoNode \notin Nodes

Gens == 0 .. MaxGen       \* 0: no content
Tags == 0 .. MaxGen       \* 0: the synthetic layer "cold"
Layers == 1 .. MaxGen     \* p1, p2, ...

\* The names of descriptor.go:10-47 that restoring reads.
Descriptor == [seq : Tags, layers : SUBSET Tags, disk : SUBSET Layers]
NoDesc == [seq |-> 0, layers |-> {}, disk |-> {}]

\* The objects of one sandbox in one object store.
Objects == [desc : Descriptor, layer : [Tags -> Gens], disk : [Layers -> Gens]]
NoObjects == [desc |-> NoDesc, layer |-> [t \in Tags |-> 0],
              disk |-> [t \in Layers |-> 0]]

\* What an agent keeps for the sandbox (agent_linux.go:64-93).
Entry == [mach : {"RUNNING", "PAUSED_HOT", "FAILED"}, seq : Tags,
          layers : SUBSET Tags, disk : SUBSET Layers, full : BOOLEAN,
          base : Gens]
NoEntry == [mach |-> "none"]

IdleThread == [pc |-> "idle", st |-> "RUNNING", node |-> NoNode,
               tgt |-> NoNode, gen |-> 0]
IdleEngine == [pc |-> "idle", node |-> NoNode, desc |-> NoDesc, gen |-> 0]

VARIABLES
  row,      \* the sandboxes row: its state and node_id
  up,       \* the nodes table: state = "up"
  agent,    \* per node, the agent's a.sbx entry for this sandbox
  reach,    \* per node, whether the agent answers
  reports,  \* nodes whose a.failed holds this sandbox
  l1,       \* the warm object store
  cold,     \* the cold object store
  th,       \* the REST requests in flight
  eng,      \* the lifecycle engine
  gen,      \* snapshots taken so far (history)
  acked     \* newest snapshot a row write has acknowledged (history)

vars == <<row, up, agent, reach, reports, l1, cold, th, eng, gen, acked>>
cluster == <<up, reach, reports>>
hist == <<gen, acked>>

-----------------------------------------------------------------------------
(* Object stores *)

Newest(tags) == CHOOSE t \in tags : \A u \in tags : u <= t

LayersPresent(s) ==
  s.desc.layers # {} /\ \A t \in s.desc.layers : s.layer[t] # 0

\* Everything RestoreSandbox fetches is there.
Complete(s) ==
  LayersPresent(s) /\ \A t \in s.desc.disk : s.disk[t] # 0

\* The memory a restore brings back: the newest layer of the chain.
Content(s) == s.layer[Newest(s.desc.layers)]

-----------------------------------------------------------------------------
(* The row *)

SetState(to) == row' = [row EXCEPT !.state = to]

FailActive(r) ==
  IF r.state \in {"STARTING", "RUNNING", "RESUMING", "PAUSING"}
  THEN [r EXCEPT !.state = "FAILED"] ELSE r

-----------------------------------------------------------------------------
(* Agent verbs: the outcomes a call may have, as the agent's entry e, the  *)
(* L1 objects s, whether it answers ok, and the generation it produced.    *)

Out(e, s, ok, g) == [e |-> e, l1 |-> s, ok |-> ok, gen |-> g]

\* Mutant: the pause counts its snapshot twice.
NextSeqTwice(e) == e.seq + 2

NextSeq(e) == e.seq + 1

\* The entry after a pause: a Full layer restarts the chain after a boot or a
\* cold restore, a Diff extends it.
Paused(e, mach) ==
  LET t == NextSeq(e)
  IN [e EXCEPT !.mach = mach, !.seq = t, !.full = FALSE, !.base = gen + 1,
               !.layers = IF e.layers = {} \/ e.full THEN {t} ELSE @ \cup {t},
               !.disk = @ \cup {t}]

PutLayer(s, t) == [s EXCEPT !.layer[t] = gen + 1]
PutDisk(s, t) == [s EXCEPT !.disk[t] = gen + 1]
PutDesc(s, e) ==
  [s EXCEPT !.desc = [seq |-> e.seq, layers |-> e.layers, disk |-> e.disk]]

\* Mutants: the disk delta is never uploaded; only the first pause writes the
\* descriptor.
PushL1NoDisk(s, e) == PutDesc(PutLayer(s, e.seq), e)
PushL1FirstDesc(s, e) ==
  LET p == PutDisk(PutLayer(s, e.seq), e.seq)
  IN IF s.desc = NoDesc THEN PutDesc(p, e) ELSE p

\* pushL1: layer, disk delta, descriptor last; a failure stops in between.
PushL1(s, e) == PutDesc(PutDisk(PutLayer(s, e.seq), e.seq), e)
PushL1Partial(s, t) == {s, PutLayer(s, t), PutDisk(PutLayer(s, t), t)}

\* Mutant: the descriptor goes up first.
PauseFailuresDescFirst(e, s) ==
  IF "agent" \notin Faults THEN {}
  ELSE LET f == Paused(e, "FAILED") IN {Out(f, PutDesc(s, f), FALSE, gen + 1)}

PauseFailures(e, s) ==
  IF "agent" \notin Faults THEN {}
  ELSE LET f == Paused(e, "FAILED")
       IN {Out(e, s, FALSE, 0), Out([e EXCEPT !.mach = "FAILED"], s, FALSE, 0),
           Out([f EXCEPT !.disk = e.disk], s, FALSE, gen + 1)}
            \cup {Out(f, p, FALSE, gen + 1) : p \in PushL1Partial(s, f.seq)}

PauseSandbox(e, s) ==
  IF e.mach # "RUNNING" \/ gen = MaxGen THEN {Out(e, s, FALSE, 0)}
  ELSE LET p == Paused(e, "PAUSED_HOT")
       IN {Out(p, PushL1(s, p), TRUE, gen + 1)} \cup PauseFailures(e, s)

ResumeSandbox(e, s) ==
  IF ~Validate(e.mach, "RESUMING") THEN {Out(e, s, FALSE, 0)}
  ELSE {Out([e EXCEPT !.mach = "RUNNING"], s, TRUE, 0)}
         \cup (IF "agent" \in Faults
               THEN {Out([e EXCEPT !.mach = "FAILED"], s, FALSE, 0)} ELSE {})

\* SnapshotSandbox: a pause, then a resume of what it left.
SnapshotSandbox(e, s) ==
  UNION { IF o.ok THEN {[r EXCEPT !.gen = o.gen] : r \in ResumeSandbox(o.e, o.l1)}
          ELSE {o} : o \in PauseSandbox(e, s) }

StopSandbox(e, s) == {Out(NoEntry, s, e # NoEntry, 0)}

\* A failing look-up of the descriptor changes nothing; a failing teardown
\* leaves the entry FAILED.
ReleaseLocal(e, s) ==
  IF e.mach # "PAUSED_HOT" \/ s.desc = NoDesc THEN {Out(e, s, FALSE, 0)}
  ELSE {Out(NoEntry, s, TRUE, 0)}
         \cup (IF "agent" \in Faults
               THEN {Out(e, s, FALSE, 0), Out([e EXCEPT !.mach = "FAILED"], s, FALSE, 0)}
               ELSE {})

CreateSandbox(e, s) ==
  {Out([mach |-> "RUNNING", seq |-> 0, layers |-> {}, disk |-> {},
        full |-> FALSE, base |-> 0], s, TRUE, 0)}
    \cup (IF "agent" \in Faults THEN {Out(NoEntry, s, FALSE, 0)} ELSE {})

\* Mutant: the chain is resolved to its oldest layer.
RestoredOldest(src, tier) ==
  [mach |-> "RUNNING", seq |-> src.desc.seq, layers |-> src.desc.layers,
   disk |-> src.desc.disk, full |-> tier = "cold",
   base |-> src.layer[CHOOSE t \in src.desc.layers :
                        \A u \in src.desc.layers : t <= u]]

Restored(src, tier) ==
  [mach |-> "RUNNING", seq |-> src.desc.seq, layers |-> src.desc.layers,
   disk |-> src.desc.disk, full |-> tier = "cold", base |-> Content(src)]

\* RestoreSandbox waits for a local entry to go and takes over a FAILED one;
\* a wait that reaches its deadline is an error that changes nothing.
RestoreSandbox(e, s, tier) ==
  LET src == IF tier = "cold" THEN cold ELSE s
  IN IF e # NoEntry /\ e.mach # "FAILED" THEN {Out(e, s, FALSE, 0)}
     ELSE IF ~Complete(src) THEN {Out(NoEntry, s, FALSE, 0)}
     ELSE {Out(Restored(src, tier), s, TRUE, 0)}
            \cup (IF "agent" \in Faults THEN {Out(NoEntry, s, FALSE, 0)} ELSE {})

AgentEntry(n) == IF n \in Nodes THEN agent[n] ELSE NoEntry

\* A call over the agent's socket: an unreachable node answers with an error
\* and does nothing; a lost answer is an error for a verb that was carried out.
Answers(n, outcomes) ==
  IF n \notin Nodes \/ ~reach[n] THEN {Out(AgentEntry(n), l1, FALSE, 0)}
  ELSE outcomes \cup (IF "lost" \in Faults
                      THEN {[o EXCEPT !.ok = FALSE] : o \in outcomes} ELSE {})

\* What the verb leaves behind on node n and in L1.
Effect(n, o) ==
  /\ agent' = [m \in Nodes |-> IF m = n THEN o.e ELSE agent[m]]
  /\ l1' = o.l1
  /\ gen' = IF o.gen = 0 THEN gen ELSE o.gen

-----------------------------------------------------------------------------
(* REST requests *)

Goto(c, pc) == th' = [th EXCEPT ![c].pc = pc]
Return(c) == th' = [th EXCEPT ![c] = IdleThread]

\* An agent call of request c: where it goes on from each answer.
CallFor(c, n, outcomes, pcOk, pcErr) ==
  /\ \E o \in Answers(n, outcomes) :
       LET pc == IF o.ok THEN pcOk ELSE pcErr
       IN /\ Effect(n, o)
          /\ th' = [th EXCEPT ![c] = IF pc = "idle" THEN IdleThread
                                     ELSE [@ EXCEPT !.pc = pc, !.gen = o.gen]]
  /\ UNCHANGED <<row, cluster, cold, eng, acked>>

\* A row write of request c; "db" lets the write fail, and then the handler
\* goes on at pcErr with the row as it was.
WriteFor(c, to, pcOk, pcErr) ==
  /\ \/ /\ SetState(to)
        /\ acked' = IF to = "PAUSED_HOT" /\ th[c].gen > acked
                    THEN th[c].gen ELSE acked
        /\ IF pcOk = "idle" THEN Return(c) ELSE Goto(c, pcOk)
     \/ /\ "db" \in Faults
        /\ UNCHANGED <<row, acked>>
        /\ IF pcErr = "idle" THEN Return(c) ELSE Goto(c, pcErr)
  /\ UNCHANGED <<cluster, agent, l1, cold, eng, gen>>

\* A best-effort FAILED record (the handlers ignore its error).
FailFor(c) == WriteFor(c, "FAILED", "idle", "idle")

\* TransitionSandbox: the loser of the compare-and-swap returns 409.
ClaimFor(c, from, to, pcOk) ==
  /\ IF row.state = from THEN SetState(to) /\ Goto(c, pcOk)
                         ELSE UNCHANGED row /\ Return(c)
  /\ UNCHANGED <<cluster, agent, l1, cold, eng, hist>>

At(c, pc) == th[c].pc = pc

\* Scheduler.place: the previous node when it is up and has room, else a node
\* that is up; "capacity" lets any of them be full.
Place(prev) == IF prev \in Nodes /\ up[prev] /\ "capacity" \notin Faults THEN {prev}
               ELSE {n \in Nodes : up[n]}
Unplaced(prev) == Place(prev) = {} \/ Faults \cap {"capacity", "db"} # {}

\* ownedSandbox: the handler's copy of the row.
Begin(c, pc, tgt) ==
  /\ At(c, "idle")
  /\ th' = [th EXCEPT ![c] = [pc |-> pc, st |-> row.state, node |-> row.node,
                              tgt |-> tgt, gen |-> 0]]

--------------------------------------------------------------- 
\* createSandbox: insert, place and record the node, boot, write the state.
CreateBegin(c) ==
  /\ "create" \in Verbs
  /\ row.state = "NONE"
  /\ SetState("PENDING")
  /\ Begin(c, "create.place", NoNode)
  /\ UNCHANGED <<cluster, agent, l1, cold, eng, hist>>

CreatePlace(c) ==
  /\ At(c, "create.place")
  /\ \/ /\ Unplaced(NoNode)
        /\ Goto(c, "fail") /\ UNCHANGED row
     \/ \E n \in Place(NoNode) :
          /\ row' = [row EXCEPT !.node = n]
          /\ th' = [th EXCEPT ![c].pc = "create.boot", ![c].node = n]
  /\ UNCHANGED <<cluster, agent, l1, cold, eng, hist>>

CreateBoot(c) ==
  /\ At(c, "create.boot")
  /\ LET n == th[c].node
     IN CallFor(c, n, CreateSandbox(AgentEntry(n), l1), "create.write", "fail")

CreateWrite(c) ==
  At(c, "create.write") /\ WriteFor(c, "RUNNING", "idle", "create.orphan")

\* stopOrphanedVM
CreateOrphan(c) ==
  /\ At(c, "create.orphan")
  /\ LET n == th[c].node
     IN CallFor(c, n, StopSandbox(AgentEntry(n), l1), "fail", "fail")

Fail(c) == At(c, "fail") /\ FailFor(c)

---------------------------------------------------------------
PauseBegin(c) ==
  /\ "pause" \in Verbs
  /\ row.state # "NONE" /\ gen < MaxGen
  /\ Begin(c, "pause.call", NoNode)
  /\ UNCHANGED <<row, cluster, agent, l1, cold, eng, hist>>

PauseCall(c) ==
  /\ At(c, "pause.call")
  /\ LET n == th[c].node
     IN CallFor(c, n, PauseSandbox(AgentEntry(n), l1), "pause.write", "idle")

PauseWrite(c) ==
  At(c, "pause.write") /\ WriteFor(c, "PAUSED_HOT", "idle", "idle")

\* snapshotSandbox and checkpointNow leave the row alone.
SnapshotBegin(c) ==
  /\ "snapshot" \in Verbs
  /\ row.state # "NONE" /\ gen < MaxGen
  /\ Begin(c, "snapshot.call", NoNode)
  /\ UNCHANGED <<row, cluster, agent, l1, cold, eng, hist>>

SnapshotCall(c) ==
  /\ At(c, "snapshot.call")
  /\ LET n == th[c].node
     IN CallFor(c, n, SnapshotSandbox(AgentEntry(n), l1), "idle", "idle")

KillBegin(c) ==
  /\ "kill" \in Verbs
  /\ row.state # "NONE"
  /\ Begin(c, "kill.call", NoNode)
  /\ UNCHANGED <<row, cluster, agent, l1, cold, eng, hist>>

KillCall(c) ==
  /\ At(c, "kill.call")
  /\ LET n == th[c].node
     IN CallFor(c, n, StopSandbox(AgentEntry(n), l1), "kill.write", "idle")

KillWrite(c) ==
  At(c, "kill.write") /\ WriteFor(c, "STOPPED", "idle", "idle")

---------------------------------------------------------------
\* resumeSandbox: claim the row, then restore from the tier the row was in
\* (FAILED restores from L1) or resume on the node that holds it.
ResumeBegin(c) ==
  /\ "resume" \in Verbs
  /\ Validate(row.state, "RESUMING")
  /\ Begin(c, "resume.claim", NoNode)
  /\ UNCHANGED <<row, cluster, agent, l1, cold, eng, hist>>

RestoresAnywhere == {"PAUSED_WARM", "ARCHIVED_COLD", "FAILED"}

ResumeClaim(c) ==
  /\ At(c, "resume.claim")
  /\ ClaimFor(c, th[c].st, "RESUMING",
              IF th[c].st \in RestoresAnywhere THEN "resume.place"
                                               ELSE "resume.hot")

ResumePlace(c) ==
  /\ At(c, "resume.place")
  /\ \/ /\ Unplaced(th[c].node)
        /\ Goto(c, "fail") /\ UNCHANGED row
     \/ \E n \in Place(th[c].node) :
          /\ row' = [row EXCEPT !.node = n]
          /\ th' = [th EXCEPT ![c].pc = "resume.restore", ![c].node = n]
  /\ UNCHANGED <<cluster, agent, l1, cold, eng, hist>>

RestoreTier(st) == IF st = "ARCHIVED_COLD" THEN "cold" ELSE "warm"

\* Mutant: a failed restore returns without recording FAILED.
ResumeRestoreUnrecorded(c) ==
  /\ At(c, "resume.restore")
  /\ LET n == th[c].node
     IN CallFor(c, n, RestoreSandbox(AgentEntry(n), l1, RestoreTier(th[c].st)),
                "resume.write", "idle")

ResumeRestore(c) ==
  /\ At(c, "resume.restore")
  /\ LET n == th[c].node
     IN CallFor(c, n, RestoreSandbox(AgentEntry(n), l1, RestoreTier(th[c].st)),
                "resume.write", "fail")

ResumeHot(c) ==
  /\ At(c, "resume.hot")
  /\ LET n == th[c].node
     IN CallFor(c, n, ResumeSandbox(AgentEntry(n), l1), "resume.write", "fail")

ResumeWrite(c) ==
  At(c, "resume.write") /\ WriteFor(c, "RUNNING", "idle", "resume.undo")

\* The record write failed: pause the VM back and mark the row FAILED.
ResumeUndo(c) ==
  /\ At(c, "resume.undo")
  /\ LET n == th[c].node
     IN CallFor(c, n, PauseSandbox(AgentEntry(n), l1), "fail", "fail")

---------------------------------------------------------------
\* migrateSandbox
MigrateBegin(c) ==
  /\ "migrate" \in Verbs
  /\ row.state \in {"RUNNING", "PAUSED_HOT"} /\ gen < MaxGen
  /\ \E tgt \in Nodes \ {row.node} :
       /\ up[tgt]
       /\ Begin(c, IF row.state = "RUNNING" THEN "migrate.claim"
                                            ELSE "migrate.warm", tgt)
  /\ UNCHANGED <<row, cluster, agent, l1, cold, eng, hist>>

MigrateClaim(c) ==
  At(c, "migrate.claim") /\ ClaimFor(c, "RUNNING", "PAUSING", "migrate.pause")

MigratePause(c) ==
  /\ At(c, "migrate.pause")
  /\ LET n == th[c].node
     IN CallFor(c, n, PauseSandbox(AgentEntry(n), l1),
                "migrate.paused", "migrate.aborted")

\* Mutant: a migration whose pause failed marks the row FAILED.
MigrateAbortedFails(c) ==
  At(c, "migrate.aborted") /\ WriteFor(c, "FAILED", "idle", "idle")

MigrateAborted(c) ==
  At(c, "migrate.aborted") /\ WriteFor(c, "RUNNING", "idle", "idle")

MigratePaused(c) ==
  At(c, "migrate.paused") /\ WriteFor(c, "PAUSED_HOT", "migrate.warm", "idle")

MigrateWarm(c) ==
  /\ At(c, "migrate.warm")
  /\ ClaimFor(c, "PAUSED_HOT", "PAUSED_WARM", "migrate.release")

MigrateRelease(c) ==
  /\ At(c, "migrate.release")
  /\ LET n == th[c].node
     IN CallFor(c, n, ReleaseLocal(AgentEntry(n), l1), "migrate.point", "fail")

\* SetSandboxNode(target); a PAUSED_HOT sandbox is migrated at this point.
MigratePoint(c) ==
  /\ At(c, "migrate.point")
  /\ \/ /\ row' = [row EXCEPT !.node = th[c].tgt]
        /\ IF th[c].st = "PAUSED_HOT" THEN Return(c)
           ELSE Goto(c, "migrate.resume")
     \/ "db" \in Faults /\ Return(c) /\ UNCHANGED row
  /\ UNCHANGED <<cluster, agent, l1, cold, eng, hist>>

MigrateResume(c) ==
  /\ At(c, "migrate.resume")
  /\ ClaimFor(c, "PAUSED_WARM", "RESUMING", "migrate.restore")

MigrateRestore(c) ==
  /\ At(c, "migrate.restore")
  /\ LET n == th[c].tgt
     IN CallFor(c, n, RestoreSandbox(AgentEntry(n), l1, "warm"),
                "migrate.write", "fail")

MigrateWrite(c) ==
  At(c, "migrate.write") /\ WriteFor(c, "RUNNING", "idle", "idle")

Request(c) ==
  \/ CreateBegin(c) \/ CreatePlace(c) \/ CreateBoot(c) \/ CreateWrite(c)
  \/ CreateOrphan(c) \/ Fail(c)
  \/ PauseBegin(c) \/ PauseCall(c) \/ PauseWrite(c)
  \/ SnapshotBegin(c) \/ SnapshotCall(c)
  \/ KillBegin(c) \/ KillCall(c) \/ KillWrite(c)
  \/ ResumeBegin(c) \/ ResumeClaim(c) \/ ResumePlace(c) \/ ResumeRestore(c)
  \/ ResumeHot(c) \/ ResumeWrite(c) \/ ResumeUndo(c)
  \/ MigrateBegin(c) \/ MigrateClaim(c) \/ MigratePause(c)
  \/ MigrateAborted(c) \/ MigratePaused(c) \/ MigrateWarm(c)
  \/ MigrateRelease(c) \/ MigratePoint(c) \/ MigrateResume(c)
  \/ MigrateRestore(c) \/ MigrateWrite(c)

-----------------------------------------------------------------------------
(* The lifecycle engine *)

EngineAt(pc) == eng.pc = pc
EngineGoto(pc) ==
  eng' = IF pc = "idle" THEN IdleEngine ELSE [eng EXCEPT !.pc = pc]

\* ListTransitionDue: a row whose TTL in its tier has run out.
Due(tier, state, pc) ==
  /\ EngineAt("idle")
  /\ tier \in Tiers
  /\ row.state = state
  /\ eng' = [eng EXCEPT !.pc = pc, !.node = row.node]
  /\ UNCHANGED <<row, cluster, agent, l1, cold, th, hist>>

EngineCAS(from, to, pc) ==
  /\ IF row.state = from THEN SetState(to) /\ EngineGoto(pc)
                         ELSE UNCHANGED row /\ EngineGoto("idle")
  /\ UNCHANGED <<cluster, agent, l1, cold, th, hist>>

\* demoteHotToWarm; the sandbox has no forks and its node is registered, so
\* neither of its two skips applies.
WarmDue == Due("warm", "PAUSED_HOT", "warm.cas")

\* Mutant: the compare-and-swap names the tier it moves to.
WarmCASNever ==
  EngineAt("warm.cas") /\ EngineCAS("PAUSED_WARM", "PAUSED_WARM", "warm.release")

WarmCAS ==
  EngineAt("warm.cas") /\ EngineCAS("PAUSED_HOT", "PAUSED_WARM", "warm.release")
WarmRelease ==
  /\ EngineAt("warm.release")
  /\ \E o \in Answers(eng.node, ReleaseLocal(AgentEntry(eng.node), l1)) :
       Effect(eng.node, o) /\ EngineGoto(IF o.ok THEN "idle" ELSE "warm.fail")
  /\ UNCHANGED <<row, cluster, cold, th, acked>>
WarmFail ==
  EngineAt("warm.fail") /\ EngineCAS("PAUSED_WARM", "FAILED", "idle")

ColdDue == Due("cold", "PAUSED_WARM", "cold.read")

\* archivePrepare, first half: the descriptor and the chain's manifests.
ColdRead ==
  /\ EngineAt("cold.read")
  /\ eng' = IF LayersPresent(l1)
            THEN [eng EXCEPT !.pc = "cold.copy", !.desc = l1.desc,
                             !.gen = Content(l1)]
            ELSE IdleEngine
  /\ UNCHANGED <<row, cluster, agent, l1, cold, th, hist>>

\* Mutant: a disk delta that cannot be copied is left out.
ColdCopySkips ==
  /\ EngineAt("cold.copy")
  /\ \E ts \in SUBSET {t \in eng.desc.disk : cold.disk[t] = 0} :
       cold' = [cold EXCEPT !.layer[0] = eng.gen,
                            !.disk = [t \in Layers |-> IF t \in ts
                                        THEN l1.disk[t] ELSE @[t]]]
  /\ EngineGoto("cold.desc")
  /\ UNCHANGED <<row, cluster, agent, l1, th, hist>>

\* The synthetic layer and its snapfile, then every disk delta the cold store
\* does not have yet, oldest first; the first object that cannot be copied
\* ends the attempt, and what was copied stays.
ColdCopy ==
  /\ EngineAt("cold.copy")
  /\ LET wanted == {t \in eng.desc.disk : cold.disk[t] = 0}
         missing == {t \in wanted : l1.disk[t] = 0}
         store(ts) == [cold EXCEPT !.layer[0] = eng.gen,
                                   !.disk = [t \in Layers |-> IF t \in ts
                                               THEN l1.disk[t] ELSE @[t]]]
     IN IF l1.layer[Newest(eng.desc.layers)] = 0
        THEN EngineGoto("idle") /\ UNCHANGED cold
        ELSE \/ missing = {} /\ cold' = store(wanted) /\ EngineGoto("cold.desc")
             \/ /\ EngineGoto("idle")
                /\ \E t \in IF "copy" \in Faults THEN wanted ELSE missing :
                     /\ \A u \in missing : t <= u
                     /\ cold' = store({u \in wanted : u < t})
             \/ "copy" \in Faults /\ EngineGoto("idle") /\ UNCHANGED cold
  /\ UNCHANGED <<row, cluster, agent, l1, th, hist>>

ColdDesc ==
  /\ EngineAt("cold.desc")
  /\ cold' = [cold EXCEPT !.desc = [eng.desc EXCEPT !.layers = {0}]]
  /\ EngineGoto("cold.cas")
  /\ UNCHANGED <<row, cluster, agent, l1, th, hist>>

ColdCAS ==
  EngineAt("cold.cas") /\ EngineCAS("PAUSED_WARM", "ARCHIVED_COLD", "cold.list")

\* deleteSandboxObjects: the keys are listed first and deleted in key order,
\* disk-* and layer-* before snapshot.json.
ColdList ==
  /\ EngineAt("cold.list")
  /\ eng' = [eng EXCEPT !.pc = "cold.prune",
               !.desc = [seq |-> IF l1.desc = NoDesc THEN 0 ELSE 1,
                         layers |-> {t \in Tags : l1.layer[t] # 0},
                         disk |-> {t \in Layers : l1.disk[t] # 0}]]
  /\ UNCHANGED <<row, cluster, agent, l1, cold, th, hist>>

ColdPrune ==
  /\ EngineAt("cold.prune")
  /\ \/ /\ l1' = [l1 EXCEPT
                    !.layer = [t \in Tags |-> IF t \in eng.desc.layers
                                              THEN 0 ELSE @[t]],
                    !.disk = [t \in Layers |-> IF t \in eng.desc.disk
                                               THEN 0 ELSE @[t]]]
        /\ EngineGoto(IF eng.desc.seq = 1 THEN "cold.pruned" ELSE "idle")
     \/ "copy" \in Faults /\ EngineGoto("idle") /\ UNCHANGED l1
  /\ UNCHANGED <<row, cluster, agent, cold, th, hist>>

ColdPruned ==
  /\ EngineAt("cold.pruned")
  /\ \/ l1' = [l1 EXCEPT !.desc = NoDesc]
     \/ "copy" \in Faults /\ UNCHANGED l1
  /\ EngineGoto("idle")
  /\ UNCHANGED <<row, cluster, agent, cold, th, hist>>

\* recycleCold; extracting the artifacts writes none of these objects.
RecycleDue == Due("recycle", "ARCHIVED_COLD", "recycle.cas")
RecycleCAS ==
  EngineAt("recycle.cas") /\ EngineCAS("ARCHIVED_COLD", "RECYCLED", "recycle.prune")
RecyclePrune ==
  /\ EngineAt("recycle.prune")
  /\ \/ cold' = NoObjects
     \/ "copy" \in Faults /\ UNCHANGED cold
  /\ EngineGoto("idle")
  /\ UNCHANGED <<row, cluster, agent, l1, th, hist>>

Engine ==
  \/ WarmDue \/ WarmCAS \/ WarmRelease \/ WarmFail
  \/ ColdDue \/ ColdRead \/ ColdCopy \/ ColdDesc \/ ColdCAS
  \/ ColdList \/ ColdPrune \/ ColdPruned
  \/ RecycleDue \/ RecycleCAS \/ RecyclePrune

-----------------------------------------------------------------------------
(* Nodes and the scheduler's poll *)

others == <<l1, cold, th, eng, hist>>

\* The watchdog reaps a VM whose process died and remembers it for a poll.
Reap(n) ==
  /\ "process" \in Faults
  /\ agent[n].mach = "RUNNING"
  /\ agent' = [agent EXCEPT ![n] = NoEntry]
  /\ reports' = reports \cup {n}
  /\ UNCHANGED <<row, up, reach, others>>

Crash(n) ==
  /\ "crash" \in Faults
  /\ reach[n]
  /\ agent' = [agent EXCEPT ![n] = NoEntry]
  /\ reach' = [reach EXCEPT ![n] = FALSE]
  /\ reports' = reports \ {n}
  /\ UNCHANGED <<row, up, others>>

Cut(n) ==
  /\ "partition" \in Faults
  /\ reach[n]
  /\ reach' = [reach EXCEPT ![n] = FALSE]
  /\ UNCHANGED <<row, up, agent, reports, others>>

Back(n) ==
  /\ ~reach[n]
  /\ reach' = [reach EXCEPT ![n] = TRUE]
  /\ UNCHANGED <<row, up, agent, reports, others>>

\* recordMiss at the threshold.
Evict(n) ==
  /\ ~reach[n] /\ up[n]
  /\ up' = [up EXCEPT ![n] = FALSE]
  /\ row' = IF row.node = n THEN FailActive(row) ELSE row
  /\ UNCHANGED <<agent, reach, reports, others>>

\* A poll that is answered: the node is up, its reaped sandboxes are FAILED.
Poll(n) ==
  /\ reach[n] /\ (~up[n] \/ n \in reports)
  /\ up' = [up EXCEPT ![n] = TRUE]
  /\ reports' = reports \ {n}
  /\ \/ row' = IF n \in reports THEN FailActive(row) ELSE row
     \/ "db" \in Faults /\ UNCHANGED row
  /\ UNCHANGED <<agent, reach, others>>

\* The API server restarts: its requests and the engine's pass are gone, and
\* RegisterNodes takes every configured node for up.
Restart ==
  /\ "apiserver" \in Faults
  /\ th' = [c \in Clients |-> IdleThread]
  /\ eng' = IdleEngine
  /\ up' = [n \in Nodes |-> TRUE]
  /\ UNCHANGED <<row, reach, reports, agent, l1, cold, hist>>

Environment ==
  \/ \E n \in Nodes :
       Reap(n) \/ Crash(n) \/ Cut(n) \/ Back(n) \/ Evict(n) \/ Poll(n)
  \/ Restart

Init ==
  /\ row = [state |-> "NONE", node |-> NoNode]
  /\ up = [n \in Nodes |-> TRUE]
  /\ agent = [n \in Nodes |-> NoEntry]
  /\ reach = [n \in Nodes |-> TRUE]
  /\ reports = {}
  /\ l1 = NoObjects
  /\ cold = NoObjects
  /\ th = [c \in Clients |-> IdleThread]
  /\ eng = IdleEngine
  /\ gen = 0
  /\ acked = 0

Next == (\E c \in Clients : Request(c)) \/ Engine \/ Environment

Spec == Init /\ [][Next]_vars

\* A request that has begun goes on (its agent calls and queries have
\* deadlines), and the engine's ticker keeps ticking.
LiveSpec ==
  /\ Spec
  /\ \A c \in Clients : WF_vars(~At(c, "idle") /\ Request(c))
  /\ WF_vars(Engine)

-----------------------------------------------------------------------------
(* Properties *)

RowState == State \cup {"NONE"}
NodeOrNone == Nodes \cup {NoNode}
RequestPC ==
  {"idle", "fail", "create.place", "create.boot", "create.write", "create.orphan",
   "pause.call", "pause.write", "snapshot.call", "kill.call", "kill.write",
   "resume.claim", "resume.place", "resume.restore", "resume.hot", "resume.write",
   "resume.undo", "migrate.claim", "migrate.pause", "migrate.aborted",
   "migrate.paused", "migrate.warm", "migrate.release", "migrate.point",
   "migrate.resume", "migrate.restore", "migrate.write"}
EnginePC ==
  {"idle", "warm.cas", "warm.release", "warm.fail", "cold.read", "cold.copy",
   "cold.desc", "cold.cas", "cold.list", "cold.prune", "cold.pruned",
   "recycle.cas", "recycle.prune"}
Thread == [pc : RequestPC, st : RowState, node : NodeOrNone, tgt : NodeOrNone,
           gen : Gens]
EngineThread == [pc : EnginePC, node : NodeOrNone, desc : Descriptor, gen : Gens]

\* The variables hold values of the code's types.
TypeOK ==
  /\ row \in [state : RowState, node : NodeOrNone]
  /\ up \in [Nodes -> BOOLEAN]
  /\ agent \in [Nodes -> Entry \cup {NoEntry}]
  /\ reach \in [Nodes -> BOOLEAN]
  /\ reports \subseteq Nodes
  /\ l1 \in Objects /\ cold \in Objects
  /\ th \in [Clients -> Thread] /\ eng \in EngineThread
  /\ gen \in Gens /\ acked \in Gens

Idle == eng.pc = "idle" /\ \A c \in Clients : At(c, "idle")

\* Store s brings back the last acknowledged pause: every object its
\* descriptor names is there, memory and disk are of the same pause, and that
\* pause is not older than one a client was told of.
Restorable(s) ==
  /\ Complete(s)
  /\ s.disk[Newest(s.desc.disk)] = Content(s)
  /\ Content(s) >= acked

\* A running VM descends from the newest acknowledged pause: crashes, evictions,
\* failed verbs and tier moves lose at most what the guest did since
\* (resumeSandbox, RestoreSandbox; the RPO of docs/adr/0005).
RunsFromLastPause ==
  \A n \in Nodes : agent[n].mach = "RUNNING" => agent[n].base >= acked

\* A HOT or WARM row's last pause can be restored from L1, whatever became of
\* its node (pauseChunked pushes before pauseSandbox writes the row;
\* demoteHotToWarm, migrateSandbox and RestoreSandbox rely on it).
PausedRestorable ==
  row.state \in {"PAUSED_HOT", "PAUSED_WARM"} => Restorable(l1)

\* A FAILED row that was ever paused can be restored from L1, the store
\* resumeSandbox takes it from.
FailedRestorable == row.state = "FAILED" /\ acked > 0 => Restorable(l1)

\* Whoever reads ARCHIVED_COLD finds a complete copy of the last pause in the
\* cold store (archivePrepare before the compare-and-swap, archivePrune after).
ColdTierComplete == row.state = "ARCHIVED_COLD" => Restorable(cold)

\* A paused row's memory chain is whole in L1: archivePrune's deletions never
\* reach the snapshot of a later pause.
ChainPresent ==
  row.state \in {"PAUSED_HOT", "PAUSED_WARM"} => LayersPresent(l1)

\* A WARM row whose memory chain is in L1 has every disk delta of its
\* descriptor there too: RestoreSandbox replays them all from the one store.
WarmDeltasPresent ==
  row.state = "PAUSED_WARM" /\ LayersPresent(l1) => Complete(l1)

\* No two agents run the sandbox at once, while requests come one at a time
\* (ReleaseLocal before SetSandboxNode, the claims against the engine's, and
\* the RUNNING or FAILED the handlers record when a call fails).
OneVM == Cardinality({n \in Nodes : agent[n].mach = "RUNNING"}) <= 1

\* A sandbox with a snapshot, whose VM its node gave up (abortPause past the
\* kill), is in a row state resumeSandbox accepts once nothing is in flight.
NodeFailureRecoverable ==
  Idle /\ acked > 0 /\ row.node \in Nodes /\ agent[row.node].mach = "FAILED"
    => Validate(row.state, "RESUMING")

\* STOPPED is terminal: no handler brings a killed sandbox back (Terminal of
\* pkg/lifecycle, SetSandboxState).
StoppedFinal == [][row.state = "STOPPED" => row'.state = "STOPPED"]_vars

\* A row does not stay in a state only a request in flight can leave: every
\* path of createSandbox, resumeSandbox and migrateSandbox writes an end state.
TransientStates == {"PENDING", "PAUSING", "RESUMING"}
TransientLeft ==
  row.state \in TransientStates ~> row.state \notin TransientStates

\* A paused sandbox does not hold its node for ever: with a TTL set, the engine
\* moves it on (demoteHotToWarm) unless someone else does.
HotDemoted == row.state = "PAUSED_HOT" ~> row.state # "PAUSED_HOT"
==============================================================================
