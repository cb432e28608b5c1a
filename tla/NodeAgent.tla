------------------------------ MODULE NodeAgent ------------------------------
(***************************************************************************)
(* One node agent (pkg/nodeagent): its table of sandboxes, the processes,  *)
(* network slots and datasets they hold, and the verbs that run on them    *)
(* concurrently, one goroutine per call, with the watchdog beside them.    *)
(*                                                                         *)
(* A sandbox struct is an object of obj.  The table sbx names one by its   *)
(* id; datasets and table entries are addressed by id, so a verb that      *)
(* still holds an old struct reaches what a newer one of the same id owns. *)
(*                                                                         *)
(* A call is the list of steps it has left.  A step is what the code does  *)
(* under one lock, or one call into zfs, netns or a child process; the     *)
(* steps of two calls interleave.                                          *)
(***************************************************************************)
EXTENDS Lifecycle, NetnsPool, FiniteSets

CONSTANTS
  Ids,        \* sandbox ids
  Isolated,   \* ids whose egress policy is "none"
  Threads,    \* concurrent verbs
  Watchdog,   \* the reaper's goroutine
  Verbs,      \* the verbs the control plane issues
  Faults,     \* what may fail: "agent" a step of a verb, "process" a child, "zfs" a
              \* removal, "iptables" the removal of a rule
  Claims,     \* whether the control plane's claims on a row keep verbs apart
  MaxObjs     \* bound: sandbox structs ever made

None == 0   \* no struct, and no sandbox's id

ASSUME AgentAssumption ==
  /\ None \notin Ids /\ Isolated \subseteq Ids
  /\ Watchdog \notin Threads
  /\ Verbs \subseteq {"create", "pause", "resume", "snapshot", "stop", "release",
                      "restore"}
  /\ Faults \subseteq {"agent", "process", "zfs", "iptables"}
  /\ Claims \in BOOLEAN
  /\ MaxObjs \in Nat

Objs == 1 .. MaxObjs
Workers == Threads \cup {Watchdog}
NoLease == Base + Size
Process == {"none", "live", "dead"}   \* a nil pointer, or what it points to

VARIABLES
  sbx,      \* Agent.sbx: per id, the struct it names or None
  obj,      \* the sandbox structs
  made,     \* structs made so far
  pool,     \* Config.Pool
  rules,    \* per slot, its DROP rules in iptables
  stale,    \* history: slots given back with a rule that could not be removed
  data,     \* per id, the struct whose dataset exists, or None
  l1,       \* ids whose restore descriptor is in L1
  th        \* per worker, the call it runs

vars == <<sbx, obj, made, pool, rules, stale, data, l1, th>>

NoObj == [id |-> None, mach |-> "PENDING", lease |-> NoLease,
          fc |-> "none", uffd |-> "none"]
NoCall == [todo |-> <<>>, verb |-> "none", id |-> None, o |-> None, r |-> None]

-----------------------------------------------------------------------------
(* Steps *)

\* Mutant: the slot goes back before the VM is killed.
cleanupReleaseFirst == <<"clear", "release", "kill", "destroy">>

\* What each call does, in order.
cleanup == <<"kill", "clear", "release", "destroy">>
resume == <<"resume.get", "resume.to", "resume.uffd", "resume.fc",
            "resume.running", "resume.wait">>

\* Mutant: the watchdog only forgets a sandbox.
StepsReapForgets ==
  [create |-> <<"clone", "acquire", "boot", "register", "create.wait">>,
   pause |-> <<"pausing", "pause.vm", "pause.push", "paused">>,
   resume |-> resume,
   snapshot |-> <<"pausing", "pause.vm", "pause.push", "paused">> \o resume,
   stop |-> <<"stopping">> \o cleanup \o <<"unbook">>,
   release |-> <<"release.cas", "kill", "clear", "release", "release.destroy",
               "unbook">>,
   restore |-> <<"restore.wait", "restore.clear", "receive", "acquire", "book">>
                 \o resume,
   reap |-> <<"reap.cas", "unbook">>]

Steps ==
  [create |-> <<"clone", "acquire", "boot", "register", "create.wait">>,
   pause |-> <<"pausing", "pause.vm", "pause.push", "paused">>,
   resume |-> resume,
   snapshot |-> <<"pausing", "pause.vm", "pause.push", "paused">> \o resume,
   stop |-> <<"stopping">> \o cleanup \o <<"unbook">>,
   release |-> <<"release.cas", "kill", "clear", "release", "release.destroy",
               "unbook">>,
   restore |-> <<"restore.wait", "restore.clear", "receive", "acquire", "book">>
                 \o resume,
   reap |-> <<"reap.cas", "unbook">> \o cleanup]

At(t, s) == th[t].todo # <<>> /\ Head(th[t].todo) = s
Me(t) == th[t].o
My(t) == obj[Me(t)]

\* Call t goes on with the steps s; a call without any is over.
Continue(t, s) ==
  th' = [th EXCEPT ![t] = IF s = <<>> THEN NoCall ELSE [@ EXCEPT !.todo = s]]
Ok(t) == Continue(t, Tail(th[t].todo))
Return(t) == Continue(t, <<>>)

Set(o, mach) == obj' = [obj EXCEPT ![o].mach = mach]
Killed(x) == [x EXCEPT !.fc = "none", !.uffd = "none"]
MayFail(f) == f \in Faults

\* zfs refuses to destroy a dataset whose files a Firecracker has open.
Busy(id) == \E o \in Objs : obj[o].id = id /\ obj[o].fc = "live"

-----------------------------------------------------------------------------
(* Beginning a call *)

Running(id, verbs) == \E t \in Threads : th[t].id = id /\ th[t].verb \in verbs

\* What the control plane sends.  A client has an id from the answer to its
\* create, but may stop what it sees in the list before.  A resume, a restore
\* and a release each claim the row first, which says PAUSED_HOT for a resume
\* and a release; a release's claim does not keep a restore out.  A claim is
\* no lock: a state that another handler writes without comparing
\* (SetSandboxState) opens the row to the next claim.  Claims TRUE is the
\* hypothesis that none does, as when a sandbox's requests do not overlap.
Allowed(verb, id) ==
  /\ verb # "stop" => ~Running(id, {"create"})
  /\ Claims /\ verb = "restore" => ~Running(id, {"resume", "restore"})
  /\ Claims /\ verb \in {"resume", "release"} =>
       ~Running(id, {"resume", "restore", "release"}) /\ obj[sbx[id]].mach = "PAUSED_HOT"

Begin(t, verb, id, o) ==
  th' = [th EXCEPT ![t] = [todo |-> Steps[verb], verb |-> verb, id |-> id,
                           o |-> o, r |-> None]]

Idle(t) == th[t].todo = <<>>

\* CreateSandbox: the control plane makes up a new id for it.
BeginCreate(t, id) ==
  /\ Idle(t) /\ "create" \in Verbs /\ made < MaxObjs
  /\ \A o \in Objs : obj[o].id # id
  /\ obj' = [obj EXCEPT ![made + 1] = [NoObj EXCEPT !.id = id, !.mach = "STARTING"]]
  /\ made' = made + 1
  /\ Begin(t, "create", id, made + 1)
  /\ UNCHANGED <<sbx, pool, rules, stale, data, l1>>

\* The verbs that look the sandbox up first; ReleaseLocal also checks for the
\* descriptor.
BeginVerb(t, verb, id) ==
  /\ Idle(t) /\ verb \in Verbs \ {"create", "restore"}
  /\ sbx[id] # None /\ Allowed(verb, id)
  /\ verb = "release" => id \in l1
  /\ Begin(t, verb, id, sbx[id])
  /\ UNCHANGED <<sbx, obj, made, pool, rules, stale, data, l1>>

\* A restore of a FAILED row may find no snapshot of it in L1.
BeginRestore(t, id) ==
  /\ Idle(t) /\ "restore" \in Verbs /\ Allowed("restore", id)
  /\ \E o \in Objs : obj[o].id = id
  /\ Begin(t, "restore", id, None)
  /\ UNCHANGED <<sbx, obj, made, pool, rules, stale, data, l1>>

\* reapZombies finds a RUNNING sandbox with a dead child.
Scan(id) ==
  /\ Idle(Watchdog) /\ sbx[id] # None
  /\ LET x == obj[sbx[id]]
     IN x.mach = "RUNNING" /\ (x.fc = "dead" \/ x.uffd = "dead")
  /\ Begin(Watchdog, "reap", id, sbx[id])
  /\ UNCHANGED <<sbx, obj, made, pool, rules, stale, data, l1>>

-----------------------------------------------------------------------------
(* Teardown *)

\* killFC, killUffd (and the jail and the cgroup)
Kill(t) ==
  /\ At(t, "kill")
  /\ obj' = [obj EXCEPT ![Me(t)] = Killed(@)]
  /\ Ok(t)
  /\ UNCHANGED <<sbx, made, pool, rules, stale, data, l1>>

\* Mutant: the rule is left where it is.
ClearEgressNever(t) ==
  /\ At(t, "clear")
  /\ Ok(t)
  /\ UNCHANGED <<sbx, obj, made, pool, rules, stale, data, l1>>

\* Mutant: a rule is taken off a slot that has none.
ClearEgressTwice(t) ==
  /\ At(t, "clear")
  /\ LET s == My(t).lease
     IN rules' = IF s \in Slots /\ My(t).id \in Isolated
                 THEN [rules EXCEPT ![s] = @ - 1] ELSE rules
  /\ Ok(t)
  /\ UNCHANGED <<sbx, obj, made, pool, stale, data, l1>>

\* clearEgress, which only logs that a rule could not be removed.
ClearEgress(t) ==
  /\ At(t, "clear")
  /\ LET s == My(t).lease
         blocked == s \in Slots /\ My(t).id \in Isolated /\ rules[s] > 0
     IN \/ blocked /\ rules' = [rules EXCEPT ![s] = @ - 1] /\ UNCHANGED stale
        \/ blocked /\ MayFail("iptables") /\ stale' = stale \cup {s} /\ UNCHANGED rules
        \/ ~blocked /\ UNCHANGED <<rules, stale>>
  /\ Ok(t)
  /\ UNCHANGED <<sbx, obj, made, pool, data, l1>>

\* The lease goes back to the pool.
ReleaseLease(t) ==
  /\ At(t, "release")
  /\ pool' = Release(pool, My(t).lease)
  /\ Ok(t)
  /\ UNCHANGED <<sbx, obj, made, rules, stale, data, l1>>

\* DestroySandbox, its error ignored.
Destroy(t) ==
  /\ At(t, "destroy")
  /\ LET id == th[t].id
     IN \/ ~Busy(id) /\ data' = [data EXCEPT ![id] = None]
        \/ (Busy(id) \/ MayFail("zfs")) /\ UNCHANGED data
  /\ Ok(t)
  /\ UNCHANGED <<sbx, obj, made, pool, rules, stale, l1>>

\* delete(a.sbx, id); for StopSandbox after the machine's last step.
Unbook(t) ==
  /\ At(t, "unbook")
  /\ sbx' = [sbx EXCEPT ![th[t].id] = None]
  /\ IF th[t].verb = "stop" THEN Set(Me(t), To(My(t).mach, "STOPPED"))
                            ELSE UNCHANGED obj
  /\ Ok(t)
  /\ UNCHANGED <<made, pool, rules, stale, data, l1>>

Teardown(t) ==
  Kill(t) \/ ClearEgress(t) \/ ReleaseLease(t) \/ Destroy(t) \/ Unbook(t)

-----------------------------------------------------------------------------
(* CreateSandbox *)

Clone(t) ==
  /\ At(t, "clone")
  /\ \/ data' = [data EXCEPT ![th[t].id] = Me(t)] /\ Ok(t)
     \/ MayFail("agent") /\ Return(t) /\ UNCHANGED data
  /\ UNCHANGED <<sbx, obj, made, pool, rules, stale, l1>>

\* Pool.Acquire and applyEgress, for a create (which makes its directory in
\* between) and for a restore.
AcquireLease(t) ==
  /\ At(t, "acquire")
  /\ IF Exhausted(pool)
     THEN /\ Continue(t, IF th[t].verb = "create" THEN <<"destroy">> ELSE <<>>)
          /\ UNCHANGED <<obj, pool, rules>>
     ELSE LET s == Top(pool)
              isolate == My(t).id \in Isolated
          IN /\ pool' = Acquire(pool)
             /\ obj' = [obj EXCEPT ![Me(t)].lease = s]
             /\ \/ /\ rules' = IF isolate THEN [rules EXCEPT ![s] = @ + 1] ELSE rules
                   /\ Ok(t)
                \/ /\ isolate \/ th[t].verb = "create"
                   /\ MayFail("agent") /\ UNCHANGED rules
                   /\ Continue(t, cleanup)
  /\ UNCHANGED <<sbx, made, stale, data, l1>>

Boot(t) ==
  /\ At(t, "boot")
  /\ \/ obj' = [obj EXCEPT ![Me(t)].fc = "live"] /\ Ok(t)
     \/ /\ MayFail("agent")
        /\ obj' = [obj EXCEPT ![Me(t)].fc = "live"] /\ Continue(t, cleanup)
  /\ UNCHANGED <<sbx, made, pool, rules, stale, data, l1>>

Register(t) ==
  /\ At(t, "register")
  /\ Set(Me(t), To(My(t).mach, "RUNNING"))
  /\ sbx' = [sbx EXCEPT ![th[t].id] = Me(t)]
  /\ Ok(t)
  /\ UNCHANGED <<made, pool, rules, stale, data, l1>>

\* Mutant: a create whose guest does not answer only forgets it.
CreateWaitLeaks(t) ==
  /\ At(t, "create.wait")
  /\ \/ My(t).fc = "live" /\ Ok(t)
     \/ (My(t).fc # "live" \/ MayFail("agent")) /\ Continue(t, <<"unbook">>)
  /\ UNCHANGED <<sbx, obj, made, pool, rules, stale, data, l1>>

\* waitGuest
CreateWait(t) ==
  /\ At(t, "create.wait")
  /\ \/ My(t).fc = "live" /\ Ok(t)
     \/ /\ My(t).fc # "live" \/ MayFail("agent")
        /\ Continue(t, <<"unbook">> \o cleanup)
  /\ UNCHANGED <<sbx, obj, made, pool, rules, stale, data, l1>>

CreateSandbox(t) ==
  Clone(t) \/ AcquireLease(t) \/ Boot(t) \/ Register(t) \/ CreateWait(t)

-----------------------------------------------------------------------------
(* PauseSandbox *)

Pausing(t) ==
  /\ At(t, "pausing")
  /\ IF Validate(My(t).mach, "PAUSING") THEN Set(Me(t), "PAUSING") /\ Ok(t)
                                        ELSE Return(t) /\ UNCHANGED obj
  /\ UNCHANGED <<sbx, made, pool, rules, stale, data, l1>>

\* doPause up to the kill: the snapshot needs a live VM.
PauseVM(t) ==
  /\ At(t, "pause.vm")
  /\ \/ /\ My(t).fc = "live"
        /\ obj' = [obj EXCEPT ![Me(t)] = Killed(@)] /\ Ok(t)
     \/ /\ My(t).fc # "live" \/ MayFail("agent")
        /\ Continue(t, <<"pause.abort">>) /\ UNCHANGED obj
  /\ UNCHANGED <<sbx, made, pool, rules, stale, data, l1>>

\* The dataset snapshot and the write-through.
PausePush(t) ==
  /\ At(t, "pause.push")
  /\ \/ data[th[t].id] # None /\ l1' = l1 \cup {th[t].id} /\ Ok(t)
     \/ /\ data[th[t].id] = None \/ MayFail("agent")
        /\ Continue(t, <<"pause.abort">>) /\ UNCHANGED l1
  /\ UNCHANGED <<sbx, obj, made, pool, rules, stale, data>>

PausedHot(t) ==
  /\ At(t, "paused")
  /\ IF Validate(My(t).mach, "PAUSED_HOT") THEN Set(Me(t), "PAUSED_HOT") /\ Ok(t)
                                           ELSE Return(t) /\ UNCHANGED obj
  /\ UNCHANGED <<sbx, made, pool, rules, stale, data, l1>>

\* Mutant: a failed pause leaves the machine where it is.
AbortPauseWedged(t) ==
  /\ At(t, "pause.abort")
  /\ obj' = [obj EXCEPT ![Me(t)] = Killed(@)]
  /\ Return(t)
  /\ UNCHANGED <<sbx, made, pool, rules, stale, data, l1>>

\* abortPause: a VM that answers runs on; else the sandbox is FAILED.
AbortPause(t) ==
  /\ At(t, "pause.abort")
  /\ \/ /\ My(t).fc = "live" /\ CASOk(My(t).mach, "PAUSING", "RUNNING")
        /\ Set(Me(t), "RUNNING")
     \/ /\ ~(My(t).fc = "live" /\ CASOk(My(t).mach, "PAUSING", "RUNNING"))
             \/ MayFail("agent")
        /\ obj' = [obj EXCEPT ![Me(t)] = [Killed(@) EXCEPT
                     !.mach = CAS(My(t).mach, "PAUSING", "FAILED")]]
  /\ Return(t)
  /\ UNCHANGED <<sbx, made, pool, rules, stale, data, l1>>

PauseSandbox(t) ==
  Pausing(t) \/ PauseVM(t) \/ PausePush(t) \/ PausedHot(t) \/ AbortPause(t)

-----------------------------------------------------------------------------
(* resume, on the struct its own lookup finds *)

\* A restore whose resume failed takes its sandbox off the table.
ResumeErr(t) ==
  Continue(t, IF th[t].verb = "restore" THEN <<"unbook">> \o cleanup ELSE <<>>)

ResumeGet(t) ==
  /\ At(t, "resume.get")
  /\ LET o == sbx[th[t].id]
     IN IF o # None
        THEN th' = [th EXCEPT ![t].todo = Tail(@), ![t].r = o]
        ELSE ResumeErr(t)
  /\ UNCHANGED <<sbx, obj, made, pool, rules, stale, data, l1>>

ResumeTo(t) ==
  /\ At(t, "resume.to")
  /\ LET r == th[t].r
     IN IF Validate(obj[r].mach, "RESUMING")
        THEN Set(r, "RESUMING") /\ Ok(t)
        ELSE ResumeErr(t) /\ UNCHANGED obj
  /\ UNCHANGED <<sbx, made, pool, rules, stale, data, l1>>

ResumeUffd(t) ==
  /\ At(t, "resume.uffd")
  /\ obj' = [obj EXCEPT ![th[t].r].uffd = "live"]
  /\ \/ Ok(t)
     \/ MayFail("agent") /\ Continue(t, <<"resume.fail">>)
  /\ UNCHANGED <<sbx, made, pool, rules, stale, data, l1>>

\* launchFC and LoadSnapshot: the load needs the handler and the dataset.
ResumeFC(t) ==
  /\ At(t, "resume.fc")
  /\ LET r == th[t].r
         loads == obj[r].uffd = "live" /\ data[th[t].id] # None
     IN /\ obj' = [obj EXCEPT ![r].fc = "live"]
        /\ \/ loads /\ Ok(t)
           \/ (~loads \/ MayFail("agent")) /\ Continue(t, <<"resume.fail">>)
  /\ UNCHANGED <<sbx, made, pool, rules, stale, data, l1>>

ResumeRunning(t) ==
  /\ At(t, "resume.running")
  /\ LET r == th[t].r
     IN IF Validate(obj[r].mach, "RUNNING")
        THEN Set(r, "RUNNING") /\ Ok(t)
        ELSE Continue(t, <<"resume.fail">>) /\ UNCHANGED obj
  /\ UNCHANGED <<sbx, made, pool, rules, stale, data, l1>>

ResumeWait(t) ==
  /\ At(t, "resume.wait")
  /\ LET x == obj[th[t].r]
         answers == x.fc = "live" /\ x.uffd = "live"
     IN \/ answers /\ Ok(t)
        \/ (~answers \/ MayFail("agent")) /\ Continue(t, <<"resume.fail">>)
  /\ UNCHANGED <<sbx, obj, made, pool, rules, stale, data, l1>>

\* The deferred rollback of a failed resume.
ResumeFail(t) ==
  /\ At(t, "resume.fail")
  /\ LET r == th[t].r
     IN obj' = [obj EXCEPT ![r] = [Killed(@) EXCEPT
                  !.mach = CAS(CAS(obj[r].mach, "RESUMING", "FAILED"), "RUNNING", "FAILED")]]
  /\ ResumeErr(t)
  /\ UNCHANGED <<sbx, made, pool, rules, stale, data, l1>>

ResumeSandbox(t) ==
  \/ ResumeGet(t) \/ ResumeTo(t) \/ ResumeUffd(t) \/ ResumeFC(t)
  \/ ResumeRunning(t) \/ ResumeWait(t) \/ ResumeFail(t)

-----------------------------------------------------------------------------
(* StopSandbox, ReleaseLocal, RestoreSandbox, the watchdog's reap *)

\* StopSandbox goes on whether the machine agrees or not.
Stopping(t) ==
  /\ At(t, "stopping")
  /\ Set(Me(t), To(My(t).mach, "STOPPING"))
  /\ Ok(t)
  /\ UNCHANGED <<sbx, made, pool, rules, stale, data, l1>>

ReleaseCAS(t) ==
  /\ At(t, "release.cas")
  /\ IF CASOk(My(t).mach, "PAUSED_HOT", "STOPPING")
     THEN Set(Me(t), "STOPPING") /\ Ok(t)
     ELSE Return(t) /\ UNCHANGED obj
  /\ UNCHANGED <<sbx, made, pool, rules, stale, data, l1>>

\* The dataset, then the working directory; either may refuse to go.
ReleaseDestroy(t) ==
  /\ At(t, "release.destroy")
  /\ LET id == th[t].id
     IN \/ /\ ~Busy(id)
           /\ data' = [data EXCEPT ![id] = None] /\ Ok(t) /\ UNCHANGED obj
        \/ /\ Busy(id) \/ MayFail("zfs")
           /\ Set(Me(t), To(My(t).mach, "FAILED")) /\ Return(t) /\ UNCHANGED data
        \/ /\ ~Busy(id) /\ MayFail("zfs")
           /\ data' = [data EXCEPT ![id] = None]
           /\ Set(Me(t), To(My(t).mach, "FAILED")) /\ Return(t)
  /\ UNCHANGED <<sbx, made, pool, rules, stale, l1>>

\* Mutant: a restore does not look at the table.
RestoreWaitSkipped(t) ==
  /\ At(t, "restore.wait")
  /\ Ok(t)
  /\ UNCHANGED <<sbx, obj, made, pool, rules, stale, data, l1>>

\* Mutant: a restore drops a FAILED entry without taking it down.
RestoreWaitDrops(t) ==
  /\ At(t, "restore.wait")
  /\ LET o == sbx[th[t].id]
     IN IF o = None THEN Ok(t) /\ UNCHANGED sbx
        ELSE IF obj[o].mach = "FAILED" THEN Ok(t) /\ sbx' = [sbx EXCEPT ![th[t].id] = None]
        ELSE Return(t) /\ UNCHANGED sbx
  /\ UNCHANGED <<obj, made, pool, rules, stale, data, l1>>

\* The wait for a local entry: none is left, or it is FAILED and is taken over,
\* or the deadline passes.
RestoreWait(t) ==
  /\ At(t, "restore.wait")
  /\ LET o == sbx[th[t].id]
     IN IF o = None THEN Ok(t) /\ UNCHANGED obj
        ELSE IF CASOk(obj[o].mach, "FAILED", "STOPPING")
        THEN /\ Set(o, "STOPPING")
             /\ th' = [th EXCEPT ![t].o = o,
                                 ![t].todo = <<"unbook">> \o cleanup \o Tail(@)]
        ELSE Return(t) /\ UNCHANGED obj
  /\ UNCHANGED <<sbx, made, pool, rules, stale, data, l1>>

\* DestroySandbox of what an earlier incarnation left.
RestoreClear(t) ==
  /\ At(t, "restore.clear")
  /\ LET id == th[t].id
     IN \/ ~Busy(id) /\ data' = [data EXCEPT ![id] = None] /\ Ok(t)
        \/ (Busy(id) \/ MayFail("zfs")) /\ Return(t) /\ UNCHANGED data
  /\ UNCHANGED <<sbx, obj, made, pool, rules, stale, l1>>

\* The disk chain, the manifests and the snapfile, into a new struct.
Receive(t) ==
  /\ At(t, "receive")
  /\ \/ /\ made < MaxObjs /\ th[t].id \in l1
        /\ made' = made + 1
        /\ obj' = [obj EXCEPT ![made + 1] =
                     [NoObj EXCEPT !.id = th[t].id, !.mach = "PAUSED_HOT"]]
        /\ data' = [data EXCEPT ![th[t].id] = made + 1]
        /\ th' = [th EXCEPT ![t].o = made + 1, ![t].todo = Tail(@)]
     \/ /\ made = MaxObjs \/ th[t].id \notin l1 \/ MayFail("agent")
        /\ Return(t) /\ UNCHANGED <<made, obj, data>>
  /\ UNCHANGED <<sbx, pool, rules, stale, l1>>

Book(t) ==
  /\ At(t, "book")
  /\ sbx' = [sbx EXCEPT ![th[t].id] = Me(t)]
  /\ Ok(t)
  /\ UNCHANGED <<obj, made, pool, rules, stale, data, l1>>

ReapCAS(t) ==
  /\ At(t, "reap.cas")
  /\ IF CASOk(My(t).mach, "RUNNING", "FAILED") THEN Set(Me(t), "FAILED") /\ Ok(t)
                                               ELSE Return(t) /\ UNCHANGED obj
  /\ UNCHANGED <<sbx, made, pool, rules, stale, data, l1>>

Other(t) ==
  \/ Stopping(t) \/ ReleaseCAS(t) \/ ReleaseDestroy(t)
  \/ RestoreWait(t) \/ RestoreClear(t) \/ Receive(t) \/ Book(t) \/ ReapCAS(t)

-----------------------------------------------------------------------------

\* A child process dies behind the agent's back.
Die(o) ==
  /\ MayFail("process")
  /\ \/ obj[o].fc = "live" /\ obj' = [obj EXCEPT ![o].fc = "dead"]
     \/ obj[o].uffd = "live" /\ obj' = [obj EXCEPT ![o].uffd = "dead"]
  /\ UNCHANGED <<sbx, made, pool, rules, stale, data, l1, th>>

Init ==
  /\ sbx = [id \in Ids |-> None]
  /\ obj = [o \in Objs |-> NoObj]
  /\ made = 0
  /\ pool = SetupPool
  /\ rules = [s \in Slots |-> 0]
  /\ stale = {}
  /\ data = [id \in Ids |-> None]
  /\ l1 = {}
  /\ th = [t \in Workers |-> NoCall]

Next ==
  \/ \E t \in Threads, id \in Ids :
       \/ BeginCreate(t, id) \/ BeginRestore(t, id)
       \/ \E verb \in Verbs : BeginVerb(t, verb, id)
  \/ \E id \in Ids : Scan(id)
  \/ \E t \in Workers :
       Teardown(t) \/ CreateSandbox(t) \/ PauseSandbox(t) \/ ResumeSandbox(t)
         \/ Other(t)
  \/ \E o \in Objs : Die(o)

Spec == Init /\ [][Next]_vars

-----------------------------------------------------------------------------
(* Properties *)

\* The variables hold values of the code's types.
TypeOK ==
  /\ sbx \in [Ids -> 0 .. MaxObjs]
  /\ obj \in [Objs -> [id : Ids \cup {None}, mach : State, lease : Slots \cup {NoLease},
                       fc : Process, uffd : Process]]
  /\ made \in 0 .. MaxObjs
  /\ pool \in Pool
  /\ rules \in [Slots -> Nat]
  /\ stale \subseteq Slots
  /\ data \in [Ids -> 0 .. MaxObjs]
  /\ l1 \subseteq Ids
  /\ \A t \in Workers : th[t].o \in 0 .. MaxObjs /\ th[t].r \in 0 .. MaxObjs

Booked(o) == \E id \in Ids : sbx[id] = o
Handled(o) == \E t \in Workers : th[t].todo # <<>> /\ o \in {th[t].o, th[t].r}

\* No slot is both free and leased, or free twice, however often it is given
\* back (Acquire, release).
PoolSound == Sound(pool)

\* Every VM runs in a leased slot, and no two in the same one: nobody gives a
\* slot back for a sandbox that no longer owns it (Acquire, Lease.Release).
SlotExclusive ==
  \A o \in Objs : obj[o].fc = "live" =>
    /\ obj[o].lease \in pool.used
    /\ \A p \in Objs \ {o} : obj[p].fc = "live" => obj[p].lease # obj[o].lease

\* A VM whose policy is "none" runs behind a DROP rule of its slot, also when
\* rules could not be removed; one whose policy is "nat" is behind none, unless
\* one was left on its slot (applyEgress before the guest runs, clearEgress
\* before the slot is reused).
EgressEnforced ==
  \A o \in Objs : obj[o].fc = "live" =>
    LET s == obj[o].lease
    IN IF obj[o].id \in Isolated THEN rules[s] > 0 ELSE rules[s] = 0 \/ s \in stale

\* A live Firecracker is in the table or some call is working on it: none is
\* left running where no verb can reach it.
NoOrphanVM == \A o \in Objs : obj[o].fc = "live" => Booked(o) \/ Handled(o)

\* A leased slot belongs to a sandbox in the table or to a call under way.
NoLeakedSlot ==
  \A s \in pool.used : \E o \in Objs : obj[o].lease = s /\ (Booked(o) \/ Handled(o))

\* A sandbox in the table that no call works on is in a state a verb can leave
\* (abortPause and resume's deferred rollback).
Settled ==
  \A o \in Objs : Booked(o) /\ ~Handled(o)
    => obj[o].mach \in {"RUNNING", "PAUSED_HOT", "FAILED"}

\* A RUNNING or PAUSED_HOT sandbox in the table has its own dataset: nothing
\* that was destroyed under its id was destroyed under it.
DatasetKept ==
  \A o \in Objs : Booked(o) /\ ~Handled(o) /\ obj[o].mach \in {"RUNNING", "PAUSED_HOT"}
    => data[obj[o].id] = o

\* The watchdog abandons a sandbox that a verb has moved since the scan: it
\* takes down none whose children are alive (reapZombies, reap's CAS).
ReapsOnlyDead ==
  [][At(Watchdog, "reap.cas") /\ th'[Watchdog] # th[Watchdog]
       /\ obj'[Me(Watchdog)].mach = "FAILED"
     => My(Watchdog).fc # "live" \/ My(Watchdog).uffd = "dead"]_vars
==============================================================================
