------------------------- MODULE TieringSerial_proofs -------------------------
(***************************************************************************)
(* A sandbox whose requests come one at a time, with agent verbs that may  *)
(* stop half way, crashes and full nodes, for any nodes and number of      *)
(* snapshots.  Guarded carries the theorems: the only VM is on the row's   *)
(* node and its chain is the one the descriptor in L1 names (a Twin), so a *)
(* push that stops half way writes under a tag the descriptor does not     *)
(* name yet, and a restore continues from the last pause.                  *)
(***************************************************************************)
EXTENDS Tiering_proofs

Serial == \A c, d \in Clients : c = d
Answered == Faults \cap {"partition", "lost", "db", "apiserver"} = {}

\* The content a store's descriptor leads to.
Base(s) == IF s.desc = NoDesc THEN 0 ELSE s.layer[s.desc.seq]
\* Entry e is what a restore from s would make.
Twin(e, s) ==
  e.seq = s.desc.seq /\ e.layers = s.desc.layers /\ e.disk = s.desc.disk /\ e.base = Base(s)

Intact(s) ==
  s.desc # NoDesc =>
    /\ Held(s, s.desc.layers, s.desc.disk) /\ IsNewest(s.desc.seq, s.desc.disk)
    /\ s.disk[s.desc.seq] = s.layer[s.desc.seq]
Kept == /\ Intact(l1) /\ acked <= Base(l1) /\ Base(l1) <= gen
        /\ cold = NoObjects
        /\ eng.pc \in {"idle", "warm.cas", "warm.release", "warm.fail", "recycle.cas", "recycle.prune"}

\* The row's node holds nothing, or the snapshot the row stands for.
Parked == AgentEntry(row.node) = NoEntry \/ Twin(AgentEntry(row.node), l1)

\* Where a request may be while its sandbox runs.
AwakePC == {"create.write", "resume.write", "migrate.write", "migrate.pause", "migrate.aborted"}
RunningPC == {"idle", "pause.call", "snapshot.call", "kill.call", "migrate.claim"}
Awake(t) == t.pc \in AwakePC \/ (row.state = "RUNNING" /\ t.pc \in RunningPC)

Lone ==
  /\ \A n \in Nodes : ~reach[n] => agent[n] = NoEntry
  /\ \A n \in Nodes : agent[n].mach = "RUNNING" =>
       n = row.node /\ reports = {} /\ Twin(agent[n], l1) /\ \A c \in Clients : Awake(th[c])
  /\ \A n \in reports :
       n = row.node /\ reach[n] /\ agent[n] = NoEntry /\ \A c \in Clients : Awake(th[c])

\* The steps of a request that has claimed the row, and those of a migration
\* that has pointed the row at its target.
Claimed ==
  {"create.place", "create.boot", "create.write", "resume.place", "resume.restore",
   "resume.hot", "resume.write", "migrate.pause", "migrate.aborted", "migrate.paused",
   "migrate.release", "migrate.point", "migrate.resume", "migrate.restore", "migrate.write"}
Pointed == {"migrate.resume", "migrate.restore", "migrate.write"}
Bound(t) ==
  /\ t.pc \notin Pointed \cup {"idle", "fail"} => t.node = row.node
  /\ t.pc \in Pointed => t.tgt = row.node
  /\ t.pc \in Claimed => row.state # "PAUSED_HOT"
  /\ t.pc # "idle" => row.state # "NONE"
  /\ t.pc \in {"create.place", "create.boot"} => l1.desc = NoDesc
  /\ Recording(t) => l1.desc # NoDesc /\ t.gen = Base(l1)
  /\ Recording(t) \/ t.pc = "resume.hot" => Parked
  /\ t.pc = "resume.claim" => t.st \in RestoresAnywhere \cup {"PAUSED_HOT"}
  /\ t.pc \notin {"create.orphan", "resume.undo"}
Settled ==
  /\ PausedRow => l1.desc # NoDesc
  /\ row.state = "PAUSED_HOT" => Parked
  /\ row.state = "NONE" => l1.desc = NoDesc
Guarded == Kept /\ Lone /\ Settled /\ \A c \in Clients : Bound(th[c])

LEMMA BaseIs ==
  ASSUME StoreInv, Kept, HistInv
  PROVE  /\ Base(l1) \in Nat /\ gen \in Nat /\ acked \in Nat
         /\ l1.desc # NoDesc => /\ IsNewest(l1.desc.seq, l1.desc.layers) /\ Content(l1) = Base(l1)
                                /\ l1.desc.seq \in Tags /\ l1.desc.seq \in Nat
                                /\ 1 <= l1.desc.seq /\ l1.desc.seq \in Layers
                                /\ l1.desc.layers \in SUBSET Tags /\ l1.desc.disk \in SUBSET Layers
<1>1. gen \in Nat /\ acked \in Nat /\ l1 \in Objects
  BY Zenon, Zero DEF HistInv, StoreInv
<1>2. CASE l1.desc = NoDesc
  BY <1>1, <1>2 DEF Base
<1>3. CASE l1.desc # NoDesc
  <2>1. l1.desc \in Descriptor /\ 1 <= l1.desc.seq /\ IsNewest(l1.desc.seq, l1.desc.layers)
    BY Zenon, <1>3 DEF StoreInv, Chained, Numbered
  <2>2. Content(l1) = l1.layer[l1.desc.seq] /\ l1.desc.seq \in Tags /\ Content(l1) \in Gens
    BY Zenon, <1>1, <2>1, ContentIs
  <2>3. l1.desc.layers \in SUBSET Tags /\ l1.desc.disk \in SUBSET Layers
    BY <2>1 DEF Descriptor
  <2>4. l1.desc.seq \in Nat /\ Content(l1) \in Nat
    BY Zenon, <2>2, Zero
  <2>5. l1.desc.seq \in Layers
    BY Zenon, <1>3, <2>3 DEF Kept, Intact, IsNewest
  <2> QED
    BY Zenon, <1>1, <1>3, <2>1, <2>2, <2>3, <2>4, <2>5 DEF Base
<1> QED
  BY Zenon, <1>2, <1>3

LEMMA GuardedRestores ==
  ASSUME Inv, Kept, l1.desc # NoDesc
  PROVE  Restorable(l1)
<1>1. /\ IsNewest(l1.desc.seq, l1.desc.layers) /\ Content(l1) = Base(l1)
      /\ l1.desc.disk \in SUBSET Tags /\ Base(l1) \in Nat /\ acked \in Nat
  <2>1. Layers \subseteq Tags
    BY Zenon, Zero
  <2> QED
    BY <2>1, BaseIs DEF Inv
<1>2. /\ Held(l1, l1.desc.layers, l1.desc.disk) /\ IsNewest(l1.desc.seq, l1.desc.disk)
      /\ l1.disk[l1.desc.seq] = Base(l1)
  BY Zenon DEF Kept, Intact, Base
<1>3. Newest(l1.desc.disk) = l1.desc.seq
  BY Zenon, <1>1, <1>2, NewestIs
<1>4. Complete(l1)
  BY Zenon, <1>1, <1>2 DEF Complete, LayersPresent, Held, IsNewest
<1> QED
  BY <1>1, <1>2, <1>3, <1>4 DEF Restorable, Kept

\* A push that stops half way leaves the descriptor and all it names alone.
LEMMA HalfKept ==
  ASSUME Inv, Kept, NEW e, Twin(e, l1), NEW o, Half(e, l1, o), l1' = o.l1, gen' = o.gen,
         cold' = cold, eng' = eng, acked' = acked
  PROVE  Kept' /\ l1'.desc = l1.desc /\ Base(l1') = Base(l1)
<1>1. /\ Base(l1) \in Nat /\ gen \in Nat /\ acked \in Nat
      /\ l1.desc # NoDesc => /\ IsNewest(l1.desc.seq, l1.desc.layers)
                             /\ l1.desc.seq \in Tags /\ l1.desc.seq \in Nat /\ l1.desc.seq \in Layers
                             /\ l1.desc.layers \in SUBSET Tags /\ l1.desc.disk \in SUBSET Layers
  BY Zenon, BaseIs DEF Inv
<1>2. /\ l1'.desc = l1.desc /\ gen' = gen + 1
      /\ \A u \in Tags : u # o.e.seq => l1'.layer[u] = l1.layer[u]
      /\ \A u \in Layers : u # o.e.seq => l1'.disk[u] = l1.disk[u]
  BY Zenon DEF Half, Torn
<1>3. o.e.seq = l1.desc.seq + 1
  BY DEF Half, Extends, Twin
<1>4. CASE l1.desc = NoDesc
  BY <1>1, <1>2, <1>4 DEF Kept, Intact, Base
<1>5. CASE l1.desc # NoDesc
  <2>1. \A u \in Nat : u <= l1.desc.seq => u # o.e.seq
    BY <1>1, <1>3, <1>5
  <2>2. /\ IsNewest(l1.desc.seq, l1.desc.disk) /\ Held(l1, l1.desc.layers, l1.desc.disk)
        /\ l1.disk[l1.desc.seq] = l1.layer[l1.desc.seq]
    BY Zenon, <1>5 DEF Kept, Intact
  <2>3. \A u \in l1.desc.layers : u \in Tags /\ u # o.e.seq
    BY Zenon, <1>1, <1>5, <2>1, Zero DEF IsNewest
  <2>4. \A u \in l1.desc.disk : u \in Layers /\ u # o.e.seq
    BY Zenon, <1>1, <1>5, <2>1, <2>2, Zero DEF IsNewest
  <2>5. Held(l1', l1.desc.layers, l1.desc.disk)
    BY Zenon, <1>2, <2>2, <2>3, <2>4 DEF Held
  <2>6. l1'.layer[l1.desc.seq] = l1.layer[l1.desc.seq] /\ l1'.disk[l1.desc.seq] = l1.disk[l1.desc.seq]
    BY Zenon, <1>1, <1>2, <1>5, <2>2, <2>3, <2>4 DEF IsNewest
  <2>7. Intact(l1') /\ Base(l1') = Base(l1)
    BY Zenon, <1>2, <2>2, <2>5, <2>6 DEF Intact, Base
  <2>8. Base(l1) <= gen + 1
    BY <1>1 DEF Kept
  <2> QED
    BY Zenon, <1>2, <2>7, <2>8 DEF Kept
<1> QED
  BY Zenon, <1>4, <1>5

\* A push that goes through leaves the descriptor at the new snapshot.
LEMMA WholeKept ==
  ASSUME Inv, Kept, NEW e, Twin(e, l1), NEW o, Whole(e, l1, o), l1' = o.l1, gen' = o.gen,
         cold' = cold, eng' = eng, acked' = acked
  PROVE  Kept' /\ l1'.desc # NoDesc /\ Base(l1') = o.gen /\ Twin(o.e, l1')
<1>1. /\ Base(l1) \in Nat /\ gen \in Nat /\ acked \in Nat
      /\ l1.desc # NoDesc => l1.desc.seq \in Nat /\ l1.desc.disk \in SUBSET Layers
  BY Zenon, BaseIs DEF Inv
<1>2. /\ e \in Entry /\ o.gen = gen + 1 /\ o.e.disk = e.disk \cup {o.e.seq}
      /\ o.e.seq = e.seq + 1 /\ o.e.seq \in Layers /\ o.e.base = gen + 1
      /\ o.e.layers \subseteq e.layers \cup {o.e.seq} /\ IsNewest(o.e.seq, o.e.layers)
  <2>1. Whole(e, l1, o)
    OBVIOUS
  <2> QED
    BY <2>1 DEF Whole, Extends
<1>3. /\ l1'.desc.seq = o.e.seq /\ l1'.desc.layers = o.e.layers /\ l1'.desc.disk = o.e.disk
      /\ \A u \in Tags : u # o.e.seq => l1'.layer[u] = l1.layer[u]
      /\ \A u \in Layers : u # o.e.seq => l1'.disk[u] = l1.disk[u]
      /\ l1'.layer[o.e.seq] = gen + 1 /\ l1'.disk[o.e.seq] = gen + 1
  BY Zenon DEF Whole, Pushed
<1>4. e.layers \in SUBSET Tags /\ e.disk \in SUBSET Layers /\ e.seq \in Nat
  BY Zenon, <1>2, Zero DEF Entry
<1>5. Held(l1, e.layers, e.disk) /\ (e.disk = {} \/ IsNewest(e.seq, e.disk))
  <2>1. CASE l1.desc = NoDesc
    BY <2>1 DEF Twin, NoDesc, Held
  <2>2. CASE l1.desc # NoDesc
    BY Zenon, <2>2 DEF Twin, Kept, Intact
  <2> QED
    BY Zenon, <2>1, <2>2
<1>6. gen + 1 # 0 /\ gen + 1 \in Nat /\ acked <= gen + 1
  BY <1>1 DEF Kept
<1>7. Held(l1', o.e.layers, o.e.disk)
  <2>1. \A t \in o.e.layers : l1'.layer[t] # 0
    BY Zenon, <1>2, <1>3, <1>4, <1>5, <1>6 DEF Held
  <2>2. \A t \in o.e.disk : l1'.disk[t] # 0
    BY Zenon, <1>2, <1>3, <1>4, <1>5, <1>6 DEF Held
  <2> QED
    BY Zenon, <2>1, <2>2 DEF Held
<1>8. IsNewest(o.e.seq, o.e.disk)
  <2>1. \A u \in e.disk : u \in Nat /\ u <= e.seq
    <3>1. \A u \in e.disk : u \in Nat
      BY Zenon, <1>4, Zero
    <3> QED
      BY <1>5, <3>1 DEF IsNewest
  <2>2. \A u \in e.disk \cup {o.e.seq} : u <= o.e.seq
    BY <1>2, <1>4, <2>1
  <2> QED
    BY Zenon, <1>2, <2>2 DEF IsNewest
<1>9. l1'.desc # NoDesc
  BY <1>2, <1>3 DEF NoDesc, IsNewest
<1>10. Base(l1') = gen + 1
  BY Zenon, <1>3, <1>9 DEF Base
<1>11. Intact(l1')
  BY Zenon, <1>3, <1>7, <1>8 DEF Intact
<1>12. Twin(o.e, l1')
  BY Zenon, <1>2, <1>3, <1>10 DEF Twin
<1>13. Kept'
  <2>1. gen' = gen + 1 /\ gen + 1 <= gen + 1
    BY <1>1, <1>2
  <2>2. acked' <= gen + 1
    BY <1>6
  <2> QED
    BY Zenon, <1>10, <1>11, <2>1, <2>2 DEF Kept
<1> QED
  BY Zenon, <1>2, <1>9, <1>10, <1>12, <1>13

\* What a restore from L1 starts is the descriptor's snapshot.
LEMMA FetchedTwin ==
  ASSUME Inv, Kept, NEW e, Fetched(l1, e, FALSE)
  PROVE  Twin(e, l1)
<1>1. l1.desc # NoDesc
  BY DEF Fetched, Complete, LayersPresent, NoDesc
<1>2. Content(l1) = Base(l1)
  BY Zenon, <1>1, BaseIs DEF Inv
<1> QED
  BY Zenon, <1>2 DEF Fetched, Twin

LEMMA BootedTwin ==
  ASSUME l1.desc = NoDesc, NEW e, Booted(e)
  PROVE  Twin(e, l1)
BY DEF Booted, Twin, NoDesc, Base

LEMMA NoneFetched ==
  ASSUME Kept, NEW e
  PROVE  ~Fetched(cold, e, TRUE)
BY DEF Fetched, Complete, LayersPresent, Kept, NoObjects, NoDesc

Stirred == reports # {} \/ \E n \in Nodes : agent[n].mach = "RUNNING"

LEMMA StirredAwake ==
  ASSUME Inv, Lone, Stirred, NEW c \in Clients
  PROVE  Awake(th[c])
BY Zenon DEF Lone, Stirred

\* A step of a request that calls no agent.
LEMMA QuietGuarded ==
  ASSUME Inv, Guarded, NEW c \in Clients, \A d \in Clients : d = c,
         agent' = agent, l1' = l1, gen' = gen, reach' = reach, reports' = reports,
         cold' = cold, eng' = eng, acked' <= Base(l1),
         Awake(th[c]) => row'.node = row.node /\ Awake(th[c])',
         Bound(th[c])', Settled'
  PROVE  Guarded'
<1>1. Kept'
  BY Zenon DEF Guarded, Kept
<1>2. Lone'
  <2>1. ASSUME NEW n \in Nodes, agent[n].mach = "RUNNING"
        PROVE  n = row'.node /\ reports = {} /\ Twin(agent[n], l1) /\ \A d \in Clients : Awake(th[d])'
    BY Zenon, <2>1 DEF Guarded, Lone
  <2>2. ASSUME NEW n \in reports
        PROVE  n = row'.node /\ reach[n] /\ agent[n] = NoEntry /\ \A d \in Clients : Awake(th[d])'
    BY Zenon, <2>2 DEF Guarded, Lone
  <2> QED
    BY Zenon, <2>1, <2>2 DEF Guarded, Lone
<1>3. \A d \in Clients : Bound(th[d])'
  BY Zenon
<1> QED
  BY Zenon, <1>1, <1>2, <1>3 DEF Guarded

\* An agent call on the row's node.
LEMMA CallGuarded ==
  ASSUME Inv, Guarded, NEW c \in Clients, \A d \in Clients : d = c,
         NEW n, n = row.node, NEW o, NEW pc, Called(c, n, o, pc),
         n \in Nodes /\ ~reach[n] => o.e = AgentEntry(n),
         n \in Nodes /\ o.e.mach = "RUNNING" => reports = {} /\ Twin(o.e, o.l1) /\ Awake(th[c])',
         reports # {} => o.e = NoEntry /\ Awake(th[c])',
         Kept', Bound(th[c])', Settled'
  PROVE  Guarded'
<1>1. /\ l1' = o.l1 /\ row' = row /\ reach' = reach /\ reports' = reports
      /\ \A m \in Nodes : agent'[m] = IF m = n THEN o.e ELSE agent[m]
  BY DEF Called, Effect, cluster
<1>2. Lone'
  <2>1. ASSUME NEW m \in Nodes, ~reach[m] PROVE agent'[m] = NoEntry
    BY Zenon, <1>1, <2>1 DEF Guarded, Lone, AgentEntry
  <2>2. ASSUME NEW m \in Nodes, agent'[m].mach = "RUNNING"
        PROVE  m = row.node /\ reports = {} /\ Twin(agent'[m], l1') /\ \A d \in Clients : Awake(th[d])'
    <3>1. m = n
      BY Zenon, <1>1, <2>2 DEF Guarded, Lone
    <3> QED
      BY Zenon, <1>1, <2>2, <3>1
  <2>3. ASSUME NEW m \in reports
        PROVE  m = row.node /\ reach[m] /\ agent'[m] = NoEntry /\ \A d \in Clients : Awake(th[d])'
    <3>1. m \in Nodes /\ m = n /\ reach[m]
      BY Zenon, <2>3 DEF Guarded, Lone, Inv, NodeInv
    <3> QED
      BY Zenon, <1>1, <2>3, <3>1
  <2> QED
    BY Zenon, <1>1, <2>1, <2>2, <2>3 DEF Lone
<1>3. \A d \in Clients : Bound(th[d])'
  BY Zenon
<1> QED
  BY Zenon, <1>2, <1>3 DEF Guarded

\* A call that starts a VM, or lets one go, while the row is claimed.
StartPC == {"create.boot", "resume.restore", "resume.hot", "migrate.restore", "migrate.release"}
LEMMA StartGuarded ==
  ASSUME Inv, Guarded, NEW c \in Clients, \A d \in Clients : d = c,
         NEW n, n = row.node, NEW o, NEW pc, Called(c, n, o, pc), th[c].pc \in StartPC,
         Untouched(o, l1),
         \/ o.e = AgentEntry(n) \/ (n \in Nodes /\ reach[n]),
         \/ o.e = AgentEntry(n)
         \/ o.e.mach # "RUNNING"
         \/ Twin(o.e, l1) /\ pc \in {"create.write", "resume.write", "migrate.write"},
         pc \in {"fail", "create.write", "resume.write", "migrate.write", "migrate.point"},
         pc = "migrate.write" <=> (th[c].pc = "migrate.restore" /\ pc # "fail")
  PROVE  Guarded'
<1>1. /\ l1' = l1 /\ gen' = gen /\ cold' = cold /\ eng' = eng /\ acked' = acked /\ row' = row
      /\ o.l1 = l1 /\ Moves(c, pc, o.gen)
  BY Zenon DEF Called, Effect, Untouched
<1>2. ~Awake(th[c])
  BY DEF Awake, StartPC, AwakePC, RunningPC
<1>3. ~Stirred
  BY Zenon, <1>2, StirredAwake DEF Guarded
<1>4. AgentEntry(n).mach # "RUNNING"
  BY Zenon, <1>3, NoEntryFits DEF AgentEntry, Stirred
<1>5. /\ th'[c].pc = pc /\ th'[c].node = th[c].node /\ th'[c].tgt = th[c].tgt
  BY <1>1 DEF Moves
<1>6. row.state # "PAUSED_HOT" /\ row.state # "NONE"
  BY DEF Guarded, Bound, StartPC, Claimed
<1>7. Kept'
  BY Zenon, <1>1 DEF Guarded, Kept
<1>8. Settled'
  BY <1>1, <1>6 DEF Guarded, Settled, PausedRow
<1>9. Bound(th[c])'
  <2>1. pc \in {"create.write", "resume.write", "migrate.point"} => th[c].node = row.node
    BY DEF Guarded, Bound, StartPC, Pointed
  <2>2. pc = "migrate.write" => th[c].tgt = row.node
    BY DEF Guarded, Bound, Pointed
  <2> QED
    BY <1>1, <1>5, <1>6, <2>1, <2>2 DEF Bound, Pointed, Claimed, Recording
<1>10. pc \in {"create.write", "resume.write", "migrate.write"} => Awake(th[c])'
  BY <1>5 DEF Awake, AwakePC
<1>11. reports = {}
  BY Zenon, <1>3 DEF Stirred
<1> QED
  BY Zenon, <1>1, <1>4, <1>7, <1>8, <1>9, <1>10, <1>11, CallGuarded

\* With no lost answers a request hears what its call did.
LEMMA Heard ==
  ASSUME Answered, NEW n, NEW outs, NEW o \in Answers(n, outs)
  PROVE  \/ (n \notin Nodes \/ ~reach[n]) /\ Nothing(AgentEntry(n), l1, o) /\ o.ok = FALSE
         \/ n \in Nodes /\ reach[n] /\ o \in outs
<1>1. "lost" \notin Faults
  BY DEF Answered
<1>2. CASE n \notin Nodes \/ ~reach[n]
  <2>1. o = Out(AgentEntry(n), l1, FALSE, 0)
    BY Zenon, <1>2 DEF Answers
  <2> QED
    BY <1>2, <2>1 DEF Out, Nothing, Untouched
<1>3. CASE n \in Nodes /\ reach[n]
  BY <1>1, <1>3 DEF Answers
<1> QED
  BY Zenon, <1>2, <1>3

\* A pause or a snapshot.
PushPC == {"pause.call", "snapshot.call", "migrate.pause"}
LEMMA PushGuarded ==
  ASSUME Inv, Guarded, NEW c \in Clients, \A d \in Clients : d = c,
         NEW n, n = row.node, NEW e, e = AgentEntry(n),
         NEW o, NEW pc, Called(c, n, o, pc), th[c].pc \in PushPC,
         \/ Nothing(e, l1, o)
         \/ /\ n \in Nodes /\ reach[n] /\ e.mach = "RUNNING"
            /\ Turned(e, l1, o, "FAILED") \/ Half(e, l1, o) \/ Whole(e, l1, o),
         o.e.mach = "RUNNING" => Nothing(e, l1, o) \/ th[c].pc = "snapshot.call",
         \/ pc = "migrate.aborted" /\ th[c].pc = "migrate.pause"
         \/ pc = "idle" /\ th[c].pc # "migrate.pause"
         \/ /\ Whole(e, l1, o) /\ pc \in {"pause.write", "migrate.paused"}
            /\ th[c].pc # "snapshot.call"
  PROVE  Guarded'
<1>1. /\ l1' = o.l1 /\ cold' = cold /\ eng' = eng /\ acked' = acked /\ row' = row /\ Moves(c, pc, o.gen)
      /\ (o.gen = 0 => gen' = gen) /\ (o.gen # 0 => gen' = o.gen)
      /\ \A m \in Nodes : agent'[m] = IF m = n THEN o.e ELSE agent[m]
  BY Zenon DEF Called, Effect
<1>2. /\ th[c].node = row.node /\ row.state # "NONE"
      /\ th[c].pc = "migrate.pause" => row.state # "PAUSED_HOT"
  BY DEF Guarded, Bound, PushPC, Pointed, Claimed
<1>3. Awake(th[c]) => th[c].pc = "migrate.pause" \/ row.state = "RUNNING"
  BY DEF Awake, PushPC, AwakePC
<1>4. e.mach = "RUNNING" => /\ n \in Nodes /\ reports = {} /\ Twin(e, l1) /\ Awake(th[c])
                            /\ row.state # "PAUSED_HOT"
  <2>1. e.mach = "RUNNING" => n \in Nodes /\ reports = {} /\ Twin(e, l1) /\ Awake(th[c])
    BY Zenon, NoEntryFits DEF AgentEntry, Guarded, Lone
  <2> QED
    BY <1>2, <1>3, <2>1
<1>5. reports # {} => e = NoEntry /\ Awake(th[c])
  BY Zenon DEF Guarded, Lone, AgentEntry, Inv, NodeInv
<1>6. gen \in Nat
  BY Zenon, Zero DEF Inv, HistInv
<1>7. ~Half(e, l1, o) /\ ~Whole(e, l1, o) => pc \in {"idle", "migrate.aborted"}
  BY Zenon
<1>8. pc \in {"idle", "migrate.aborted"} => (Awake(th[c]) => Awake(th[c])')
  <2>1. CASE pc = "idle"
    <3>1. th'[c].pc = "idle"
      BY <1>1, <2>1 DEF Moves, IdleThread
    <3>2. th[c].pc # "migrate.pause"
      BY <2>1
    <3> QED
      BY <1>1, <1>3, <3>1, <3>2 DEF Awake, RunningPC
  <2>2. CASE pc = "migrate.aborted"
    <3>1. th'[c].pc = "migrate.aborted"
      BY <1>1, <2>2 DEF Moves
    <3> QED
      BY <3>1 DEF Awake, AwakePC
  <2> QED
    BY Zenon, <2>1, <2>2
<1>9. pc \in {"idle", "migrate.aborted"} => Bound(th[c])'
  <2>1. CASE pc = "idle"
    <3>1. th'[c].pc = "idle"
      BY <1>1, <2>1 DEF Moves, IdleThread
    <3> QED
      BY <3>1 DEF Bound, Pointed, Claimed, Recording
  <2>2. CASE pc = "migrate.aborted"
    <3>1. th'[c].pc = "migrate.aborted" /\ th'[c].node = th[c].node /\ th[c].pc = "migrate.pause"
      BY <1>1, <2>2 DEF Moves
    <3> QED
      BY <1>1, <1>2, <3>1 DEF Bound, Pointed, Claimed, Recording
  <2> QED
    BY Zenon, <2>1, <2>2
<1>10. CASE Nothing(e, l1, o)
  <2>1. l1' = l1 /\ o.l1 = l1 /\ gen' = gen /\ o.e = e /\ o.gen = 0
    BY Zenon, <1>1, <1>10 DEF Nothing, Untouched
  <2>2. ~Half(e, l1, o) /\ ~Whole(e, l1, o)
    BY <1>6, <2>1 DEF Half, Whole
  <2>3. Kept'
    BY Zenon, <1>1, <2>1 DEF Guarded, Kept
  <2>4. AgentEntry(row.node)' = AgentEntry(row.node)
    BY Zenon, <1>1, <2>1 DEF AgentEntry
  <2>5. Settled'
    BY Zenon, <1>1, <2>1, <2>4 DEF Guarded, Settled, Parked, PausedRow
  <2> QED
    BY Zenon, <1>4, <1>5, <1>7, <1>8, <1>9, <2>1, <2>2, <2>3, <2>5, CallGuarded
<1>11. CASE /\ n \in Nodes /\ reach[n] /\ e.mach = "RUNNING"
            /\ Turned(e, l1, o, "FAILED") \/ Half(e, l1, o) \/ Whole(e, l1, o)
  <2>1. row.state # "PAUSED_HOT" /\ reports = {} /\ Twin(e, l1) /\ Awake(th[c])
    BY Zenon, <1>4, <1>11
  <2>2. gen + 1 # 0
    BY <1>6
  <2>3. CASE Turned(e, l1, o, "FAILED")
    <3>1. l1' = l1 /\ gen' = gen /\ o.gen = 0
      BY Zenon, <1>1, <2>3 DEF Turned, Untouched
    <3>2. o.e.mach # "RUNNING"
      BY <2>3 DEF Turned
    <3>3. ~Half(e, l1, o) /\ ~Whole(e, l1, o)
      BY <1>6, <3>1 DEF Half, Whole
    <3>4. Kept'
      BY Zenon, <1>1, <3>1 DEF Guarded, Kept
    <3>5. Settled'
      BY Zenon, <1>1, <1>2, <2>1, <3>1 DEF Guarded, Settled, PausedRow
    <3> QED
      BY Zenon, <1>7, <1>9, <1>11, <2>1, <3>2, <3>3, <3>4, <3>5, CallGuarded
  <2>4. CASE Half(e, l1, o)
    <3>1. gen' = o.gen /\ o.e.mach # "RUNNING"
      BY <1>1, <2>2, <2>4 DEF Half
    <3>2. Kept' /\ l1'.desc = l1.desc
      BY Zenon, <1>1, <2>1, <2>4, <3>1, HalfKept DEF Guarded
    <3>3. Settled'
      BY Zenon, <1>1, <1>2, <2>1, <3>2 DEF Guarded, Settled, PausedRow
    <3>4. ~Whole(e, l1, o) \/ pc \in {"idle", "migrate.aborted"}
      <4>1. Whole(e, l1, o) => l1'.desc.seq = e.seq + 1
        BY <1>1 DEF Whole, Pushed, Extends
      <4>2. l1'.desc.seq = e.seq /\ e.seq \in Nat
        BY Zenon, <2>1, <2>4, <3>2, Zero DEF Twin, Half, Entry
      <4> QED
        BY SMTT(20), <4>1, <4>2
    <3>5. pc \in {"idle", "migrate.aborted"}
      BY Zenon, <3>4
    <3> QED
      BY Zenon, <1>9, <1>11, <2>1, <3>1, <3>2, <3>3, <3>5, CallGuarded
  <2>5. CASE Whole(e, l1, o)
    <3>1. gen' = o.gen /\ o.gen # 0 /\ ~Nothing(e, l1, o)
      BY <1>1, <1>6, <2>2, <2>5 DEF Whole, Nothing, Untouched
    <3>2. Kept' /\ l1'.desc # NoDesc /\ Base(l1') = o.gen /\ Twin(o.e, l1')
      BY Zenon, <1>1, <2>1, <2>5, <3>1, WholeKept DEF Guarded
    <3>3. Settled'
      BY Zenon, <1>1, <1>2, <2>1, <3>2 DEF Settled, PausedRow
    <3>4. Parked'
      BY Zenon, <1>1, <1>11, <3>2 DEF Parked, AgentEntry
    <3>5. pc \in {"pause.write", "migrate.paused"} => Bound(th[c])'
      <4>1. pc \in {"pause.write", "migrate.paused"} =>
              th'[c].pc = pc /\ th'[c].gen = o.gen /\ th'[c].node = th[c].node
        BY <1>1 DEF Moves
      <4> QED
        BY <1>1, <1>2, <2>1, <3>2, <3>4, <4>1 DEF Bound, Pointed, Claimed, Recording
    <3>6. Bound(th[c])'
      BY Zenon, <1>9, <3>5
    <3>7. o.e.mach = "RUNNING" => Awake(th[c])'
      <4>1. o.e.mach = "RUNNING" => th[c].pc = "snapshot.call"
        BY Zenon, <3>1
      <4>2. th[c].pc = "snapshot.call" => pc \in {"idle", "migrate.aborted"}
        OBVIOUS
      <4> QED
        BY Zenon, <1>8, <2>1, <4>1, <4>2
    <3> QED
      BY Zenon, <1>1, <1>11, <2>1, <3>2, <3>3, <3>6, <3>7, CallGuarded
  <2> QED
    BY Zenon, <1>11, <2>3, <2>4, <2>5
<1> QED
  BY Zenon, <1>10, <1>11

\* A call of request c and what it hears of it.
Hears(c, n, outs, pcOk, pcErr, o, pc) ==
  /\ Called(c, n, o, pc)
  /\ \/ Nothing(AgentEntry(n), l1, o) /\ pc = pcErr
     \/ /\ n \in Nodes /\ reach[n] /\ o \in outs
        /\ (o.ok = TRUE /\ pc = pcOk) \/ (o.ok = FALSE /\ pc = pcErr)

LEMMA CallHeard ==
  ASSUME Inv, Answered, NEW c \in Clients, NEW n, NEW e, e = AgentEntry(n), NEW outs,
         NEW pcOk \in RequestPC, NEW pcErr \in RequestPC, \A p \in outs : Move(e, p),
         CallFor(c, n, outs, pcOk, pcErr)
  PROVE  \E o, pc : Hears(c, n, outs, pcOk, pcErr, o, pc)
<1>1. PICK o \in Answers(n, outs) : Called(c, n, o, IF o.ok THEN pcOk ELSE pcErr)
  BY Zenon, CallDoes
<1>2. o.ok \in BOOLEAN
  BY Zenon, <1>1 DEF Called, Move, Outcome
<1>3. CASE o.ok = TRUE
  BY Zenon, <1>1, <1>3, Heard DEF Hears
<1>4. CASE o.ok = FALSE
  BY Zenon, <1>1, <1>4, Heard DEF Hears
<1> QED
  BY Zenon, <1>2, <1>3, <1>4

LEMMA PushesGuarded ==
  ASSUME Inv, Guarded, Answered, NEW c \in Clients, \A d \in Clients : d = c,
         PauseCall(c) \/ SnapshotCall(c) \/ MigratePause(c)
  PROVE  Guarded'
<1>1. PICK n : n = th[c].node
  BY Zenon
<1>2. PICK e : e = AgentEntry(n)
  BY Zenon
<1>3. /\ HistInv /\ StoreInv /\ l1 \in Objects /\ gen \in Nat
      /\ e \in Entry \cup {NoEntry} /\ Fits(e, gen)
  BY Zenon, <1>2, EntryOK, Zero DEF Inv, HistInv, StoreInv
<1>4. /\ \A o \in PauseSandbox(e, l1) : Move(e, o)
      /\ \A o \in SnapshotSandbox(e, l1) : Move(e, o)
  BY Zenon, <1>3, VerbsMove
<1>5. th[c].pc \in PushPC /\ n = row.node
  <2>1. th[c].pc \in PushPC
    BY DEF PauseCall, SnapshotCall, MigratePause, At, PushPC
  <2> QED
    BY <1>1, <2>1 DEF PushPC, Guarded, Bound, Pointed
<1>6. ASSUME NEW pcOk \in RequestPC, NEW pcErr \in RequestPC, pcOk \in {"pause.write", "migrate.paused"},
             \/ pcErr = "migrate.aborted" /\ th[c].pc = "migrate.pause"
             \/ pcErr = "idle" /\ th[c].pc # "migrate.pause",
             th[c].pc # "snapshot.call",
             CallFor(c, n, PauseSandbox(e, l1), pcOk, pcErr)
      PROVE  Guarded'
  <2>0. PICK o, pc : Hears(c, n, PauseSandbox(e, l1), pcOk, pcErr, o, pc)
    BY Zenon, <1>2, <1>4, <1>6, CallHeard
  <2>1. /\ Called(c, n, o, pc)
        /\ \/ Nothing(e, l1, o) /\ pc = pcErr
           \/ /\ n \in Nodes /\ reach[n] /\ o \in PauseSandbox(e, l1)
              /\ (o.ok = TRUE /\ pc = pcOk) \/ (o.ok = FALSE /\ pc = pcErr)
    BY Zenon, <1>2, <2>0 DEF Hears
  <2>2. CASE Nothing(e, l1, o) /\ pc = pcErr
    BY Zenon, <1>2, <1>5, <1>6, <2>1, <2>2, PushGuarded
  <2>3. CASE /\ n \in Nodes /\ reach[n] /\ o \in PauseSandbox(e, l1)
             /\ (o.ok = TRUE /\ pc = pcOk) \/ (o.ok = FALSE /\ pc = pcErr)
    <3>1. \/ Nothing(e, l1, o) /\ o.ok = FALSE
          \/ e.mach = "RUNNING" /\ Turned(e, l1, o, "FAILED") /\ o.ok = FALSE
          \/ Half(e, l1, o) /\ o.ok = FALSE
          \/ Whole(e, l1, o) /\ o.ok = TRUE /\ o.e.mach = "PAUSED_HOT"
      BY Zenon, <1>3, <2>3, PauseOuts
    <3>2. \/ Nothing(e, l1, o)
          \/ /\ n \in Nodes /\ reach[n] /\ e.mach = "RUNNING"
             /\ Turned(e, l1, o, "FAILED") \/ Half(e, l1, o) \/ Whole(e, l1, o)
      BY Zenon, <2>3, <3>1 DEF Half, Whole
    <3>3. o.e.mach = "RUNNING" => Nothing(e, l1, o) \/ th[c].pc = "snapshot.call"
      BY <3>1 DEF Turned, Half
    <3>4. o.ok = FALSE \/ Whole(e, l1, o)
      BY Zenon, <3>1
    <3>5. pc = pcErr \/ (Whole(e, l1, o) /\ pc \in {"pause.write", "migrate.paused"})
      BY <1>6, <2>3, <3>4
    <3> QED
      BY Zenon, <1>2, <1>5, <1>6, <2>1, <3>2, <3>3, <3>5, PushGuarded
  <2> QED
    BY Zenon, <2>1, <2>2, <2>3
<1>7. CASE PauseCall(c)
  <2>1. th[c].pc = "pause.call" /\ CallFor(c, n, PauseSandbox(e, l1), "pause.write", "idle")
    BY Zenon, <1>1, <1>2, <1>7 DEF PauseCall, At
  <2>2. "pause.write" \in {"pause.write", "migrate.paused"} /\ th[c].pc # "migrate.pause" /\ th[c].pc # "snapshot.call"
    BY <2>1
  <2> QED
    BY Zenon, <1>6, <2>1, <2>2, PCs
<1>8. CASE MigratePause(c)
  <2>1. th[c].pc = "migrate.pause" /\ CallFor(c, n, PauseSandbox(e, l1), "migrate.paused", "migrate.aborted")
    BY Zenon, <1>1, <1>2, <1>8 DEF MigratePause, At
  <2>2. "migrate.paused" \in {"pause.write", "migrate.paused"} /\ th[c].pc # "snapshot.call"
    BY <2>1
  <2> QED
    BY Zenon, <1>6, <2>1, <2>2, PCs
<1>9. CASE SnapshotCall(c)
  <2>1. th[c].pc = "snapshot.call" /\ CallFor(c, n, SnapshotSandbox(e, l1), "idle", "idle")
    BY Zenon, <1>1, <1>2, <1>9 DEF SnapshotCall, At
  <2>2. th[c].pc # "migrate.pause" /\ "idle" \in RequestPC
    BY <2>1, PCs
  <2>0. PICK o, pc : Hears(c, n, SnapshotSandbox(e, l1), "idle", "idle", o, pc)
    BY Zenon, <1>2, <1>4, <2>1, <2>2, CallHeard
  <2>3. /\ Called(c, n, o, pc) /\ pc = "idle"
        /\ Nothing(e, l1, o) \/ (n \in Nodes /\ reach[n] /\ o \in SnapshotSandbox(e, l1))
    BY Zenon, <1>2, <2>0 DEF Hears
  <2>4. \/ Nothing(e, l1, o)
        \/ /\ n \in Nodes /\ reach[n] /\ e.mach = "RUNNING"
           /\ Turned(e, l1, o, "FAILED") \/ Half(e, l1, o) \/ Whole(e, l1, o)
    <3>1. CASE Nothing(e, l1, o)
      BY Zenon, <3>1
    <3>2. CASE n \in Nodes /\ reach[n] /\ o \in SnapshotSandbox(e, l1)
      <4>1. \/ Nothing(e, l1, o)
            \/ e.mach = "RUNNING" /\ Turned(e, l1, o, "FAILED")
            \/ Half(e, l1, o) \/ Whole(e, l1, o)
        BY Zenon, <1>3, <3>2, SnapshotOuts
      <4> QED
        BY Zenon, <3>2, <4>1 DEF Half, Whole
    <3> QED
      BY Zenon, <2>3, <3>1, <3>2
  <2>5. pc = "idle"
    BY Zenon, <2>3
  <2> QED
    BY Zenon, <1>2, <1>5, <2>1, <2>2, <2>3, <2>4, <2>5, PushGuarded
<1> QED
  BY Zenon, <1>7, <1>8, <1>9

LEMMA StartsGuarded ==
  ASSUME Inv, Guarded, Answered, NEW c \in Clients, \A d \in Clients : d = c,
         CreateBoot(c) \/ ResumeRestore(c) \/ ResumeHot(c) \/ MigrateRelease(c) \/ MigrateRestore(c)
  PROVE  Guarded'
<1>1. PICK n : n = row.node
  BY Zenon
<1>2. PICK e : e = AgentEntry(n)
  BY Zenon
<1>3. /\ HistInv /\ StoreInv /\ l1 \in Objects /\ e \in Entry \cup {NoEntry} /\ Fits(e, gen)
  BY Zenon, <1>2, EntryOK DEF Inv, StoreInv
<1>4. /\ \A o \in ResumeSandbox(e, l1) : Move(e, o)
      /\ \A o \in ReleaseLocal(e, l1) : Move(e, o)
      /\ \A o \in CreateSandbox(e, l1) : Move(e, o)
      /\ \A tier \in {"warm", "cold"} : \A o \in RestoreSandbox(e, l1, tier) : Move(e, o)
  BY Zenon, <1>3, VerbsMove
<1>5. th[c].pc \in StartPC
  BY DEF CreateBoot, ResumeRestore, ResumeHot, MigrateRelease, MigrateRestore, At, StartPC
<1>6. /\ th[c].pc # "migrate.restore" => th[c].node = n
      /\ th[c].pc = "migrate.restore" => th[c].tgt = n
  BY <1>1, <1>5 DEF StartPC, Guarded, Bound, Pointed
<1>7. ASSUME NEW outs, \A p \in outs : Move(e, p),
             NEW pcOk \in RequestPC, NEW pcErr \in RequestPC, pcErr = "fail",
             pcOk \in {"create.write", "resume.write", "migrate.write", "migrate.point"},
             pcOk = "migrate.write" <=> th[c].pc = "migrate.restore",
             \A o \in outs : /\ Untouched(o, l1)
                             /\ \/ o.e = e \/ o.e.mach # "RUNNING"
                                \/ Twin(o.e, l1) /\ o.ok = TRUE /\ pcOk # "migrate.point",
             CallFor(c, n, outs, pcOk, pcErr)
      PROVE  Guarded'
  <2>1. PICK o, pc : Hears(c, n, outs, pcOk, pcErr, o, pc)
    BY Zenon, <1>2, <1>7, CallHeard
  <2>2. /\ Called(c, n, o, pc)
        /\ \/ Nothing(e, l1, o) /\ pc = pcErr
           \/ /\ n \in Nodes /\ reach[n] /\ o \in outs
              /\ (o.ok = TRUE /\ pc = pcOk) \/ (o.ok = FALSE /\ pc = pcErr)
    BY Zenon, <1>2, <2>1 DEF Hears
  <2>3. Untouched(o, l1) /\ (o.e = e \/ (n \in Nodes /\ reach[n]))
    BY Zenon, <1>7, <2>2 DEF Nothing
  <2>4. pc = "fail" \/ pc = pcOk
    BY Zenon, <1>7, <2>2
  <2>5. \/ o.e = e \/ o.e.mach # "RUNNING"
        \/ Twin(o.e, l1) /\ pc \in {"create.write", "resume.write", "migrate.write"}
    BY <1>7, <2>2 DEF Nothing
  <2>6. /\ pc \in {"fail", "create.write", "resume.write", "migrate.write", "migrate.point"}
        /\ pc = "migrate.write" <=> (th[c].pc = "migrate.restore" /\ pc # "fail")
    BY <1>7, <2>4
  <2> QED
    BY Zenon, <1>1, <1>2, <1>5, <2>2, <2>3, <2>5, <2>6, StartGuarded
<1>8. CASE CreateBoot(c)
  <2>1. th[c].pc = "create.boot" /\ CallFor(c, n, CreateSandbox(e, l1), "create.write", "fail")
    <3>1. th[c].pc = "create.boot"
      BY Zenon, <1>8 DEF CreateBoot, At
    <3>2. th[c].node = n
      BY <1>6, <3>1
    <3> QED
      BY Zenon, <1>2, <1>8, <3>1, <3>2 DEF CreateBoot
  <2>2. l1.desc = NoDesc
    BY <2>1 DEF Guarded, Bound
  <2>3. ASSUME NEW o \in CreateSandbox(e, l1)
        PROVE  /\ Untouched(o, l1)
               /\ \/ o.e = e \/ o.e.mach # "RUNNING"
                  \/ Twin(o.e, l1) /\ o.ok = TRUE /\ "create.write" # "migrate.point"
    <3>1. (Untouched(o, l1) /\ Booted(o.e) /\ o.ok = TRUE) \/ Gone(l1, o)
      BY Zenon, <1>3, CreateOuts
    <3>2. NoEntry.mach # "RUNNING" /\ "create.write" # "migrate.point"
      BY NoEntryFits
    <3> QED
      BY Zenon, <2>2, <3>1, <3>2, BootedTwin DEF Gone
  <2>4. /\ "create.write" \in {"create.write", "resume.write", "migrate.write", "migrate.point"}
        /\ "create.write" = "migrate.write" <=> th[c].pc = "migrate.restore"
    BY <2>1
  <2> QED
    BY Zenon, <1>4, <1>7, <2>1, <2>3, <2>4, PCs
<1>9. ASSUME NEW tier \in {"warm", "cold"}, NEW pcOk, NEW o \in RestoreSandbox(e, l1, tier),
             pcOk # "migrate.point"
      PROVE  /\ Untouched(o, l1)
             /\ \/ o.e = e \/ o.e.mach # "RUNNING"
                \/ Twin(o.e, l1) /\ o.ok = TRUE /\ pcOk # "migrate.point"
  <2>1. PICK src : src = (IF tier = "cold" THEN cold ELSE l1)
    BY Zenon
  <2>2. \/ Nothing(e, l1, o) \/ Gone(l1, o)
        \/ /\ Untouched(o, l1) /\ o.ok = TRUE
           /\ \E b \in BOOLEAN : b = (tier = "cold") /\ Fetched(src, o.e, b)
    BY Zenon, <1>3, <2>1, RestoreOuts
  <2>3. ASSUME NEW b \in BOOLEAN, b = (tier = "cold"), Fetched(src, o.e, b)
        PROVE  Twin(o.e, l1)
    <3>1. CASE tier = "cold"
      <4>1. Fetched(cold, o.e, TRUE)
        BY Zenon, <2>1, <2>3, <3>1
      <4> QED
        BY Zenon, <4>1, NoneFetched DEF Guarded
    <3>2. CASE tier # "cold"
      <4>1. Fetched(l1, o.e, FALSE)
        BY Zenon, <2>1, <2>3, <3>2
      <4> QED
        BY Zenon, <4>1, FetchedTwin DEF Guarded
    <3> QED
      BY Zenon, <3>1, <3>2
  <2>4. NoEntry.mach # "RUNNING"
    BY NoEntryFits
  <2> QED
    BY Zenon, <1>9, <2>2, <2>3, <2>4 DEF Nothing, Gone
<1>10. CASE ResumeRestore(c)
  <2>1. /\ th[c].pc = "resume.restore"
        /\ CallFor(c, n, RestoreSandbox(e, l1, RestoreTier(th[c].st)), "resume.write", "fail")
    <3>1. th[c].pc = "resume.restore"
      BY Zenon, <1>10 DEF ResumeRestore, At
    <3>2. th[c].node = n
      BY <1>6, <3>1
    <3> QED
      BY Zenon, <1>2, <1>10, <3>1, <3>2 DEF ResumeRestore
  <2>2. RestoreTier(th[c].st) \in {"warm", "cold"}
    BY DEF RestoreTier
  <2>3. /\ "resume.write" \in {"create.write", "resume.write", "migrate.write", "migrate.point"}
        /\ "resume.write" = "migrate.write" <=> th[c].pc = "migrate.restore"
        /\ "resume.write" # "migrate.point"
    BY <2>1
  <2>4. \A o \in RestoreSandbox(e, l1, RestoreTier(th[c].st)) : Move(e, o)
    BY Zenon, <1>4, <2>2
  <2>5. \A o \in RestoreSandbox(e, l1, RestoreTier(th[c].st)) :
          /\ Untouched(o, l1)
          /\ \/ o.e = e \/ o.e.mach # "RUNNING"
             \/ Twin(o.e, l1) /\ o.ok = TRUE /\ "resume.write" # "migrate.point"
    BY Zenon, <1>9, <2>2, <2>3
  <2> QED
    BY Zenon, <1>7, <2>1, <2>3, <2>4, <2>5, PCs
<1>11. CASE MigrateRestore(c)
  <2>1. /\ th[c].pc = "migrate.restore"
        /\ CallFor(c, n, RestoreSandbox(e, l1, "warm"), "migrate.write", "fail")
    <3>1. th[c].pc = "migrate.restore"
      BY Zenon, <1>11 DEF MigrateRestore, At
    <3>2. th[c].tgt = n
      BY <1>6, <3>1
    <3> QED
      BY Zenon, <1>2, <1>11, <3>1, <3>2 DEF MigrateRestore
  <2>2. "warm" \in {"warm", "cold"}
    OBVIOUS
  <2>3. /\ "migrate.write" \in {"create.write", "resume.write", "migrate.write", "migrate.point"}
        /\ "migrate.write" = "migrate.write" <=> th[c].pc = "migrate.restore"
        /\ "migrate.write" # "migrate.point"
    BY <2>1
  <2>4. \A o \in RestoreSandbox(e, l1, "warm") : Move(e, o)
    BY Zenon, <1>4, <2>2
  <2>5. \A o \in RestoreSandbox(e, l1, "warm") :
          /\ Untouched(o, l1)
          /\ \/ o.e = e \/ o.e.mach # "RUNNING"
             \/ Twin(o.e, l1) /\ o.ok = TRUE /\ "migrate.write" # "migrate.point"
    BY Zenon, <1>9, <2>2, <2>3
  <2> QED
    BY Zenon, <1>7, <2>1, <2>3, <2>4, <2>5, PCs
<1>12. CASE ResumeHot(c)
  <2>1. th[c].pc = "resume.hot" /\ CallFor(c, n, ResumeSandbox(e, l1), "resume.write", "fail")
    <3>1. th[c].pc = "resume.hot"
      BY Zenon, <1>12 DEF ResumeHot, At
    <3>2. th[c].node = n
      BY <1>6, <3>1
    <3> QED
      BY Zenon, <1>2, <1>12, <3>1, <3>2 DEF ResumeHot
  <2>2. e = NoEntry \/ Twin(e, l1)
    BY Zenon, <1>1, <1>2, <2>1 DEF Guarded, Bound, Parked
  <2>3. /\ "resume.write" \in {"create.write", "resume.write", "migrate.write", "migrate.point"}
        /\ "resume.write" = "migrate.write" <=> th[c].pc = "migrate.restore"
        /\ "resume.write" # "migrate.point"
    BY <2>1
  <2>4. ASSUME NEW o \in ResumeSandbox(e, l1)
        PROVE  /\ Untouched(o, l1)
               /\ \/ o.e = e \/ o.e.mach # "RUNNING"
                  \/ Twin(o.e, l1) /\ o.ok = TRUE /\ "resume.write" # "migrate.point"
    <3>1. \/ Nothing(e, l1, o)
          \/ Turned(e, l1, o, "RUNNING") /\ o.ok = TRUE
          \/ Turned(e, l1, o, "FAILED")
      BY Zenon, <1>3, ResumeOuts
    <3>2. CASE Nothing(e, l1, o)
      BY Zenon, <3>2 DEF Nothing
    <3>3. CASE Turned(e, l1, o, "FAILED")
      BY <3>3 DEF Turned
    <3>4. CASE Turned(e, l1, o, "RUNNING") /\ o.ok = TRUE
      <4>1. Twin(e, l1)
        BY Zenon, <2>2, <3>4, NoEntryFits DEF Turned
      <4>2. Twin(o.e, l1)
        BY Zenon, <3>4, <4>1 DEF Turned, Alike, Twin
      <4> QED
        BY Zenon, <2>3, <3>4, <4>2 DEF Turned
    <3> QED
      BY Zenon, <3>1, <3>2, <3>3, <3>4
  <2> QED
    BY Zenon, <1>4, <1>7, <2>1, <2>3, <2>4, PCs
<1>13. CASE MigrateRelease(c)
  <2>1. th[c].pc = "migrate.release" /\ CallFor(c, n, ReleaseLocal(e, l1), "migrate.point", "fail")
    <3>1. th[c].pc = "migrate.release"
      BY Zenon, <1>13 DEF MigrateRelease, At
    <3>2. th[c].node = n
      BY <1>6, <3>1
    <3> QED
      BY Zenon, <1>2, <1>13, <3>1, <3>2 DEF MigrateRelease
  <2>2. /\ "migrate.point" \in {"create.write", "resume.write", "migrate.write", "migrate.point"}
        /\ "migrate.point" = "migrate.write" <=> th[c].pc = "migrate.restore"
    BY <2>1
  <2>3. ASSUME NEW o \in ReleaseLocal(e, l1)
        PROVE  Untouched(o, l1) /\ (o.e = e \/ o.e.mach # "RUNNING")
    <3>1. Nothing(e, l1, o) \/ Gone(l1, o) \/ Turned(e, l1, o, "FAILED")
      BY Zenon, <1>3, ReleaseOuts
    <3> QED
      BY <3>1, NoEntryFits DEF Nothing, Gone, Turned
  <2> QED
    BY Zenon, <1>4, <1>7, <2>1, <2>2, <2>3, PCs
<1> QED
  BY Zenon, <1>8, <1>10, <1>11, <1>12, <1>13

LEMMA KillGuarded ==
  ASSUME Inv, Guarded, Answered, NEW c \in Clients, \A d \in Clients : d = c, KillCall(c)
  PROVE  Guarded'
<1>1. PICK n : n = th[c].node
  BY Zenon
<1>2. PICK e : e = AgentEntry(n)
  BY Zenon
<1>3. th[c].pc = "kill.call" /\ CallFor(c, n, StopSandbox(e, l1), "kill.write", "idle")
  BY Zenon, <1>1, <1>2 DEF KillCall, At
<1>4. n = row.node /\ row.state # "NONE"
  BY <1>1, <1>3 DEF Guarded, Bound, Pointed
<1>5. /\ HistInv /\ StoreInv /\ l1 \in Objects /\ e \in Entry \cup {NoEntry} /\ Fits(e, gen)
  BY Zenon, <1>2, EntryOK DEF Inv, StoreInv
<1>6. \A o \in StopSandbox(e, l1) : Move(e, o)
  BY Zenon, <1>5, VerbsMove
<1>7. PICK o, pc : Hears(c, n, StopSandbox(e, l1), "kill.write", "idle", o, pc)
  BY Zenon, <1>2, <1>3, <1>6, CallHeard, PCs
<1>8. /\ Called(c, n, o, pc)
      /\ \/ Nothing(e, l1, o) /\ pc = "idle"
         \/ /\ n \in Nodes /\ reach[n] /\ o \in StopSandbox(e, l1)
            /\ (o.ok = TRUE /\ pc = "kill.write") \/ (o.ok = FALSE /\ pc = "idle")
  BY Zenon, <1>2, <1>7 DEF Hears
<1>9. \/ Nothing(e, l1, o) /\ pc = "idle"
      \/ /\ n \in Nodes /\ reach[n] /\ Gone(l1, o)
         /\ (e # NoEntry /\ pc = "kill.write") \/ pc = "idle"
  <2>1. ASSUME o \in StopSandbox(e, l1) PROVE Gone(l1, o) /\ (o.ok = TRUE => e # NoEntry)
    <3>1. Gone(l1, o)
      BY Zenon, <1>5, <2>1, StopOuts
    <3>2. ASSUME e = NoEntry PROVE o.ok = FALSE
      <4>1. o = Out(NoEntry, l1, FALSE, 0)
        BY Zenon, <2>1, <3>2 DEF StopSandbox
      <4> QED
        BY <4>1 DEF Out
    <3> QED
      BY Zenon, <3>1, <3>2
  <2> QED
    BY Zenon, <1>8, <2>1
<1>10. /\ l1' = l1 /\ o.l1 = l1 /\ gen' = gen /\ cold' = cold /\ eng' = eng /\ acked' = acked /\ row' = row
       /\ Moves(c, pc, o.gen) /\ \A m \in Nodes : agent'[m] = IF m = n THEN o.e ELSE agent[m]
  BY Zenon, <1>8, <1>9 DEF Called, Effect, Nothing, Gone, Untouched
<1>11. th'[c].pc = pc /\ (pc # "idle" => th'[c].node = th[c].node)
  BY <1>10 DEF Moves, IdleThread
<1>12. Kept'
  BY Zenon, <1>10 DEF Guarded, Kept
<1>13. Settled'
  <2>1. AgentEntry(row.node)' \in {AgentEntry(row.node), NoEntry}
    BY <1>2, <1>4, <1>9, <1>10 DEF AgentEntry, Nothing, Gone
  <2> QED
    BY Zenon, <1>10, <2>1 DEF Guarded, Settled, Parked, PausedRow
<1>14. Bound(th[c])'
  BY SMTT(20), <1>1, <1>4, <1>9, <1>10, <1>11 DEF Bound, Pointed, Claimed, Recording
<1>15. Awake(th[c]) /\ pc = "idle" => Awake(th[c])'
  BY <1>3, <1>10, <1>11 DEF Awake, AwakePC, RunningPC
<1>16. reports # {} => e = NoEntry /\ Awake(th[c])
  BY Zenon, <1>2, <1>4 DEF Guarded, Lone, AgentEntry, Inv, NodeInv
<1>17. reports # {} => o.e = NoEntry /\ Awake(th[c])'
  BY Zenon, <1>9, <1>15, <1>16 DEF Nothing, Gone
<1>18. o.e.mach = "RUNNING" => o.e = e /\ pc = "idle"
  BY <1>9, NoEntryFits DEF Nothing, Gone
<1>19. n \in Nodes /\ o.e.mach = "RUNNING" => reports = {} /\ Twin(o.e, o.l1) /\ Awake(th[c])'
  <2> SUFFICES ASSUME n \in Nodes, o.e.mach = "RUNNING"
               PROVE  reports = {} /\ Twin(o.e, o.l1) /\ Awake(th[c])'
    BY Zenon
  <2>1. e = agent[n] /\ o.e = e /\ pc = "idle" /\ o.l1 = l1
    BY Zenon, <1>2, <1>10, <1>18 DEF AgentEntry
  <2>2. reports = {} /\ Twin(e, l1) /\ Awake(th[c])
    BY Zenon, <2>1 DEF Guarded, Lone
  <2> QED
    BY Zenon, <1>15, <2>1, <2>2
<1>20. n \in Nodes /\ ~reach[n] => o.e = AgentEntry(n)
  BY Zenon, <1>2, <1>9 DEF Nothing
<1> QED
  BY Zenon, <1>4, <1>8, <1>12, <1>13, <1>14, <1>17, <1>19, <1>20, CallGuarded

LEMMA BeginsGuarded ==
  ASSUME Inv, Guarded, NEW c \in Clients, \A d \in Clients : d = c,
         \/ CreateBegin(c) \/ PauseBegin(c) \/ SnapshotBegin(c) \/ KillBegin(c)
         \/ ResumeBegin(c) \/ MigrateBegin(c)
  PROVE  Guarded'
<1>1. RowInv /\ ThreadInv
  BY Zenon DEF Inv
<1>2. /\ agent' = agent /\ l1' = l1 /\ gen' = gen /\ reach' = reach /\ reports' = reports
      /\ cold' = cold /\ eng' = eng /\ acked' = acked
  BY DEF CreateBegin, PauseBegin, SnapshotBegin, KillBegin, ResumeBegin, MigrateBegin, cluster, hist
<1>3. acked' <= Base(l1)
  BY Zenon, <1>2 DEF Guarded, Kept
<1>4. PICK pc \in {"create.place", "pause.call", "snapshot.call", "kill.call", "resume.claim",
                   "migrate.claim", "migrate.warm"}, tgt \in NodeOrNone :
        /\ Begin(c, pc, tgt)
        /\ IF pc = "create.place" THEN row.state = "NONE" /\ SetState("PENDING")
                                  ELSE row.state # "NONE" /\ row' = row
        /\ pc = "resume.claim" => Validate(row.state, "RESUMING")
        /\ pc = "migrate.warm" => row.state = "PAUSED_HOT"
  <2>1. CASE MigrateBegin(c)
    <3>1. PICK tgt \in Nodes :
            Begin(c, IF row.state = "RUNNING" THEN "migrate.claim" ELSE "migrate.warm", tgt)
      BY Zenon, <2>1 DEF MigrateBegin
    <3>2. row.state \in {"RUNNING", "PAUSED_HOT"} /\ row' = row /\ tgt \in NodeOrNone
      BY <2>1 DEF MigrateBegin, NodeOrNone
    <3>3. CASE row.state = "RUNNING"
      BY <3>1, <3>2, <3>3
    <3>4. CASE row.state = "PAUSED_HOT"
      BY <3>1, <3>2, <3>4
    <3> QED
      BY Zenon, <3>2, <3>3, <3>4
  <2>2. CASE ResumeBegin(c)
    <3>1. row.state # "NONE"
      BY <2>2 DEF ResumeBegin, Validate, transitions
    <3> QED
      BY <2>2, <3>1 DEF ResumeBegin, NodeOrNone
  <2>3. CASE CreateBegin(c) \/ PauseBegin(c) \/ SnapshotBegin(c) \/ KillBegin(c)
    BY <2>3 DEF CreateBegin, PauseBegin, SnapshotBegin, KillBegin, NodeOrNone
  <2> QED
    BY Zenon, <2>1, <2>2, <2>3
<1>5. /\ th[c].pc = "idle" /\ th'[c].pc = pc /\ th'[c].st = row.state /\ th'[c].node = row.node
  <2>1. pc \in RequestPC
    BY <1>4 DEF RequestPC
  <2> QED
    BY Zenon, <1>1, <1>4, <2>1, BeginIs
<1>6. /\ row'.node = row.node
      /\ row'.state = IF pc = "create.place" THEN "PENDING" ELSE row.state
  <2>1. "PENDING" \in RowState
    BY DEF RowState, State
  <2>2. CASE pc = "create.place"
    BY Zenon, <1>1, <1>4, <2>1, <2>2, SetStateIs
  <2>3. CASE pc # "create.place"
    BY Zenon, <1>4, <2>3
  <2> QED
    BY Zenon, <2>2, <2>3
<1>7. Validate(row.state, "RESUMING") => row.state \in RestoresAnywhere \cup {"PAUSED_HOT"}
  BY <1>1 DEF Validate, transitions, RestoresAnywhere
<1>8. Awake(th[c]) => row'.node = row.node /\ Awake(th[c])'
  <2>1. Awake(th[c]) => row.state = "RUNNING"
    BY <1>5 DEF Awake, AwakePC
  <2>2. row.state = "RUNNING" => pc \in {"pause.call", "snapshot.call", "kill.call", "migrate.claim"}
    BY <1>4, <1>7 DEF RestoresAnywhere
  <2> QED
    BY <1>5, <1>6, <2>1, <2>2 DEF Awake, RunningPC
<1>9. pc = "create.place" => l1.desc = NoDesc
  BY Zenon, <1>4 DEF Guarded, Settled
<1>10. Bound(th[c])'
  <2>1. row'.state # "NONE"
    BY <1>4, <1>6
  <2>2. pc = "resume.claim" => row.state \in RestoresAnywhere \cup {"PAUSED_HOT"}
    BY Zenon, <1>4, <1>7
  <2> QED
    BY <1>2, <1>4, <1>5, <1>6, <1>9, <2>1, <2>2 DEF Bound, Pointed, Claimed, Recording
<1>11. Settled'
  <2>1. AgentEntry(row.node)' = AgentEntry(row.node)
    BY Zenon, <1>2, <1>6 DEF AgentEntry
  <2> QED
    BY <1>2, <1>6, <2>1 DEF Guarded, Settled, Parked, PausedRow
<1> QED
  BY Zenon, <1>2, <1>3, <1>8, <1>10, <1>11, QuietGuarded

LEMMA WritesGuarded ==
  ASSUME Inv, Guarded, Answered, NEW c \in Clients, \A d \in Clients : d = c,
         \/ CreateWrite(c) \/ Fail(c) \/ PauseWrite(c) \/ KillWrite(c) \/ ResumeWrite(c)
         \/ MigrateAborted(c) \/ MigratePaused(c) \/ MigrateWrite(c)
  PROVE  Guarded'
<1>1. RowInv /\ ThreadInv /\ HistInv
  BY Zenon DEF Inv
<1>2. PICK to \in {"RUNNING", "FAILED", "PAUSED_HOT", "STOPPED"},
           pcOk \in {"idle", "migrate.warm"},
           pcErr \in {"idle", "create.orphan", "resume.undo"} :
        /\ WriteFor(c, to, pcOk, pcErr)
        /\ to = "PAUSED_HOT" <=> Recording(th[c])
        /\ th[c].pc \in AwakePC => to = "RUNNING" /\ pcOk = "idle"
        /\ th[c].pc \notin RunningPC
        /\ pcOk = "migrate.warm" => th[c].pc = "migrate.paused"
  BY DEF CreateWrite, Fail, FailFor, PauseWrite, KillWrite, ResumeWrite,
         MigrateAborted, MigratePaused, MigrateWrite, Recording, At, AwakePC, RunningPC
<1>3. to \in RowState /\ pcOk \in RequestPC /\ pcErr \in RequestPC
  BY <1>2 DEF RowState, State, RequestPC
<1>4. "db" \notin Faults
  BY DEF Answered
<1>5. /\ UNCHANGED <<cluster, agent, l1, cold, eng, gen>> /\ row'.node = row.node
      /\ row'.state = to /\ Moves(c, pcOk, th[c].gen)
      /\ acked' = acked \/ (to = "PAUSED_HOT" /\ acked' = th[c].gen)
  BY Zenon, <1>1, <1>2, <1>3, <1>4, WriteIs
<1>6. /\ agent' = agent /\ l1' = l1 /\ gen' = gen /\ reach' = reach /\ reports' = reports
      /\ cold' = cold /\ eng' = eng
  BY <1>5 DEF cluster
<1>7. to = "PAUSED_HOT" => l1.desc # NoDesc /\ th[c].gen = Base(l1) /\ Parked
  BY Zenon, <1>2 DEF Guarded, Bound
<1>8. acked' <= Base(l1)
  <2>1. acked <= Base(l1) /\ Base(l1) \in Nat
    BY Zenon, BaseIs DEF Guarded, Kept, Inv
  <2> QED
    BY <1>5, <1>7, <2>1
<1>9. th'[c].pc = pcOk /\ (pcOk # "idle" => th'[c].node = th[c].node)
  BY <1>5 DEF Moves, IdleThread
<1>10. Awake(th[c]) => row'.node = row.node /\ Awake(th[c])'
  <2>1. Awake(th[c]) => th[c].pc \in AwakePC
    BY Zenon, <1>2 DEF Awake
  <2>2. Awake(th[c]) => row'.state = "RUNNING" /\ th'[c].pc = "idle"
    BY Zenon, <1>2, <1>5, <1>9, <2>1
  <2> QED
    BY <1>5, <2>2 DEF Awake, RunningPC
<1>11. Bound(th[c])'
  <2>1. pcOk = "migrate.warm" => th[c].node = row.node
    BY SMTT(20), <1>2 DEF Guarded, Bound, Pointed
  <2>2. row'.state # "NONE"
    BY SMTT(20), <1>2, <1>5
  <2> QED
    BY SMTT(20), <1>2, <1>5, <1>9, <2>1, <2>2 DEF Bound, Pointed, Claimed, Recording
<1>12. Settled'
  <2>1. AgentEntry(row.node)' = AgentEntry(row.node)
    BY Zenon, <1>5, <1>6 DEF AgentEntry
  <2>2. Parked => Parked'
    BY Zenon, <1>6, <2>1 DEF Parked
  <2> QED
    BY <1>2, <1>5, <1>6, <1>7, <2>2 DEF Settled, PausedRow
<1> QED
  BY Zenon, <1>6, <1>8, <1>10, <1>11, <1>12, QuietGuarded

LEMMA ClaimsGuarded ==
  ASSUME Inv, Guarded, NEW c \in Clients, \A d \in Clients : d = c,
         ResumeClaim(c) \/ MigrateClaim(c) \/ MigrateWarm(c) \/ MigrateResume(c)
  PROVE  Guarded'
<1>1. RowInv /\ ThreadInv /\ Bound(th[c])
  BY Zenon DEF Inv, Guarded
<1>2. PICK from : \E to \in {"RESUMING", "PAUSING", "PAUSED_WARM"},
               pc \in {"resume.place", "resume.hot", "migrate.pause", "migrate.release", "migrate.restore"} :
        /\ ClaimFor(c, from, to, pc)
        /\ to = "PAUSED_WARM" => from = "PAUSED_HOT"
        /\ pc = "resume.hot" => from = "PAUSED_HOT"
        /\ pc = "migrate.restore" <=> th[c].pc = "migrate.resume"
        /\ th[c].pc = "migrate.claim" => from = "RUNNING" /\ pc = "migrate.pause"
        /\ th[c].pc \in {"resume.claim", "migrate.claim", "migrate.warm", "migrate.resume"}
  <2>1. CASE ResumeClaim(c)
    <3>1. th[c].pc = "resume.claim" /\ th[c].st \in RestoresAnywhere \cup {"PAUSED_HOT"}
      BY SMTT(20), <1>1, <2>1 DEF ResumeClaim, At, Bound
    <3>2. CASE th[c].st \in RestoresAnywhere
      BY <2>1, <3>1, <3>2 DEF ResumeClaim
    <3>3. CASE th[c].st \notin RestoresAnywhere
      BY <2>1, <3>1, <3>3 DEF ResumeClaim
    <3> QED
      BY Zenon, <3>2, <3>3
  <2>2. CASE MigrateClaim(c)
    BY <2>2 DEF MigrateClaim, At
  <2>3. CASE MigrateWarm(c)
    BY <2>3 DEF MigrateWarm, At
  <2>4. CASE MigrateResume(c)
    BY <2>4 DEF MigrateResume, At
  <2> QED
    BY Zenon, <2>1, <2>2, <2>3, <2>4
<1>3. PICK to \in {"RESUMING", "PAUSING", "PAUSED_WARM"},
           pc \in {"resume.place", "resume.hot", "migrate.pause", "migrate.release", "migrate.restore"} :
        /\ ClaimFor(c, from, to, pc)
        /\ to = "PAUSED_WARM" => from = "PAUSED_HOT"
        /\ pc = "resume.hot" => from = "PAUSED_HOT"
        /\ pc = "migrate.restore" <=> th[c].pc = "migrate.resume"
        /\ th[c].pc = "migrate.claim" => from = "RUNNING" /\ pc = "migrate.pause"
        /\ th[c].pc \in {"resume.claim", "migrate.claim", "migrate.warm", "migrate.resume"}
  BY Zenon, <1>2
<1>4. to \in RowState /\ pc \in RequestPC /\ pc # "idle"
  BY <1>3 DEF RowState, State, RequestPC
<1>5. /\ Rests /\ row'.node = row.node
      /\ \/ row.state = from /\ row'.state = to /\ Moves(c, pc, th[c].gen)
         \/ row.state # from /\ row' = row /\ Moves(c, "idle", th[c].gen)
  BY Zenon, <1>1, <1>3, <1>4, ClaimIs
<1>6. /\ agent' = agent /\ l1' = l1 /\ gen' = gen /\ reach' = reach /\ reports' = reports
      /\ cold' = cold /\ eng' = eng /\ acked' = acked
  BY <1>5 DEF Rests, cluster, hist
<1>7. acked' <= Base(l1)
  BY Zenon, <1>6 DEF Guarded, Kept
<1>8. AgentEntry(row.node)' = AgentEntry(row.node)
  BY Zenon, <1>5, <1>6 DEF AgentEntry
<1>9. Parked => Parked'
  BY Zenon, <1>6, <1>8 DEF Parked
<1>10. /\ PausedRow => l1.desc # NoDesc
       /\ row.state = "PAUSED_HOT" => Parked
       /\ row.state = "NONE" => l1.desc = NoDesc
  BY Zenon DEF Guarded, Settled
<1>11. Awake(th[c]) => row.state = "RUNNING" /\ th[c].pc = "migrate.claim"
  BY <1>3 DEF Awake, AwakePC, RunningPC
<1>12. CASE row.state = from /\ row'.state = to /\ Moves(c, pc, th[c].gen)
  <2>1. th'[c].pc = pc /\ th'[c].node = th[c].node /\ th'[c].tgt = th[c].tgt
    BY <1>4, <1>12 DEF Moves
  <2>2. Awake(th[c]) => Awake(th[c])'
    BY <1>3, <1>11, <2>1 DEF Awake, AwakePC
  <2>3. pc # "migrate.restore" => th[c].node = row.node
    BY <1>1, <1>3 DEF Bound, Pointed
  <2>4. pc = "migrate.restore" => th[c].tgt = row.node
    BY <1>1, <1>3 DEF Bound, Pointed
  <2>5. pc = "resume.hot" => Parked'
    BY Zenon, <1>3, <1>9, <1>10, <1>12
  <2>6. Bound(th[c])'
    BY SMTT(20), <1>3, <1>5, <1>12, <2>1, <2>3, <2>4, <2>5 DEF Bound, Pointed, Claimed, Recording
  <2>7. Settled'
    BY <1>3, <1>6, <1>10, <1>12 DEF Settled, PausedRow
  <2> QED
    BY Zenon, <1>5, <1>6, <1>7, <2>2, <2>6, <2>7, QuietGuarded
<1>13. CASE row.state # from /\ row' = row /\ Moves(c, "idle", th[c].gen)
  <2>1. th'[c].pc = "idle"
    BY <1>13 DEF Moves, IdleThread
  <2>2. ~Awake(th[c])
    BY <1>3, <1>11, <1>13
  <2>3. Bound(th[c])'
    BY <2>1 DEF Bound, Pointed, Claimed, Recording
  <2>4. Settled'
    BY Zenon, <1>6, <1>9, <1>10, <1>13 DEF Settled, PausedRow
  <2> QED
    BY Zenon, <1>6, <1>7, <2>2, <2>3, <2>4, QuietGuarded
<1> QED
  BY Zenon, <1>5, <1>12, <1>13

LEMMA PlacesGuarded ==
  ASSUME Inv, Guarded, Answered, NEW c \in Clients, \A d \in Clients : d = c,
         CreatePlace(c) \/ ResumePlace(c) \/ MigratePoint(c)
  PROVE  Guarded'
<1>1. RowInv /\ ThreadInv /\ NodeInv /\ Bound(th[c])
  BY Zenon DEF Inv, Guarded
<1>2. th[c].pc \in {"create.place", "resume.place", "migrate.point"}
  BY DEF CreatePlace, ResumePlace, MigratePoint, At
<1>3. /\ agent' = agent /\ l1' = l1 /\ gen' = gen /\ reach' = reach /\ reports' = reports
      /\ cold' = cold /\ eng' = eng /\ acked' = acked
  BY DEF CreatePlace, ResumePlace, MigratePoint, cluster, hist
<1>4. acked' <= Base(l1) /\ ~Awake(th[c])
  BY <1>2, <1>3 DEF Guarded, Kept, Awake, AwakePC, RunningPC
<1>5. row.state # "PAUSED_HOT" /\ row.state # "NONE"
  BY <1>1, <1>2 DEF Bound, Claimed
<1>6. /\ row'.state = row.state
      /\ \/ th'[c].pc \in {"fail", "idle"}
         \/ /\ th'[c].pc \in {"create.boot", "resume.restore"} /\ th'[c].node = row'.node
            /\ th'[c].pc = "create.boot" => th[c].pc = "create.place"
         \/ th'[c].pc = "migrate.resume" /\ th'[c].tgt = row'.node
  <2>1. CASE CreatePlace(c)
    <3>1. Placing(c, NoNode, "create.boot") /\ "create.boot" \in RequestPC /\ th[c].pc = "create.place"
      BY Zenon, <2>1 DEF CreatePlace, Placing, RequestPC, At
    <3>2. /\ row'.state = row.state
          /\ th'[c].pc = "fail" \/ (th'[c].pc = "create.boot" /\ th'[c].node = row'.node)
      BY Zenon, <1>1, <3>1, PlaceIs
    <3> QED
      BY <3>1, <3>2
  <2>2. CASE ResumePlace(c)
    <3>1. Placing(c, th[c].node, "resume.restore") /\ "resume.restore" \in RequestPC
      BY Zenon, <2>2 DEF ResumePlace, Placing, RequestPC
    <3>2. /\ row'.state = row.state
          /\ th'[c].pc = "fail" \/ (th'[c].pc = "resume.restore" /\ th'[c].node = row'.node)
      BY Zenon, <1>1, <3>1, PlaceIs
    <3> QED
      BY <3>2
  <2>3. CASE MigratePoint(c)
    <3>1. /\ row' = [row EXCEPT !.node = th[c].tgt]
          /\ Return(c) \/ Goto(c, "migrate.resume")
      <4>1. "db" \notin Faults
        BY DEF Answered
      <4> QED
        BY Zenon, <2>3, <4>1 DEF MigratePoint
    <3>2. "migrate.resume" \in RequestPC /\ IdleThread.pc = "idle"
      BY DEF RequestPC, IdleThread
    <3>3. th[c].tgt \in NodeOrNone
      BY Zenon, <1>1 DEF ThreadInv, Thread
    <3>4. row'.state = row.state /\ row'.node = th[c].tgt
      BY Zenon, <1>1, <3>1, <3>3, SetNodeIs
    <3>5. th'[c].pc = "idle" \/ (th'[c].pc = "migrate.resume" /\ th'[c].tgt = th[c].tgt)
      BY Zenon, <1>1, <3>1, <3>2, ReturnIs, GotoIs
    <3> QED
      BY <3>4, <3>5
  <2> QED
    BY Zenon, <2>1, <2>2, <2>3
<1>7. Settled'
  BY Zenon, <1>3, <1>5, <1>6 DEF Guarded, Settled, PausedRow
<1>8. Bound(th[c])'
  <2>1. th[c].pc = "create.place" => l1.desc = NoDesc
    BY <1>1 DEF Bound
  <2> QED
    BY <1>3, <1>5, <1>6, <2>1 DEF Bound, Pointed, Claimed, Recording
<1> QED
  BY Zenon, <1>3, <1>4, <1>7, <1>8, QuietGuarded

LEMMA RequestGuarded ==
  ASSUME Inv, Guarded, Answered, Serial, NEW c \in Clients, Request(c)
  PROVE  Guarded'
<1>1. \A d \in Clients : d = c
  BY Zenon DEF Serial
<1>2. ~CreateOrphan(c) /\ ~ResumeUndo(c)
  BY DEF Guarded, Bound, CreateOrphan, ResumeUndo, At
<1> QED
  BY Zenon, <1>1, <1>2, PushesGuarded, StartsGuarded, KillGuarded, BeginsGuarded, WritesGuarded,
     ClaimsGuarded, PlacesGuarded DEF Request

\* The engine moves the row between tiers and releases the parked VM.
LEMMA EngineGuarded ==
  ASSUME Inv, Guarded, Answered, "cold" \notin Tiers, Engine
  PROVE  Guarded'
<1>1. RowInv /\ EngineInv /\ eng \in EngineThread
  BY Zenon DEF Inv, EngineInv
<1>2. ASSUME th' = th, acked' = acked, gen' = gen, l1' = l1, agent' = agent, reach' = reach,
             reports' = reports, cold' \in {cold, NoObjects}, row'.node = row.node,
             \/ row'.state = row.state
             \/ row.state = "PAUSED_HOT" /\ row'.state = "PAUSED_WARM"
             \/ row.state \in {"PAUSED_WARM", "ARCHIVED_COLD"} /\ row'.state \in {"FAILED", "RECYCLED"},
             eng'.pc \in {"idle", "warm.cas", "warm.release", "warm.fail", "recycle.cas", "recycle.prune"}
      PROVE  Guarded'
  <2>1. Kept'
    BY <1>2 DEF Guarded, Kept
  <2>2. AgentEntry(row.node)' = AgentEntry(row.node)
    BY Zenon, <1>2 DEF AgentEntry
  <2>3. Parked => Parked'
    BY Zenon, <1>2, <2>2 DEF Parked
  <2>4. Settled'
    BY <1>2, <2>3 DEF Guarded, Settled, PausedRow
  <2>5. \A c \in Clients : Awake(th[c]) => Awake(th[c])'
    BY <1>2 DEF Awake
  <2>6. Lone'
    BY Zenon, <1>2, <2>5 DEF Guarded, Lone
  <2>7. ASSUME NEW c \in Clients PROVE Bound(th[c])'
    <3>1. Bound(th[c])
      BY Zenon DEF Guarded
    <3>2. /\ row.state # "PAUSED_HOT" => row'.state # "PAUSED_HOT"
          /\ row.state # "NONE" => row'.state # "NONE"
      BY <1>2
    <3> QED
      BY Zenon, <1>2, <2>3, <3>1, <3>2 DEF Bound, Recording
  <2> QED
    BY Zenon, <2>1, <2>4, <2>6, <2>7 DEF Guarded
<1>3. ASSUME UNCHANGED <<cluster, agent, l1, cold, th, hist>>
      PROVE  /\ th' = th /\ acked' = acked /\ gen' = gen /\ l1' = l1 /\ agent' = agent
             /\ reach' = reach /\ reports' = reports /\ cold' \in {cold, NoObjects}
  BY <1>3 DEF hist, cluster
<1>4. CASE WarmDue \/ RecycleDue
  <2>1. PICK tier, state : \E pc \in {"warm.cas", "recycle.cas"} : Due(tier, state, pc)
    BY <1>4 DEF WarmDue, RecycleDue
  <2>2. PICK pc \in {"warm.cas", "recycle.cas"} : Due(tier, state, pc)
    BY Zenon, <2>1
  <2>3. pc \in EnginePC
    BY <2>2 DEF EnginePC
  <2>4. eng'.pc = pc /\ UNCHANGED <<row, cluster, agent, l1, cold, th, hist>>
    BY Zenon, <1>1, <2>2, <2>3, DueIs
  <2>5. /\ UNCHANGED <<cluster, agent, l1, cold, th, hist>> /\ row' = row
        /\ eng'.pc \in {"idle", "warm.cas", "warm.release", "warm.fail", "recycle.cas", "recycle.prune"}
    BY <2>2, <2>4
  <2> QED
    BY Zenon, <1>2, <1>3, <2>5
<1>5. CASE WarmCAS \/ WarmFail \/ RecycleCAS
  <2>1. PICK from, to \in {"PAUSED_WARM", "FAILED", "RECYCLED", "PAUSED_HOT", "ARCHIVED_COLD"},
             pc \in {"warm.release", "idle", "recycle.prune"} :
          /\ EngineCAS(from, to, pc)
          /\ \/ from = "PAUSED_HOT" /\ to = "PAUSED_WARM"
             \/ from \in {"PAUSED_WARM", "ARCHIVED_COLD"} /\ to \in {"FAILED", "RECYCLED"}
    BY <1>5 DEF WarmCAS, WarmFail, RecycleCAS
  <2>2. to \in RowState /\ pc \in EnginePC
    BY <2>1 DEF RowState, State, EnginePC
  <2>3. /\ UNCHANGED <<cluster, agent, l1, cold, th, hist>> /\ row'.node = row.node
        /\ \/ row.state = from /\ row'.state = to /\ eng'.pc = pc
           \/ row.state # from /\ row' = row /\ eng'.pc = "idle"
    BY Zenon, <1>1, <2>1, <2>2, EngineCASIs
  <2>4. eng'.pc \in {"idle", "warm.cas", "warm.release", "warm.fail", "recycle.cas", "recycle.prune"}
    BY <2>1, <2>3
  <2>5. \/ row'.state = row.state
        \/ row.state = "PAUSED_HOT" /\ row'.state = "PAUSED_WARM"
        \/ row.state \in {"PAUSED_WARM", "ARCHIVED_COLD"} /\ row'.state \in {"FAILED", "RECYCLED"}
    BY Zenon, <2>1, <2>3
  <2> QED
    BY Zenon, <1>2, <1>3, <2>3, <2>4, <2>5
<1>6. CASE RecyclePrune
  <2>1. /\ row' = row /\ agent' = agent /\ l1' = l1 /\ th' = th /\ gen' = gen /\ acked' = acked
        /\ reach' = reach /\ reports' = reports
        /\ cold' \in {cold, NoObjects} /\ EngineGoto("idle") /\ "idle" \in EnginePC
    BY <1>6 DEF RecyclePrune, hist, cluster, EnginePC
  <2>2. eng'.pc = "idle"
    BY Zenon, <1>1, <2>1, EngineGotoIs
  <2>3. eng'.pc \in {"idle", "warm.cas", "warm.release", "warm.fail", "recycle.cas", "recycle.prune"}
    BY <2>2
  <2> QED
    BY Zenon, <1>2, <2>1, <2>3
<1>7. CASE WarmRelease
  <2>1. PICK n : n = eng.node
    BY Zenon
  <2>2. PICK e : e = AgentEntry(n)
    BY Zenon
  <2>3. PICK o \in Answers(n, ReleaseLocal(e, l1)) :
          Effect(n, o) /\ EngineGoto(IF o.ok THEN "idle" ELSE "warm.fail")
    BY Zenon, <1>7, <2>1, <2>2 DEF WarmRelease
  <2>4. row' = row /\ cold' = cold /\ acked' = acked /\ th' = th /\ reach' = reach /\ reports' = reports
    BY <1>7 DEF WarmRelease, cluster
  <2>5. eng'.pc \in {"idle", "warm.fail"}
    <3>1. "idle" \in EnginePC /\ "warm.fail" \in EnginePC
      BY DEF EnginePC
    <3>2. EngineGoto("idle") \/ EngineGoto("warm.fail")
      BY Zenon, <2>3
    <3> QED
      BY Zenon, <1>1, <3>1, <3>2, EngineGotoIs
  <2>6. e \in Entry \cup {NoEntry} /\ Fits(e, gen) /\ l1 \in Objects
    BY Zenon, <2>2, EntryOK DEF Inv, StoreInv
  <2>7. \/ Nothing(e, l1, o)
        \/ e.mach = "PAUSED_HOT" /\ (Gone(l1, o) \/ Turned(e, l1, o, "FAILED"))
    BY Zenon, <2>2, <2>3, <2>6, Heard, ReleaseOuts
  <2>8. /\ l1' = l1 /\ gen' = gen
        /\ \A m \in Nodes : agent'[m] = IF m = n THEN o.e ELSE agent[m]
    BY Zenon, <2>3, <2>7 DEF Effect, Nothing, Gone, Turned, Untouched
  <2>9. ASSUME NEW m \in Nodes
        PROVE  /\ agent[m] = NoEntry => agent'[m] = NoEntry
               /\ agent'[m].mach = "RUNNING" => agent'[m] = agent[m]
               /\ Twin(agent[m], l1) => agent'[m] = NoEntry \/ Twin(agent'[m], l1)
    <3>1. CASE m # n
      BY Zenon, <2>8, <3>1
    <3>2. CASE m = n
      <4>1. agent[m] = e /\ agent'[m] = o.e
        BY Zenon, <2>2, <2>8, <3>2 DEF AgentEntry
      <4>2. CASE Nothing(e, l1, o)
        BY Zenon, <4>1, <4>2 DEF Nothing
      <4>3. CASE e.mach = "PAUSED_HOT" /\ Gone(l1, o)
        BY <4>1, <4>3, NoEntryFits DEF Gone
      <4>4. CASE e.mach = "PAUSED_HOT" /\ Turned(e, l1, o, "FAILED")
        <5>1. e # NoEntry /\ o.e.mach # "RUNNING"
          BY <4>4, NoEntryFits DEF Turned
        <5>2. Twin(e, l1) => Twin(o.e, l1)
          BY Zenon, <4>4 DEF Turned, Alike, Twin
        <5> QED
          BY Zenon, <4>1, <5>1, <5>2
      <4> QED
        BY Zenon, <2>7, <4>2, <4>3, <4>4
    <3> QED
      BY Zenon, <3>1, <3>2
  <2>10. Parked => Parked'
    BY Zenon, <2>4, <2>8, <2>9 DEF Parked, AgentEntry
  <2>11. Kept'
    BY <2>4, <2>5, <2>8 DEF Guarded, Kept
  <2>12. Settled'
    BY Zenon, <2>4, <2>8, <2>10 DEF Guarded, Settled, PausedRow
  <2>13. \A c \in Clients : Awake(th[c]) => Awake(th[c])'
    BY Zenon, <2>4 DEF Awake
  <2>14. Lone'
    <3>1. ASSUME NEW m \in Nodes, ~reach[m] PROVE agent'[m] = NoEntry
      BY Zenon, <2>9, <3>1 DEF Guarded, Lone
    <3>2. ASSUME NEW m \in Nodes, agent'[m].mach = "RUNNING"
          PROVE  m = row.node /\ reports = {} /\ Twin(agent'[m], l1) /\ \A c \in Clients : Awake(th[c])'
      <4>1. agent'[m] = agent[m]
        BY Zenon, <2>9, <3>2
      <4>2. agent[m].mach = "RUNNING"
        BY Zenon, <3>2, <4>1
      <4> QED
        BY Zenon, <2>13, <4>1, <4>2 DEF Guarded, Lone
    <3>3. ASSUME NEW m \in reports
          PROVE  m = row.node /\ reach[m] /\ agent'[m] = NoEntry /\ \A c \in Clients : Awake(th[c])'
      BY Zenon, <2>9, <2>13, <3>3 DEF Guarded, Lone, Inv, NodeInv
    <3> QED
      BY Zenon, <2>4, <2>8, <3>1, <3>2, <3>3 DEF Lone
  <2>15. \A c \in Clients : Bound(th[c])'
    BY Zenon, <2>4, <2>8, <2>10 DEF Guarded, Bound, Recording
  <2> QED
    BY Zenon, <2>11, <2>12, <2>14, <2>15 DEF Guarded
<1>8. ~ColdDue
  BY Zenon DEF ColdDue, Due
<1>9. ~(ColdRead \/ ColdCopy \/ ColdDesc \/ ColdCAS \/ ColdList \/ ColdPrune \/ ColdPruned)
  BY Zenon DEF Guarded, Kept, ColdRead, ColdCopy, ColdDesc, ColdCAS, ColdList, ColdPrune, ColdPruned, EngineAt
<1> QED
  BY Zenon, <1>4, <1>5, <1>6, <1>7, <1>8, <1>9 DEF Engine

LEMMA EnvironmentGuarded ==
  ASSUME Inv, Guarded, Answered, Environment
  PROVE  Guarded'
<1>1. ~Restart
  BY DEF Restart, Answered
<1>2. PICK n \in Nodes : Reap(n) \/ Crash(n) \/ Cut(n) \/ Back(n) \/ Evict(n) \/ Poll(n)
  BY Zenon, <1>1 DEF Environment
<1>3. /\ RowInv /\ agent \in [Nodes -> Entry \cup {NoEntry}] /\ reach \in [Nodes -> BOOLEAN]
      /\ reports \subseteq Nodes
  BY Zenon DEF Inv, AgentInv, NodeInv
<1>4. /\ \A m \in Nodes : ~reach[m] => agent[m] = NoEntry
      /\ \A m \in Nodes : agent[m].mach = "RUNNING" =>
           m = row.node /\ reports = {} /\ Twin(agent[m], l1) /\ \A c \in Clients : Awake(th[c])
      /\ \A m \in reports :
           m = row.node /\ reach[m] /\ agent[m] = NoEntry /\ \A c \in Clients : Awake(th[c])
  BY Zenon DEF Guarded, Lone
<1>5. NoEntry.mach # "RUNNING"
  BY NoEntryFits
<1>6. l1' = l1 /\ cold' = cold /\ gen' = gen /\ acked' = acked /\ th' = th /\ eng' = eng
  BY <1>2 DEF Reap, Crash, Cut, Back, Evict, Poll, others, hist
<1>7. /\ \A m \in Nodes : agent'[m] = agent[m] \/ agent'[m] = NoEntry
      /\ row'.node = row.node
      /\ row' = row \/ row'.state = "FAILED"
  <2>1. agent' = agent \/ agent' = [agent EXCEPT ![n] = NoEntry]
    BY Zenon, <1>2 DEF Reap, Crash, Cut, Back, Evict, Poll
  <2>2. row' = row \/ row' = FailActive(row)
    BY Zenon, <1>2 DEF Reap, Crash, Cut, Back, Evict, Poll
  <2>3. \A m \in Nodes : agent'[m] = agent[m] \/ agent'[m] = NoEntry
    BY <1>3, <2>1
  <2> QED
    BY Zenon, <1>3, <2>2, <2>3, FailActiveIs
<1>8. Parked => Parked'
  BY Zenon, <1>6, <1>7 DEF Parked, AgentEntry
<1>9. Kept'
  BY Zenon, <1>6 DEF Guarded, Kept
<1>10. Settled'
  <2>1. CASE row' = row
    BY Zenon, <1>6, <1>8, <2>1 DEF Guarded, Settled, PausedRow
  <2>2. CASE row'.state = "FAILED"
    BY <2>2 DEF Settled, PausedRow
  <2> QED
    BY Zenon, <1>7, <2>1, <2>2
<1>11. ASSUME NEW c \in Clients PROVE Bound(th[c])'
  <2>1. Bound(th[c])
    BY Zenon DEF Guarded
  <2>2. /\ row.state # "PAUSED_HOT" => row'.state # "PAUSED_HOT"
        /\ row.state # "NONE" => row'.state # "NONE"
    BY <1>7
  <2> QED
    BY Zenon, <1>6, <1>7, <1>8, <2>1, <2>2 DEF Bound, Recording
<1>12. row' = row => \A c \in Clients : Awake(th[c]) => Awake(th[c])'
  BY Zenon, <1>6 DEF Awake
<1>13. Lone'
  <2>1. CASE Reap(n)
    <3>1. /\ agent[n].mach = "RUNNING" /\ agent' = [agent EXCEPT ![n] = NoEntry]
          /\ reports' = reports \cup {n} /\ row' = row /\ reach' = reach
      BY <2>1 DEF Reap
    <3>2. /\ n = row.node /\ reports = {} /\ reach[n] /\ \A c \in Clients : Awake(th[c])
      BY Zenon, <1>4, <1>5, <3>1
    <3>3. reports' = {n} /\ agent'[n] = NoEntry /\ \A m \in Nodes : m # n => agent'[m] = agent[m]
      BY <1>3, <3>1, <3>2
    <3>4. \A m \in Nodes : agent'[m].mach # "RUNNING"
      BY Zenon, <1>4, <1>5, <3>2, <3>3
    <3>5. \A m \in Nodes : ~reach[m] => agent'[m] = NoEntry
      BY Zenon, <1>4, <1>7
    <3>6. \A c \in Clients : Awake(th[c])'
      BY Zenon, <1>12, <3>1, <3>2
    <3>7. \A m \in reports' : m = row.node /\ reach[m] /\ agent'[m] = NoEntry
      BY <3>2, <3>3
    <3> QED
      BY Zenon, <3>1, <3>4, <3>5, <3>6, <3>7 DEF Lone
  <2>2. ASSUME row' = row, reports' \subseteq reports,
               \A m \in Nodes : ~reach'[m] => agent'[m] = NoEntry,
               \A m \in reports' : reach'[m]
        PROVE  Lone'
    <3>1. ASSUME NEW m \in Nodes, agent'[m].mach = "RUNNING"
          PROVE  m = row.node /\ reports' = {} /\ Twin(agent'[m], l1) /\ \A c \in Clients : Awake(th[c])'
      <4>1. agent'[m] = agent[m] /\ agent[m].mach = "RUNNING"
        BY Zenon, <1>5, <1>7, <3>1
      <4>2. reports' = {}
        BY <1>4, <2>2, <4>1
      <4> QED
        BY Zenon, <1>4, <1>12, <2>2, <4>1, <4>2
    <3>2. ASSUME NEW m \in reports'
          PROVE  m = row.node /\ agent'[m] = NoEntry /\ \A c \in Clients : Awake(th[c])'
      <4>1. m \in reports /\ m \in Nodes
        BY <1>3, <2>2, <3>2
      <4> QED
        BY Zenon, <1>4, <1>7, <1>12, <2>2, <4>1
    <3> QED
      BY Zenon, <1>6, <2>2, <3>1, <3>2 DEF Lone
  <2>3. CASE Crash(n)
    <3>1. /\ row' = row /\ reports' = reports \ {n}
          /\ agent' = [agent EXCEPT ![n] = NoEntry] /\ reach' = [reach EXCEPT ![n] = FALSE]
      BY <2>3 DEF Crash
    <3>2. reports' \subseteq reports /\ \A m \in reports' : reach'[m]
      BY <1>3, <1>4, <3>1
    <3>3. \A m \in Nodes : ~reach'[m] => agent'[m] = NoEntry
      BY <1>3, <1>4, <3>1
    <3> QED
      BY Zenon, <2>2, <3>1, <3>2, <3>3
  <2>4. ~Cut(n)
    BY DEF Cut, Answered
  <2>5. CASE Back(n)
    <3>1. row' = row /\ reports' = reports /\ agent' = agent /\ reach' = [reach EXCEPT ![n] = TRUE]
      BY <2>5 DEF Back
    <3>2. reports' \subseteq reports /\ \A m \in reports' : reach'[m]
      BY <1>3, <1>4, <3>1
    <3>3. \A m \in Nodes : ~reach'[m] => agent'[m] = NoEntry
      BY <1>3, <1>4, <3>1
    <3> QED
      BY Zenon, <2>2, <3>1, <3>2, <3>3
  <2>6. CASE Evict(n) \/ Poll(n)
    <3>1. agent' = agent /\ reach' = reach /\ reports' \subseteq reports
      BY <2>6 DEF Evict, Poll
    <3>2. /\ \A m \in reports' : reach'[m]
          /\ \A m \in Nodes : ~reach'[m] => agent'[m] = NoEntry
      BY <1>4, <3>1
    <3>3. CASE row' = row
      BY Zenon, <2>2, <3>1, <3>2, <3>3
    <3>4. CASE row' # row
      <4>1. (\A m \in Nodes : agent[m].mach # "RUNNING") /\ reports' = {}
        <5>1. CASE Evict(n)
          <6>1. ~reach[n] /\ row.node = n /\ reports' = reports
            BY Zenon, <3>4, <5>1 DEF Evict
          <6>2. \A m \in Nodes : agent[m].mach # "RUNNING"
            BY Zenon, <1>4, <1>5, <6>1
          <6>3. reports = {}
            BY <1>4, <6>1
          <6> QED
            BY Zenon, <6>1, <6>2, <6>3
        <5>2. CASE Poll(n)
          <6>1. n \in reports /\ reports' = reports \ {n}
            BY Zenon, <3>4, <5>2 DEF Poll
          <6>2. reports' = {}
            BY <1>4, <6>1
          <6>3. \A m \in Nodes : agent[m].mach # "RUNNING"
            BY <1>4, <6>1
          <6> QED
            BY Zenon, <6>2, <6>3
        <5> QED
          BY Zenon, <2>6, <5>1, <5>2
      <4> QED
        BY <3>1, <3>2, <4>1 DEF Lone
    <3> QED
      BY Zenon, <3>3, <3>4
  <2> QED
    BY Zenon, <1>2, <2>1, <2>3, <2>4, <2>5, <2>6
<1> QED
  BY Zenon, <1>9, <1>10, <1>11, <1>13 DEF Guarded

LEMMA AlwaysGuarded ==
  ASSUME Serial, Answered, "cold" \notin Tiers
  PROVE  Spec => [](Inv /\ Guarded)
<1>1. Init => Inv /\ Guarded
  <2> SUFFICES ASSUME Init PROVE Guarded
    BY InitInv
  <2>1. /\ gen = 0 /\ acked = 0 /\ l1 = NoObjects /\ cold = NoObjects /\ eng = IdleEngine
        /\ row.state = "NONE" /\ reports = {} /\ \A n \in Nodes : agent[n] = NoEntry
        /\ \A c \in Clients : th[c] = IdleThread
    BY DEF Init
  <2>2. l1.desc = NoDesc /\ Base(l1) = 0 /\ NoEntry.mach # "RUNNING"
    BY <2>1, NoObjectsType, NoEntryFits DEF Base
  <2>3. Kept
    BY <2>1, <2>2 DEF Kept, Intact, IdleEngine
  <2>4. Lone
    BY <2>1, <2>2 DEF Lone
  <2>5. Settled
    BY <2>1, <2>2 DEF Settled, PausedRow
  <2>6. \A c \in Clients : Bound(th[c])
    BY <2>1 DEF Bound, IdleThread, Pointed, Claimed, Recording
  <2> QED
    BY Zenon, <2>3, <2>4, <2>5, <2>6 DEF Guarded
<1>2. (Inv /\ Guarded) /\ [Next]_vars => (Inv /\ Guarded)'
  <2> SUFFICES ASSUME Inv, Guarded, [Next]_vars PROVE Guarded'
    BY NextInv
  <2>1. CASE UNCHANGED vars
    <3>1. /\ row' = row /\ agent' = agent /\ l1' = l1 /\ cold' = cold /\ th' = th /\ eng' = eng
          /\ gen' = gen /\ acked' = acked /\ reach' = reach /\ reports' = reports
      BY <2>1 DEF vars, cluster, hist
    <3>2. Kept' /\ Lone' /\ Settled'
      BY Zenon, <3>1 DEF Guarded, Kept, Lone, Awake, Settled, Parked, AgentEntry, PausedRow
    <3>3. \A c \in Clients : Bound(th[c])'
      BY Zenon, <3>1 DEF Guarded, Bound, Parked, AgentEntry, Recording
    <3> QED
      BY Zenon, <3>2, <3>3 DEF Guarded
  <2> QED
    BY Zenon, <2>1, RequestGuarded, EngineGuarded, EnvironmentGuarded DEF Next
<1> QED
  BY <1>1, <1>2, PTL DEF Spec

\* Requests one at a time, agent verbs that may fail at any point, node and
\* process crashes and full nodes: a HOT or WARM row's last pause stays whole
\* in L1, for a push that stops half way has not touched what the descriptor
\* names (pushL1 writes it last, pauseChunked numbers the layer after it).
THEOREM PausedRestorableSerial ==
  ASSUME Serial, Answered, "cold" \notin Tiers
  PROVE  Spec => []PausedRestorable
<1>1. Inv /\ Guarded => PausedRestorable
  BY Zenon, GuardedRestores DEF Guarded, Settled, PausedRow, PausedRestorable
<1> QED
  BY <1>1, AlwaysGuarded, PTL

\* Under the same conditions a FAILED sandbox that was ever paused, a failed
\* pause or restore included, can be restored from L1 (resumeSandbox).
THEOREM FailedRestorableSerial ==
  ASSUME Serial, Answered, "cold" \notin Tiers
  PROVE  Spec => []FailedRestorable
<1>1. Inv /\ Guarded => FailedRestorable
  <2> SUFFICES ASSUME Inv, Guarded, row.state = "FAILED" /\ acked > 0 PROVE Restorable(l1)
    BY DEF FailedRestorable
  <2>1. Kept /\ Base(l1) \in Nat /\ acked \in Nat
    BY Zenon, BaseIs DEF Guarded, Inv
  <2>2. l1.desc # NoDesc
    BY <2>1 DEF Kept, Base
  <2> QED
    BY Zenon, <2>1, <2>2, GuardedRestores
<1> QED
  BY <1>1, AlwaysGuarded, PTL

\* Under the same conditions a running VM descends from the newest pause a
\* client was told of: nothing a client saw acknowledged is lost by a failed
\* verb, a crash or a tier move (resumeSandbox, RestoreSandbox).
THEOREM RunsFromLastPauseSerial ==
  ASSUME Serial, Answered, "cold" \notin Tiers
  PROVE  Spec => []RunsFromLastPause
<1>1. Inv /\ Guarded => RunsFromLastPause
  <2> SUFFICES ASSUME Inv, Guarded, NEW n \in Nodes, agent[n].mach = "RUNNING"
               PROVE  agent[n].base >= acked
    BY DEF RunsFromLastPause
  <2>1. agent[n].base = Base(l1)
    BY Zenon DEF Guarded, Lone, Twin
  <2>2. Base(l1) \in Nat /\ acked \in Nat /\ acked <= Base(l1)
    BY Zenon, BaseIs DEF Guarded, Kept, Inv
  <2> QED
    BY <2>1, <2>2
<1> QED
  BY <1>1, AlwaysGuarded, PTL

INSTANCE FiniteSetTheorems

\* Under the same conditions no two agents run the sandbox, though the engine
\* demotes it and nodes crash and return while requests are in flight
\* (resumeSandbox and migrateSandbox claim the row before they place it).
THEOREM OneVMSerial ==
  ASSUME Serial, Answered, "cold" \notin Tiers
  PROVE  Spec => []OneVM
<1>1. Inv /\ Guarded => OneVM
  <2> SUFFICES ASSUME Inv, Guarded PROVE OneVM
    OBVIOUS
  <2>1. PICK S : S = {n \in Nodes : agent[n].mach = "RUNNING"}
    BY Zenon
  <2>2. S \subseteq {row.node}
    BY <2>1 DEF Guarded, Lone
  <2>3. IsFiniteSet({row.node}) /\ Cardinality({row.node}) = 1
    BY Zenon, FS_Singleton
  <2>4. Cardinality(S) \in Nat /\ Cardinality(S) <= 1
    BY <2>2, <2>3, FS_Subset, FS_CardinalityType
  <2> QED
    BY <2>1, <2>4 DEF OneVM
<1> QED
  BY <1>1, AlwaysGuarded, PTL
=============================================================================
