---------------------------- MODULE Tiering_proofs ----------------------------
(***************************************************************************)
(* The life of a sandbox for any nodes, clients and number of snapshots.   *)
(*                                                                         *)
(* Inv carries TypesKept: besides the types, no tag counter passes gen,    *)
(* and the chain an agent would extend ends in its own newest tag.  Sound  *)
(* carries the two theorems about L1: it holds the newest snapshot taken,  *)
(* whole, and every object an agent's chain or the descriptor names.       *)
(***************************************************************************)
EXTENDS Tiering, TLAPS

IsNewest(t, tags) == t \in tags /\ \A u \in tags : u <= t

\* An agent's entry when g snapshots were taken.  Its tag counter has not
\* passed g, and the chain it would extend ends in its own newest tag; after
\* a cold restore the chain is the synthetic layer, which the next pause drops.
Fits(e, g) ==
  \/ e = NoEntry
  \/ /\ e \in Entry /\ e.seq <= g
     /\ e.full => e.layers = {0}
     /\ e.layers = {} \/ e.full \/ IsNewest(e.seq, e.layers)

\* The descriptors of the two stores.
Numbered(d, g) == d \in Descriptor /\ 1 <= d.seq /\ d.seq <= g
Chained(d, g) == d = NoDesc \/ (Numbered(d, g) /\ IsNewest(d.seq, d.layers))
Archived(d, g) == d = NoDesc \/ (Numbered(d, g) /\ d.layers = {0})

\* What a call may answer.
Outcome == [e : Entry \cup {NoEntry}, l1 : Objects, ok : BOOLEAN, gen : Gens]
After(o) == IF o.gen = 0 THEN gen ELSE o.gen
OutOK(o) ==
  /\ o \in Outcome
  /\ o.gen = 0 \/ (gen < MaxGen /\ o.gen = gen + 1)
  /\ Fits(o.e, After(o)) /\ Chained(o.l1.desc, After(o))

RowInv == row \in [state : RowState, node : NodeOrNone]
NodeInv == /\ up \in [Nodes -> BOOLEAN] /\ reach \in [Nodes -> BOOLEAN]
           /\ reports \subseteq Nodes
AgentInv == /\ agent \in [Nodes -> Entry \cup {NoEntry}]
            /\ \A n \in Nodes : Fits(agent[n], gen)
StoreInv == /\ l1 \in Objects /\ Chained(l1.desc, gen)
            /\ cold \in Objects /\ Archived(cold.desc, gen)
ThreadInv == th \in [Clients -> Thread]
EngineInv == /\ eng \in EngineThread
             /\ eng.pc \in {"cold.copy", "cold.desc"} =>
                  Numbered(eng.desc, gen) /\ IsNewest(eng.desc.seq, eng.desc.layers)
HistInv == gen \in Gens /\ acked \in Gens
Inv == RowInv /\ NodeInv /\ AgentInv /\ StoreInv /\ ThreadInv /\ EngineInv /\ HistInv

-----------------------------------------------------------------------------
LEMMA Zero == 0 \in Tags /\ 0 \in Gens /\ Gens \subseteq Nat /\ Tags \subseteq Nat /\ Layers \subseteq Tags
BY ConstantsAssumption DEF Tags, Gens, Layers

LEMMA NoDescType == NoDesc \in Descriptor
BY Zero DEF NoDesc, Descriptor

LEMMA NoDescFits == \A g : Chained(NoDesc, g) /\ Archived(NoDesc, g)
BY DEF Chained, Archived

LEMMA NoObjectsType == NoObjects \in Objects /\ NoObjects.desc = NoDesc
<1>1. NoObjects \in Objects
  BY Zero, NoDescType DEF NoObjects, Objects
<1> QED
  BY <1>1 DEF NoObjects

LEMMA NewestIs ==
  ASSUME NEW S \in SUBSET Tags, NEW t, IsNewest(t, S)
  PROVE  Newest(S) = t /\ t \in Tags
<1>1. t \in Tags /\ \A u \in S : u <= t
  BY DEF IsNewest
<1>2. Newest(S) \in S /\ \A u \in S : u <= Newest(S)
  BY DEF Newest, IsNewest
<1> QED
  <2>1. Newest(S) \in Nat /\ t \in Nat
    BY Zenon, <1>1, <1>2, Zero
  <2>2. Newest(S) <= t /\ t <= Newest(S)
    BY <1>1, <1>2 DEF IsNewest
  <2> QED
    BY <1>1, <2>1, <2>2

\* The memory a restore brings back is a snapshot's.
LEMMA ContentIs ==
  ASSUME NEW s \in Objects, NEW t, IsNewest(t, s.desc.layers)
  PROVE  Content(s) = s.layer[t] /\ t \in Tags /\ Content(s) \in Gens
<1>1. s.desc.layers \in SUBSET Tags /\ s.layer \in [Tags -> Gens]
  BY DEF Objects, Descriptor
<1>2. Newest(s.desc.layers) = t /\ t \in Tags
  BY Zenon, <1>1, NewestIs
<1> QED
  BY <1>1, <1>2 DEF Content

\* More snapshots do no harm.
LEMMA Grows ==
  ASSUME NEW g \in Nat, NEW h \in Nat, g <= h
  PROVE  /\ \A e : Fits(e, g) => Fits(e, h)
         /\ \A d : Numbered(d, g) => Numbered(d, h)
         /\ \A d : Chained(d, g) => Chained(d, h)
         /\ \A d : Archived(d, g) => Archived(d, h)
<1>1. ASSUME NEW e, Fits(e, g) PROVE Fits(e, h)
  <2>1. e \in Entry => e.seq \in Nat
    BY Zenon, Zero DEF Entry
  <2>2. e \in Entry /\ e.seq <= g => e.seq <= h
    BY <2>1
  <2> QED
    BY Zenon, <1>1, <2>2 DEF Fits
<1>2. ASSUME NEW d, Numbered(d, g) PROVE Numbered(d, h)
  <2>1. d.seq \in Nat
    BY Zenon, <1>2, Zero DEF Numbered, Descriptor
  <2> QED
    BY <1>2, <2>1 DEF Numbered
<1> QED
  BY <1>1, <1>2 DEF Chained, Archived

-----------------------------------------------------------------------------
(* What the verbs do to a good entry and a good store. *)

LEMMA NoEntryFits == \A g : Fits(NoEntry, g) /\ NoEntry.mach = "none" /\ NoEntry \notin Entry
<1>1. NoEntry.mach = "none"
  BY DEF NoEntry
<1>2. \A e \in Entry : e.mach # "none"
  BY DEF Entry
<1> QED
  BY Zenon, <1>1, <1>2 DEF Fits

\* An entry whose machine alone changes fits as before.
LEMMA MachFits ==
  ASSUME NEW g, NEW e \in Entry, Fits(e, g), NEW m \in {"RUNNING", "PAUSED_HOT", "FAILED"},
         NEW f, f = [e EXCEPT !.mach = m]
  PROVE  /\ f \in Entry /\ Fits(f, g) /\ f.mach = m /\ f.seq = e.seq /\ f.layers = e.layers
         /\ f.disk = e.disk /\ f.full = e.full /\ f.base = e.base
<1>1. /\ f \in Entry /\ f.mach = m /\ f.seq = e.seq /\ f.layers = e.layers
      /\ f.disk = e.disk /\ f.full = e.full /\ f.base = e.base
  BY Zenon DEF Entry
<1>2. e # NoEntry
  BY NoEntryFits
<1> QED
  BY Zenon, <1>1, <1>2 DEF Fits

\* The entry f that a pause of e leaves: the next tag ends its chain.
Extends(e, f) ==
  /\ f \in Entry /\ f.seq = e.seq + 1 /\ f.seq \in Layers /\ f.base = gen + 1 /\ f.full = FALSE
  /\ f.layers = {f.seq} \/ (~e.full /\ e.layers # {} /\ f.layers = e.layers \cup {f.seq})
  /\ IsNewest(f.seq, f.layers) /\ Fits(f, gen + 1)
Longer(e, f, m) ==
  Extends(e, f) /\ f.mach = m /\ f.disk = e.disk \cup {f.seq} /\ gen + 1 \in Gens

LEMMA PausedIs ==
  ASSUME HistInv, gen < MaxGen, NEW e \in Entry, Fits(e, gen),
         NEW m \in {"RUNNING", "PAUSED_HOT", "FAILED"}
  PROVE  Longer(e, Paused(e, m), m)
<1> DEFINE f == Paused(e, m)
<1> DEFINE t == e.seq + 1
           ls == IF e.layers = {} \/ e.full THEN {t} ELSE e.layers \cup {t}
           ds == e.disk \cup {t}
<1>1. /\ e.seq \in Tags /\ e.layers \in SUBSET Tags /\ e.disk \in SUBSET Layers
      /\ e.full \in BOOLEAN
  BY DEF Entry
<1>2. e.seq <= gen /\ (e.layers = {} \/ e.full \/ IsNewest(e.seq, e.layers))
  BY Zenon, NoEntryFits DEF Fits
<1>3. gen + 1 \in Gens /\ t \in Layers /\ t \in Tags /\ t <= gen + 1 /\ e.seq \in Nat
  BY <1>1, <1>2, ConstantsAssumption DEF HistInv, Gens, Layers, Tags
<1>4. ls \in SUBSET Tags /\ ds \in SUBSET Layers
  BY <1>1, <1>3
<1>5. IsNewest(t, ls)
  <2>1. CASE e.layers = {} \/ e.full
    BY <1>3, <2>1 DEF IsNewest, Tags
  <2>2. CASE ~(e.layers = {} \/ e.full)
    <3>1. \A u \in e.layers : u \in Nat /\ u <= e.seq
      BY Zenon, <1>1, <1>2, <2>2, Zero DEF IsNewest
    <3>2. \A u \in e.layers : u <= t
      BY <1>3, <3>1
    <3> QED
      BY <1>3, <2>2, <3>2 DEF IsNewest
  <2> QED
    BY <2>1, <2>2
<1>6. f = [e EXCEPT !.mach = m, !.seq = t, !.full = FALSE, !.base = gen + 1,
                    !.layers = ls, !.disk = ds]
  BY DEF Paused, NextSeq
<1>7. FALSE \in BOOLEAN
  OBVIOUS
<1>8. ls = {t} \/ (~e.full /\ e.layers # {} /\ ls = e.layers \cup {t})
  OBVIOUS
<1> HIDE DEF f, t, ls, ds
<1>9. /\ f \in Entry /\ f.mach = m /\ f.seq = t /\ f.layers = ls /\ f.disk = ds
      /\ f.full = FALSE /\ f.base = gen + 1
  BY Zenon, <1>3, <1>4, <1>6, <1>7 DEF Entry
<1>10. Fits(f, gen + 1)
  BY Zenon, <1>3, <1>5, <1>9 DEF Fits
<1>11. f.seq = e.seq + 1 /\ f.seq \in Layers /\ f.disk = e.disk \cup {f.seq}
  BY <1>3, <1>9 DEF t, ds
<1>12. /\ f.layers = {f.seq} \/ (~e.full /\ e.layers # {} /\ f.layers = e.layers \cup {f.seq})
       /\ IsNewest(f.seq, f.layers)
  BY Zenon, <1>5, <1>8, <1>9
<1>13. Longer(e, f, m)
  BY Zenon, <1>3, <1>9, <1>10, <1>11, <1>12 DEF Longer, Extends
<1> QED
  BY <1>13 DEF f

\* The writes of a push.
LEMMA PutLayerIs ==
  ASSUME gen + 1 \in Gens, NEW s \in Objects, NEW t \in Tags, NEW r, r = PutLayer(s, t)
  PROVE  /\ r \in Objects /\ r.desc = s.desc /\ r.disk = s.disk
         /\ r.layer[t] = gen + 1 /\ \A u \in Tags : u # t => r.layer[u] = s.layer[u]
<1> DEFINE lay == [s.layer EXCEPT ![t] = gen + 1]
<1>1. s.layer \in [Tags -> Gens]
  BY DEF Objects
<1>2. /\ lay \in [Tags -> Gens] /\ lay[t] = gen + 1
      /\ \A u \in Tags : u # t => lay[u] = s.layer[u]
  BY <1>1
<1>3. r = [s EXCEPT !.layer = lay]
  BY DEF PutLayer
<1> HIDE DEF lay
<1>4. r \in Objects /\ r.desc = s.desc /\ r.disk = s.disk /\ r.layer = lay
  BY Zenon, <1>2, <1>3 DEF Objects
<1> QED
  BY <1>2, <1>4

LEMMA PutDiskIs ==
  ASSUME gen + 1 \in Gens, NEW s \in Objects, NEW t \in Layers, NEW r, r = PutDisk(s, t)
  PROVE  /\ r \in Objects /\ r.desc = s.desc /\ r.layer = s.layer
         /\ r.disk[t] = gen + 1 /\ \A u \in Layers : u # t => r.disk[u] = s.disk[u]
<1> DEFINE dis == [s.disk EXCEPT ![t] = gen + 1]
<1>1. s.disk \in [Layers -> Gens]
  BY DEF Objects
<1>2. /\ dis \in [Layers -> Gens] /\ dis[t] = gen + 1
      /\ \A u \in Layers : u # t => dis[u] = s.disk[u]
  BY <1>1
<1>3. r = [s EXCEPT !.disk = dis]
  BY DEF PutDisk
<1> HIDE DEF dis
<1>4. r \in Objects /\ r.desc = s.desc /\ r.layer = s.layer /\ r.disk = dis
  BY Zenon, <1>2, <1>3 DEF Objects
<1> QED
  BY <1>2, <1>4

LEMMA PutDescIs ==
  ASSUME NEW s \in Objects, NEW e \in Entry, NEW r, r = PutDesc(s, e)
  PROVE  /\ r \in Objects /\ r.layer = s.layer /\ r.disk = s.disk
         /\ r.desc \in Descriptor /\ r.desc.seq = e.seq /\ r.desc.layers = e.layers
         /\ r.desc.disk = e.disk
<1> DEFINE d == [seq |-> e.seq, layers |-> e.layers, disk |-> e.disk]
<1>1. d \in Descriptor /\ d.seq = e.seq /\ d.layers = e.layers /\ d.disk = e.disk
  BY DEF Entry, Descriptor
<1>2. r = [s EXCEPT !.desc = d]
  BY DEF PutDesc
<1> HIDE DEF d
<1>3. r \in Objects /\ r.layer = s.layer /\ r.disk = s.disk /\ r.desc = d
  BY Zenon, <1>1, <1>2 DEF Objects
<1> QED
  BY <1>1, <1>3

\* A push that stopped half way leaves the descriptor and the other tags
\* alone; one that went through leaves both objects of the new tag.
Torn(s, t, r) ==
  /\ r \in Objects /\ r.desc = s.desc
  /\ \A u \in Tags : u # t => r.layer[u] = s.layer[u]
  /\ \A u \in Layers : u # t => r.disk[u] = s.disk[u]
  /\ r.layer[t] \in {s.layer[t], gen + 1} /\ r.disk[t] \in {s.disk[t], gen + 1}
Pushed(s, f, r) ==
  /\ r \in Objects /\ r.desc.seq = f.seq /\ r.desc.layers = f.layers /\ r.desc.disk = f.disk
  /\ \A u \in Tags : u # f.seq => r.layer[u] = s.layer[u]
  /\ \A u \in Layers : u # f.seq => r.disk[u] = s.disk[u]
  /\ r.layer[f.seq] = gen + 1 /\ r.disk[f.seq] = gen + 1

LEMMA TornIs ==
  ASSUME gen + 1 \in Gens, NEW s \in Objects, NEW t \in Layers, NEW r \in PushL1Partial(s, t)
  PROVE  Torn(s, t, r)
<1>1. PICK p : p = PutLayer(s, t)
  OBVIOUS
<1>2. PICK q : q = PutDisk(p, t)
  OBVIOUS
<1>3. t \in Tags
  BY Zero
<1>4. /\ p \in Objects /\ p.desc = s.desc /\ p.disk = s.disk
      /\ p.layer[t] = gen + 1 /\ \A u \in Tags : u # t => p.layer[u] = s.layer[u]
  BY ZenonT(30), <1>1, <1>3, PutLayerIs
<1>5. /\ q \in Objects /\ q.desc = p.desc /\ q.layer = p.layer
      /\ q.disk[t] = gen + 1 /\ \A u \in Layers : u # t => q.disk[u] = p.disk[u]
  BY <1>2, <1>4, PutDiskIs
<1>6. r \in {s, p, q}
  BY Zenon, <1>1, <1>2 DEF PushL1Partial
<1> QED
  BY <1>4, <1>5, <1>6 DEF Torn

LEMMA PushedIs ==
  ASSUME gen + 1 \in Gens, NEW s \in Objects, NEW f \in Entry, f.seq \in Layers,
         NEW r, r = PushL1(s, f)
  PROVE  Pushed(s, f, r)
<1>1. PICK p : p = PutLayer(s, f.seq)
  OBVIOUS
<1>2. PICK q : q = PutDisk(p, f.seq)
  OBVIOUS
<1>3. f.seq \in Tags
  BY Zenon, Zero
<1>4. /\ p \in Objects /\ p.desc = s.desc /\ p.disk = s.disk /\ p.layer[f.seq] = gen + 1
      /\ \A u \in Tags : u # f.seq => p.layer[u] = s.layer[u]
  BY <1>1, <1>3, PutLayerIs
<1>5. /\ q \in Objects /\ q.desc = p.desc /\ q.layer = p.layer /\ q.disk[f.seq] = gen + 1
      /\ \A u \in Layers : u # f.seq => q.disk[u] = p.disk[u]
  BY <1>2, <1>4, PutDiskIs
<1>6. r = PutDesc(q, f)
  BY Zenon, <1>1, <1>2 DEF PushL1
<1>7. /\ r \in Objects /\ r.layer = q.layer /\ r.disk = q.disk
      /\ r.desc.seq = f.seq /\ r.desc.layers = f.layers /\ r.desc.disk = f.disk
  BY <1>5, <1>6, PutDescIs
<1> QED
  BY <1>4, <1>5, <1>7 DEF Pushed

(***************************************************************************)
(* The ways a verb can change the entry e of an agent and the store s.     *)
(***************************************************************************)
Alike(e, f) ==
  /\ f \in Entry /\ f.seq = e.seq /\ f.layers = e.layers /\ f.disk = e.disk
  /\ f.full = e.full /\ f.base = e.base
Untouched(o, s) == o.l1 = s /\ o.gen = 0
Nothing(e, s, o) == Untouched(o, s) /\ o.e = e
Turned(e, s, o, m) == Untouched(o, s) /\ e \in Entry /\ Alike(e, o.e) /\ o.e.mach = m
Gone(s, o) == Untouched(o, s) /\ o.e = NoEntry
Half(e, s, o) ==
  /\ "agent" \in Faults /\ gen < MaxGen /\ o.gen = gen + 1 /\ ~o.ok
  /\ e \in Entry /\ e.mach = "RUNNING" /\ o.e.mach = "FAILED"
  /\ Extends(e, o.e) /\ Torn(s, o.e.seq, o.l1)
Whole(e, s, o) ==
  /\ gen < MaxGen /\ o.gen = gen + 1
  /\ e \in Entry /\ e.mach = "RUNNING"
  /\ Extends(e, o.e) /\ o.e.disk = e.disk \cup {o.e.seq} /\ Pushed(s, o.e, o.l1)

LEMMA PauseOuts ==
  ASSUME HistInv, NEW e \in Entry \cup {NoEntry}, Fits(e, gen), NEW s \in Objects,
         NEW o \in PauseSandbox(e, s)
  PROVE  /\ o \in Outcome
         /\ \/ Nothing(e, s, o) /\ o.ok = FALSE
            \/ /\ "agent" \in Faults /\ e.mach = "RUNNING"
               /\ Turned(e, s, o, "FAILED") /\ o.ok = FALSE
            \/ Half(e, s, o) /\ o.ok = FALSE
            \/ Whole(e, s, o) /\ o.ok = TRUE /\ o.e.mach = "PAUSED_HOT"
<1>1. ASSUME NEW f \in Entry \cup {NoEntry}, NEW r \in Objects, NEW b \in BOOLEAN, NEW g \in Gens,
             o = Out(f, r, b, g)
      PROVE  o \in Outcome /\ o.e = f /\ o.l1 = r /\ o.ok = b /\ o.gen = g
  BY <1>1 DEF Out, Outcome
<1>2. 0 \in Gens /\ FALSE \in BOOLEAN /\ TRUE \in BOOLEAN
  BY Zero
<1>3. ASSUME o = Out(e, s, FALSE, 0)
      PROVE  o \in Outcome /\ Nothing(e, s, o) /\ o.ok = FALSE
  BY Zenon, <1>1, <1>2, <1>3 DEF Nothing, Untouched
<1>4. CASE e.mach # "RUNNING" \/ gen = MaxGen
  BY Zenon, <1>3, <1>4 DEF PauseSandbox
<1>5. CASE ~(e.mach # "RUNNING" \/ gen = MaxGen)
  <2>1. e \in Entry /\ e.mach = "RUNNING" /\ gen < MaxGen
    BY <1>5, NoEntryFits, ConstantsAssumption DEF HistInv, Gens
  <2>2. PICK f : f = Paused(e, "FAILED")
    OBVIOUS
  <2>3. PICK p : p = Paused(e, "PAUSED_HOT")
    OBVIOUS
  <2>4. /\ f.mach = "FAILED" /\ Extends(e, f) /\ f.disk = e.disk \cup {f.seq}
        /\ gen + 1 \in Gens /\ f \in Entry /\ f.seq \in Layers
    <3>1. "FAILED" \in {"RUNNING", "PAUSED_HOT", "FAILED"}
      OBVIOUS
    <3>2. Longer(e, f, "FAILED")
      BY Zenon, <2>1, <2>2, <3>1, PausedIs
    <3> QED
      BY Zenon, <3>2 DEF Longer, Extends
  <2>5. /\ p.mach = "PAUSED_HOT" /\ Extends(e, p) /\ p.disk = e.disk \cup {p.seq}
        /\ p \in Entry /\ p.seq \in Layers
    <3>1. "PAUSED_HOT" \in {"RUNNING", "PAUSED_HOT", "FAILED"}
      OBVIOUS
    <3>2. Longer(e, p, "PAUSED_HOT")
      BY Zenon, <2>1, <2>3, <3>1, PausedIs
    <3> QED
      BY Zenon, <3>2 DEF Longer, Extends
  <2>6. CASE o = Out(p, PushL1(s, p), TRUE, gen + 1)
    <3>1. PICK r : r = PushL1(s, p)
      OBVIOUS
    <3>2. Pushed(s, p, r) /\ r \in Objects
      <4>1. Pushed(s, p, r)
        BY <2>4, <2>5, <3>1, PushedIs
      <4> QED
        BY <4>1 DEF Pushed
    <3>3. o \in Outcome /\ o.e = p /\ o.l1 = r /\ o.ok = TRUE /\ o.gen = gen + 1
      BY Zenon, <1>1, <1>2, <2>4, <2>5, <2>6, <3>1, <3>2
    <3> QED
      BY Zenon, <2>1, <2>5, <3>2, <3>3 DEF Whole
  <2>7. CASE o \in PauseFailures(e, s)
    <3>1. "agent" \in Faults
      BY Zenon, <2>7 DEF PauseFailures
    <3>2. CASE o = Out([e EXCEPT !.mach = "FAILED"], s, FALSE, 0)
      <4>1. PICK x : x = [e EXCEPT !.mach = "FAILED"]
        BY Zenon
      <4>2. Alike(e, x) /\ x.mach = "FAILED" /\ x \in Entry
        BY <2>1, <4>1, MachFits DEF Alike
      <4>3. o \in Outcome /\ o.e = x /\ o.l1 = s /\ o.ok = FALSE /\ o.gen = 0
        BY Zenon, <1>1, <1>2, <3>2, <4>1, <4>2
      <4> QED
        BY Zenon, <2>1, <3>1, <4>2, <4>3 DEF Turned, Untouched
    <3>3. CASE o = Out([f EXCEPT !.disk = e.disk], s, FALSE, gen + 1)
      <4>1. PICK x : x = [f EXCEPT !.disk = e.disk]
        BY Zenon
      <4>2. e.disk \in SUBSET Layers
        BY <2>1 DEF Entry
      <4>3. /\ x \in Entry /\ x.mach = f.mach /\ x.seq = f.seq /\ x.layers = f.layers
            /\ x.full = f.full /\ x.base = f.base
        BY Zenon, <2>4, <4>1, <4>2 DEF Entry
      <4>4. Extends(e, x)
        <5>1. Fits(x, gen + 1)
          BY Zenon, <2>4, <4>3, NoEntryFits DEF Extends, Fits
        <5> QED
          BY Zenon, <2>4, <4>3, <5>1 DEF Extends
      <4>5. o \in Outcome /\ o.e = x /\ o.l1 = s /\ o.ok = FALSE /\ o.gen = gen + 1
        BY Zenon, <1>1, <1>2, <2>4, <3>3, <4>1, <4>3
      <4>6. Torn(s, x.seq, s)
        BY DEF Torn
      <4> QED
        BY Zenon, <2>1, <2>4, <3>1, <4>3, <4>4, <4>5, <4>6 DEF Half
    <3>4. CASE \E p2 \in PushL1Partial(s, f.seq) : o = Out(f, p2, FALSE, gen + 1)
      <4>1. PICK p2 \in PushL1Partial(s, f.seq) : o = Out(f, p2, FALSE, gen + 1)
        BY Zenon, <3>4
      <4>2. Torn(s, f.seq, p2) /\ p2 \in Objects
        BY Zenon, <2>4, <4>1, TornIs DEF Torn
      <4>3. o \in Outcome /\ o.e = f /\ o.l1 = p2 /\ o.ok = FALSE /\ o.gen = gen + 1
        BY Zenon, <1>1, <1>2, <2>4, <4>1, <4>2
      <4> QED
        BY Zenon, <2>1, <2>4, <3>1, <4>2, <4>3 DEF Half
    <3> QED
      BY Zenon, <1>3, <2>2, <2>7, <3>1, <3>2, <3>3, <3>4 DEF PauseFailures
  <2> QED
    BY Zenon, <1>5, <2>3, <2>6, <2>7 DEF PauseSandbox
<1> QED
  BY Zenon, <1>4, <1>5

LEMMA ResumeOuts ==
  ASSUME NEW e \in Entry \cup {NoEntry}, NEW g, Fits(e, g), NEW s \in Objects,
         NEW o \in ResumeSandbox(e, s)
  PROVE  /\ o \in Outcome
         /\ \/ Nothing(e, s, o) /\ o.ok = FALSE
            \/ /\ e.mach \in {"PAUSED_HOT", "FAILED"}
               /\ \/ Turned(e, s, o, "RUNNING") /\ o.ok = TRUE
                  \/ Turned(e, s, o, "FAILED") /\ o.ok = FALSE /\ "agent" \in Faults
<1>1. ASSUME NEW f \in Entry \cup {NoEntry}, NEW b \in BOOLEAN, o = Out(f, s, b, 0)
      PROVE  o \in Outcome /\ o.e = f /\ o.l1 = s /\ o.ok = b /\ o.gen = 0
  BY <1>1, Zero DEF Out, Outcome
<1>2. CASE o = Out(e, s, FALSE, 0)
  BY Zenon, <1>1, <1>2 DEF Nothing, Untouched
<1>3. ASSUME Validate(e.mach, "RESUMING") PROVE e \in Entry /\ e.mach \in {"PAUSED_HOT", "FAILED"}
  <2>1. e.mach # "none" /\ e.mach # "RUNNING"
    BY <1>3 DEF Validate, transitions
  <2>2. e \in Entry
    BY Zenon, <2>1, NoEntryFits
  <2> QED
    BY <2>1, <2>2 DEF Entry
<1>4. ASSUME NEW m \in {"RUNNING", "FAILED"}, NEW b \in BOOLEAN, e \in Entry,
             o = Out([e EXCEPT !.mach = m], s, b, 0)
      PROVE  o \in Outcome /\ Turned(e, s, o, m) /\ o.ok = b
  <2>1. PICK x : x = [e EXCEPT !.mach = m]
    BY Zenon
  <2>2. Alike(e, x) /\ x.mach = m /\ x \in Entry
    BY <1>4, <2>1, MachFits DEF Alike
  <2>3. o \in Outcome /\ o.e = x /\ o.l1 = s /\ o.ok = b /\ o.gen = 0
    BY Zenon, <1>1, <1>4, <2>1, <2>2
  <2> QED
    BY Zenon, <1>4, <2>2, <2>3 DEF Turned, Untouched
<1>5. \/ o = Out(e, s, FALSE, 0)
      \/ /\ Validate(e.mach, "RESUMING")
         /\ \/ o = Out([e EXCEPT !.mach = "RUNNING"], s, TRUE, 0)
            \/ o = Out([e EXCEPT !.mach = "FAILED"], s, FALSE, 0) /\ "agent" \in Faults
  BY Zenon DEF ResumeSandbox
<1> QED
  BY Zenon, <1>2, <1>3, <1>4, <1>5

\* The snapshot verb: as the pause, but what it left runs on or failed.
LEMMA SnapshotOuts ==
  ASSUME HistInv, NEW e \in Entry \cup {NoEntry}, Fits(e, gen), NEW s \in Objects,
         NEW o \in SnapshotSandbox(e, s)
  PROVE  /\ o \in Outcome
         /\ \/ Nothing(e, s, o) /\ o.ok = FALSE
            \/ /\ "agent" \in Faults /\ e.mach = "RUNNING"
               /\ Turned(e, s, o, "FAILED") /\ o.ok = FALSE
            \/ Half(e, s, o) /\ o.ok = FALSE
            \/ /\ Whole(e, s, o)
               /\ \/ o.ok = TRUE /\ o.e.mach = "RUNNING"
                  \/ o.ok = FALSE /\ o.e.mach = "FAILED" /\ "agent" \in Faults
<1>1. PICK p \in PauseSandbox(e, s) :
        o \in IF p.ok THEN {[r EXCEPT !.gen = p.gen] : r \in ResumeSandbox(p.e, p.l1)} ELSE {p}
  BY Zenon DEF SnapshotSandbox
<1>2. /\ p \in Outcome
      /\ \/ Nothing(e, s, p) /\ p.ok = FALSE
         \/ /\ "agent" \in Faults /\ e.mach = "RUNNING"
            /\ Turned(e, s, p, "FAILED") /\ p.ok = FALSE
         \/ Half(e, s, p) /\ p.ok = FALSE
         \/ Whole(e, s, p) /\ p.ok = TRUE /\ p.e.mach = "PAUSED_HOT"
  BY Zenon, <1>1, PauseOuts
<1>3. CASE ~p.ok
  BY Zenon, <1>1, <1>2, <1>3
<1>4. CASE p.ok
  <2>1. Whole(e, s, p) /\ p.e.mach = "PAUSED_HOT" /\ p.e \in Entry /\ p.l1 \in Objects /\ p.gen \in Gens
    BY <1>2, <1>4 DEF Outcome, Whole, Extends
  <2>2. PICK r \in ResumeSandbox(p.e, p.l1) : o = [r EXCEPT !.gen = p.gen]
    BY Zenon, <1>1, <1>4
  <2>3. Fits(p.e, gen + 1)
    BY <2>1 DEF Whole, Extends
  <2>4. /\ r \in Outcome
        /\ \/ Nothing(p.e, p.l1, r)
           \/ Turned(p.e, p.l1, r, "RUNNING") /\ r.ok = TRUE
           \/ Turned(p.e, p.l1, r, "FAILED") /\ r.ok = FALSE /\ "agent" \in Faults
    BY Zenon, <2>1, <2>2, <2>3, ResumeOuts
  <2>5. o \in Outcome /\ o.e = r.e /\ o.l1 = r.l1 /\ o.ok = r.ok /\ o.gen = p.gen
    BY Zenon, <2>1, <2>2, <2>4 DEF Outcome
  <2>6. ~Nothing(p.e, p.l1, r)
    <3>1. Validate("PAUSED_HOT", "RESUMING")
      BY DEF Validate, transitions
    <3>2. PICK x : x = [p.e EXCEPT !.mach = "RUNNING"]
      BY Zenon
    <3>3. PICK y : y = [p.e EXCEPT !.mach = "FAILED"]
      BY Zenon
    <3>4. x.mach = "RUNNING" /\ y.mach = "FAILED"
      BY <2>1, <3>2, <3>3 DEF Entry
    <3>5. r = Out(x, p.l1, TRUE, 0) \/ r = Out(y, p.l1, FALSE, 0)
      BY Zenon, <2>1, <2>2, <3>1, <3>2, <3>3 DEF ResumeSandbox
    <3>6. r.e = x \/ r.e = y
      BY <3>5 DEF Out
    <3> QED
      BY <2>1, <3>4, <3>6 DEF Nothing
  <2>7. /\ Alike(p.e, o.e) /\ o.l1 = p.l1 /\ o.e \in Entry
        /\ \/ o.ok = TRUE /\ o.e.mach = "RUNNING"
           \/ o.ok = FALSE /\ o.e.mach = "FAILED" /\ "agent" \in Faults
    BY Zenon, <2>4, <2>5, <2>6 DEF Turned, Untouched, Alike
  <2>8. Fits(o.e, gen + 1)
    BY Zenon, <2>1, <2>3, <2>7, NoEntryFits DEF Fits, Alike
  <2>9. Extends(e, o.e) /\ o.e.disk = e.disk \cup {o.e.seq}
    BY Zenon, <2>1, <2>7, <2>8 DEF Whole, Extends, Alike
  <2>10. Pushed(s, o.e, o.l1)
    BY Zenon, <2>1, <2>7 DEF Whole, Pushed, Alike
  <2> QED
    BY Zenon, <2>1, <2>5, <2>7, <2>9, <2>10 DEF Whole
<1> QED
  BY Zenon, <1>3, <1>4

LEMMA StopOuts ==
  ASSUME NEW e \in Entry \cup {NoEntry}, NEW s \in Objects, NEW o \in StopSandbox(e, s)
  PROVE  o \in Outcome /\ Gone(s, o)
<1>1. PICK b \in BOOLEAN : o = Out(NoEntry, s, b, 0)
  BY Zenon DEF StopSandbox
<1> QED
  BY <1>1, Zero DEF Out, Outcome, Gone, Untouched

LEMMA ReleaseOuts ==
  ASSUME NEW e \in Entry \cup {NoEntry}, NEW g, Fits(e, g), NEW s \in Objects,
         NEW o \in ReleaseLocal(e, s)
  PROVE  /\ o \in Outcome
         /\ \/ Nothing(e, s, o) /\ o.ok = FALSE
            \/ e.mach = "PAUSED_HOT" /\ Gone(s, o) /\ o.ok = TRUE
            \/ /\ "agent" \in Faults /\ e.mach = "PAUSED_HOT"
               /\ Turned(e, s, o, "FAILED") /\ o.ok = FALSE
<1>1. ASSUME NEW f \in Entry \cup {NoEntry}, NEW b \in BOOLEAN, o = Out(f, s, b, 0)
      PROVE  o \in Outcome /\ o.e = f /\ o.l1 = s /\ o.ok = b /\ o.gen = 0
  BY <1>1, Zero DEF Out, Outcome
<1>2. CASE o = Out(e, s, FALSE, 0)
  BY Zenon, <1>1, <1>2 DEF Nothing, Untouched
<1>3. CASE e.mach = "PAUSED_HOT" /\ o = Out(NoEntry, s, TRUE, 0)
  BY Zenon, <1>1, <1>3 DEF Gone, Untouched
<1>4. CASE /\ "agent" \in Faults /\ e.mach = "PAUSED_HOT"
           /\ o = Out([e EXCEPT !.mach = "FAILED"], s, FALSE, 0)
  <2>1. PICK x : x = [e EXCEPT !.mach = "FAILED"]
    BY Zenon
  <2>2. e \in Entry
    BY <1>4, NoEntryFits
  <2>3. Alike(e, x) /\ x.mach = "FAILED" /\ x \in Entry
    BY <2>1, <2>2, MachFits DEF Alike
  <2>4. o \in Outcome /\ o.e = x /\ o.l1 = s /\ o.ok = FALSE /\ o.gen = 0
    BY Zenon, <1>1, <1>4, <2>1, <2>3
  <2> QED
    BY Zenon, <1>4, <2>2, <2>3, <2>4 DEF Turned, Untouched
<1>5. \/ o = Out(e, s, FALSE, 0)
      \/ /\ e.mach = "PAUSED_HOT"
         /\ \/ o = Out(NoEntry, s, TRUE, 0)
            \/ "agent" \in Faults /\ o = Out([e EXCEPT !.mach = "FAILED"], s, FALSE, 0)
  BY Zenon DEF ReleaseLocal
<1> QED
  BY Zenon, <1>2, <1>3, <1>4, <1>5

Booted(f) ==
  /\ f \in Entry /\ f.mach = "RUNNING" /\ f.seq = 0 /\ f.layers = {} /\ f.disk = {}
  /\ f.full = FALSE /\ f.base = 0
Fetched(src, f, b) ==
  /\ Complete(src) /\ f \in Entry /\ f.mach = "RUNNING" /\ f.seq = src.desc.seq
  /\ f.layers = src.desc.layers /\ f.disk = src.desc.disk /\ f.full = b
  /\ f.base = Content(src)

LEMMA CreateOuts ==
  ASSUME NEW e, NEW s \in Objects, NEW o \in CreateSandbox(e, s)
  PROVE  /\ o \in Outcome
         /\ \/ Untouched(o, s) /\ Booted(o.e) /\ o.ok = TRUE
            \/ Gone(s, o) /\ o.ok = FALSE /\ "agent" \in Faults
<1>1. ASSUME NEW f \in Entry \cup {NoEntry}, NEW b \in BOOLEAN, o = Out(f, s, b, 0)
      PROVE  o \in Outcome /\ o.e = f /\ o.l1 = s /\ o.ok = b /\ o.gen = 0
  BY <1>1, Zero DEF Out, Outcome
<1>2. PICK x : x = [mach |-> "RUNNING", seq |-> 0, layers |-> {}, disk |-> {},
                    full |-> FALSE, base |-> 0]
  BY Zenon
<1>3. Booted(x) /\ x \in Entry
  BY <1>2, Zero DEF Booted, Entry
<1>4. o = Out(x, s, TRUE, 0) \/ ("agent" \in Faults /\ o = Out(NoEntry, s, FALSE, 0))
  BY Zenon, <1>2 DEF CreateSandbox
<1> QED
  BY Zenon, <1>1, <1>3, <1>4 DEF Gone, Untouched

LEMMA RestoreOuts ==
  ASSUME StoreInv, NEW e \in Entry \cup {NoEntry}, NEW tier \in {"warm", "cold"},
         NEW src, src = (IF tier = "cold" THEN cold ELSE l1),
         NEW o \in RestoreSandbox(e, l1, tier)
  PROVE  /\ o \in Outcome
         /\ \/ e # NoEntry /\ e.mach # "FAILED" /\ Nothing(e, l1, o) /\ o.ok = FALSE
            \/ /\ e = NoEntry \/ e.mach = "FAILED"
               /\ \/ Gone(l1, o) /\ o.ok = FALSE /\ (Complete(src) => "agent" \in Faults)
                  \/ /\ Untouched(o, l1) /\ o.ok = TRUE
                     /\ \E b \in BOOLEAN : b = (tier = "cold") /\ Fetched(src, o.e, b)
<1>1. ASSUME NEW f \in Entry \cup {NoEntry}, NEW b \in BOOLEAN, o = Out(f, l1, b, 0)
      PROVE  o \in Outcome /\ o.e = f /\ o.l1 = l1 /\ o.ok = b /\ o.gen = 0
  BY <1>1, Zero DEF Out, Outcome, StoreInv
<1>2. CASE e # NoEntry /\ e.mach # "FAILED"
  <2>1. o = Out(e, l1, FALSE, 0)
    BY Zenon, <1>2 DEF RestoreSandbox
  <2> QED
    BY Zenon, <1>1, <1>2, <2>1 DEF Nothing, Untouched
<1>3. CASE e = NoEntry \/ e.mach = "FAILED"
  <2>1. PICK x : x = Restored(src, tier)
    BY Zenon
  <2>2. PICK b \in BOOLEAN : b = (tier = "cold")
    BY Zenon
  <2>3. ASSUME Complete(src) PROVE Fetched(src, x, b)
    <3>1. src \in Objects /\ src.desc # NoDesc
      BY <2>3 DEF Complete, LayersPresent, NoDesc, StoreInv
    <3>2. src.desc.seq \in Tags /\ src.desc.layers \in SUBSET Tags /\ src.desc.disk \in SUBSET Layers
      BY <3>1 DEF Objects, Descriptor
    <3>3. \E t : IsNewest(t, src.desc.layers)
      <4>1. CASE tier = "cold"
        <5>1. src.desc.layers = {0}
          BY <3>1, <4>1 DEF StoreInv, Archived
        <5> QED
          BY <5>1 DEF IsNewest
      <4>2. CASE tier # "cold"
        BY <3>1, <4>2 DEF StoreInv, Chained
      <4> QED
        BY <4>1, <4>2
    <3>4. Content(src) \in Gens
      BY Zenon, <3>1, <3>3, ContentIs
    <3>5. x = [mach |-> "RUNNING", seq |-> src.desc.seq, layers |-> src.desc.layers,
               disk |-> src.desc.disk, full |-> b, base |-> Content(src)]
      BY Zenon, <2>1, <2>2 DEF Restored
    <3> QED
      BY <2>3, <3>2, <3>4, <3>5 DEF Fetched, Entry
  <2>4. \/ ~Complete(src) /\ o = Out(NoEntry, l1, FALSE, 0)
        \/ Complete(src) /\ o = Out(x, l1, TRUE, 0)
        \/ Complete(src) /\ "agent" \in Faults /\ o = Out(NoEntry, l1, FALSE, 0)
    BY Zenon, <1>3, <2>1 DEF RestoreSandbox
  <2>5. CASE o = Out(NoEntry, l1, FALSE, 0) /\ (Complete(src) => "agent" \in Faults)
    BY Zenon, <1>1, <1>3, <2>5 DEF Gone, Untouched
  <2>6. CASE Complete(src) /\ o = Out(x, l1, TRUE, 0)
    <3>1. x \in Entry
      BY <2>3, <2>6 DEF Fetched
    <3>2. o \in Outcome /\ o.e = x /\ o.l1 = l1 /\ o.ok = TRUE /\ o.gen = 0
      BY Zenon, <1>1, <2>6, <3>1
    <3> QED
      BY Zenon, <1>3, <2>2, <2>3, <2>6, <3>2 DEF Untouched
  <2> QED
    BY Zenon, <1>3, <2>4, <2>5, <2>6
<1> QED
  BY Zenon, <1>2, <1>3

-----------------------------------------------------------------------------
\* What a verb may do to the entry e and to L1.
Move(e, o) ==
  /\ o \in Outcome
  /\ \/ Nothing(e, l1, o) \/ Gone(l1, o) \/ \E m : Turned(e, l1, o, m)
     \/ Half(e, l1, o) \/ Whole(e, l1, o)
     \/ Untouched(o, l1) /\ Booted(o.e)
     \/ Untouched(o, l1) /\ Fetched(l1, o.e, FALSE)
     \/ Untouched(o, l1) /\ Fetched(cold, o.e, TRUE)

\* Every way a verb can go leaves a good entry and a good store.
LEMMA MoveOK ==
  ASSUME HistInv, StoreInv, NEW e \in Entry \cup {NoEntry}, Fits(e, gen), NEW o, Move(e, o)
  PROVE  OutOK(o)
<1> o \in Outcome
  BY Zenon DEF Move
<1>1. gen \in Nat /\ MaxGen \in Nat
  BY ConstantsAssumption DEF HistInv, Gens
<1>2. ASSUME o.gen = gen + 1, gen < MaxGen, Fits(o.e, gen + 1), Chained(o.l1.desc, gen + 1)
      PROVE  OutOK(o)
  <2>1. o.gen # 0
    BY <1>1, <1>2
  <2> QED
    BY Zenon, <1>2, <2>1 DEF OutOK, After
<1>3. ASSUME Untouched(o, l1), Fits(o.e, gen) PROVE OutOK(o)
  BY Zenon, <1>3 DEF Untouched, OutOK, After, StoreInv
<1>4. CASE Nothing(e, l1, o) \/ Gone(l1, o)
  BY Zenon, <1>3, <1>4, NoEntryFits DEF Nothing, Gone
<1>5. ASSUME NEW m, Turned(e, l1, o, m) PROVE OutOK(o)
  <2>1. Fits(o.e, gen)
    BY Zenon, <1>5, NoEntryFits DEF Turned, Alike, Fits
  <2> QED
    BY Zenon, <1>3, <1>5, <2>1 DEF Turned
<1>6. CASE Half(e, l1, o)
  <2>1. Chained(l1.desc, gen + 1)
    BY <1>1, Grows DEF StoreInv
  <2> QED
    BY Zenon, <1>2, <1>6, <2>1 DEF Half, Extends, Torn
<1>7. CASE Whole(e, l1, o)
  <2>1. o.l1.desc \in Descriptor /\ o.e.seq \in Layers
    BY <1>7 DEF Whole, Pushed, Extends, Objects
  <2>2. 1 <= o.e.seq
    BY <2>1, <1>1 DEF Layers
  <2>3. o.e.seq <= gen + 1 /\ IsNewest(o.e.seq, o.e.layers)
    BY Zenon, <1>7, NoEntryFits DEF Whole, Extends, Fits
  <2>4. Chained(o.l1.desc, gen + 1)
    BY Zenon, <1>7, <2>1, <2>2, <2>3 DEF Chained, Numbered, Whole, Pushed
  <2> QED
    BY Zenon, <1>2, <1>7, <2>4 DEF Whole, Extends
<1>8. CASE Untouched(o, l1) /\ Booted(o.e)
  <2>1. 0 <= gen
    BY <1>1
  <2>2. Fits(o.e, gen)
    BY Zenon, <1>8, <2>1 DEF Booted, Fits
  <2> QED
    BY Zenon, <1>3, <1>8, <2>2
<1>9. CASE Untouched(o, l1) /\ Fetched(l1, o.e, FALSE)
  <2>1. l1.desc # NoDesc
    BY <1>9 DEF Fetched, Complete, LayersPresent, NoDesc
  <2>2. Fits(o.e, gen)
    BY Zenon, <1>9, <2>1 DEF Fetched, StoreInv, Chained, Numbered, Fits
  <2> QED
    BY Zenon, <1>3, <1>9, <2>2
<1>10. CASE Untouched(o, l1) /\ Fetched(cold, o.e, TRUE)
  <2>1. cold.desc # NoDesc
    BY <1>10 DEF Fetched, Complete, LayersPresent, NoDesc
  <2>2. Fits(o.e, gen)
    BY Zenon, <1>10, <2>1 DEF Fetched, StoreInv, Archived, Numbered, Fits
  <2> QED
    BY Zenon, <1>3, <1>10, <2>2
<1> QED
  BY Zenon, <1>4, <1>5, <1>6, <1>7, <1>8, <1>9, <1>10 DEF Move

\* The answers of a node to any verb of a handler or of the engine.
LEMMA VerbsMove ==
  ASSUME HistInv, StoreInv, NEW e \in Entry \cup {NoEntry}, Fits(e, gen)
  PROVE  /\ \A o \in PauseSandbox(e, l1) : Move(e, o)
         /\ \A o \in SnapshotSandbox(e, l1) : Move(e, o)
         /\ \A o \in ResumeSandbox(e, l1) : Move(e, o)
         /\ \A o \in StopSandbox(e, l1) : Move(e, o)
         /\ \A o \in ReleaseLocal(e, l1) : Move(e, o)
         /\ \A o \in CreateSandbox(e, l1) : Move(e, o)
         /\ \A tier \in {"warm", "cold"} : \A o \in RestoreSandbox(e, l1, tier) : Move(e, o)
<1>1. l1 \in Objects
  BY Zenon DEF StoreInv
<1>2. ASSUME NEW o \in PauseSandbox(e, l1) PROVE Move(e, o)
  <2>1. /\ o \in Outcome
        /\ Nothing(e, l1, o) \/ Turned(e, l1, o, "FAILED") \/ Half(e, l1, o) \/ Whole(e, l1, o)
    BY Zenon, <1>1, PauseOuts
  <2> QED
    BY Zenon, <1>1, <2>1 DEF Move
<1>3. ASSUME NEW o \in SnapshotSandbox(e, l1) PROVE Move(e, o)
  <2>1. /\ o \in Outcome
        /\ Nothing(e, l1, o) \/ Turned(e, l1, o, "FAILED") \/ Half(e, l1, o) \/ Whole(e, l1, o)
    BY Zenon, <1>1, SnapshotOuts
  <2> QED
    BY Zenon, <1>1, <2>1 DEF Move
<1>4. ASSUME NEW o \in ResumeSandbox(e, l1) PROVE Move(e, o)
  <2>1. /\ o \in Outcome
        /\ Nothing(e, l1, o) \/ Turned(e, l1, o, "FAILED") \/ Turned(e, l1, o, "RUNNING")
    BY Zenon, <1>1, ResumeOuts
  <2> QED
    BY Zenon, <1>1, <2>1 DEF Move
<1>5. ASSUME NEW o \in StopSandbox(e, l1) PROVE Move(e, o)
  BY Zenon, <1>1, StopOuts DEF Move
<1>6. ASSUME NEW o \in ReleaseLocal(e, l1) PROVE Move(e, o)
  <2>1. o \in Outcome /\ (Nothing(e, l1, o) \/ Turned(e, l1, o, "FAILED") \/ Gone(l1, o))
    BY Zenon, <1>1, ReleaseOuts
  <2> QED
    BY Zenon, <1>1, <2>1 DEF Move
<1>7. ASSUME NEW o \in CreateSandbox(e, l1) PROVE Move(e, o)
  BY Zenon, <1>1, CreateOuts DEF Move
<1>8. ASSUME NEW tier \in {"warm", "cold"}, NEW o \in RestoreSandbox(e, l1, tier) PROVE Move(e, o)
  <2>1. PICK src : src = (IF tier = "cold" THEN cold ELSE l1)
    BY Zenon
  <2>2. /\ o \in Outcome
        /\ \/ Nothing(e, l1, o) \/ Gone(l1, o)
           \/ /\ Untouched(o, l1)
              /\ \E b \in BOOLEAN : b = (tier = "cold") /\ Fetched(src, o.e, b)
    BY Zenon, <2>1, RestoreOuts
  <2>3. CASE tier = "cold"
    <3>1. src = cold /\ \A b \in BOOLEAN : b = (tier = "cold") => b = TRUE
      BY <2>1, <2>3
    <3> QED
      BY Zenon, <2>2, <3>1 DEF Move
  <2>4. CASE tier # "cold"
    <3>1. src = l1 /\ \A b \in BOOLEAN : b = (tier = "cold") => b = FALSE
      BY <2>1, <2>4
    <3> QED
      BY Zenon, <2>2, <3>1 DEF Move
  <2> QED
    BY <2>3, <2>4
<1> QED
  BY Zenon, <1>2, <1>3, <1>4, <1>5, <1>6, <1>7, <1>8

-----------------------------------------------------------------------------
(* Agent calls *)

LEMMA EntryOK ==
  ASSUME AgentInv, NEW n
  PROVE  AgentEntry(n) \in Entry \cup {NoEntry} /\ Fits(AgentEntry(n), gen)
BY Zenon, NoEntryFits DEF AgentInv, AgentEntry

\* What the caller is told: what the verb did, or an error.
Told(p, o) ==
  /\ o \in Outcome /\ o.e = p.e /\ o.l1 = p.l1 /\ o.gen = p.gen
  /\ o.ok = p.ok \/ (o.ok = FALSE /\ "lost" \in Faults)

LEMMA AnswersIs ==
  ASSUME AgentInv, StoreInv, NEW n, NEW outs, \A p \in outs : p \in Outcome,
         NEW o \in Answers(n, outs)
  PROVE  \/ /\ n \notin Nodes \/ ~reach[n]
            /\ o \in Outcome /\ Nothing(AgentEntry(n), l1, o) /\ o.ok = FALSE
         \/ n \in Nodes /\ reach[n] /\ \E p \in outs : Told(p, o)
<1>1. PICK e : e = AgentEntry(n)
  BY Zenon
<1>2. e \in Entry \cup {NoEntry} /\ l1 \in Objects /\ 0 \in Gens /\ FALSE \in BOOLEAN
  BY Zenon, <1>1, EntryOK, Zero DEF StoreInv
<1>3. CASE n \notin Nodes \/ ~reach[n]
  <2>1. o = Out(e, l1, FALSE, 0)
    BY Zenon, <1>1, <1>3 DEF Answers
  <2>2. o \in Outcome /\ o.e = e /\ o.l1 = l1 /\ o.ok = FALSE /\ o.gen = 0
    BY <1>2, <2>1 DEF Out, Outcome
  <2> QED
    BY Zenon, <1>1, <1>3, <2>2 DEF Nothing, Untouched
<1>4. CASE n \in Nodes /\ reach[n]
  <2>1. PICK p \in outs : o = p \/ (o = [p EXCEPT !.ok = FALSE] /\ "lost" \in Faults)
    BY Zenon, <1>4 DEF Answers
  <2>2. p \in Outcome
    BY Zenon, <2>1
  <2>3. Told(p, o)
    BY Zenon, <1>2, <2>1, <2>2 DEF Told, Outcome
  <2> QED
    BY Zenon, <1>4, <2>1, <2>3
<1> QED
  BY Zenon, <1>3, <1>4

LEMMA AnswersMove ==
  ASSUME AgentInv, StoreInv, NEW n, NEW e, e = AgentEntry(n), NEW outs,
         \A p \in outs : Move(e, p), NEW o \in Answers(n, outs)
  PROVE  Move(e, o)
<1>1. \A p \in outs : p \in Outcome
  BY Zenon DEF Move
<1>2. CASE o \in Outcome /\ Nothing(e, l1, o)
  BY Zenon, <1>2 DEF Move
<1>3. ASSUME NEW p \in outs, Told(p, o) PROVE Move(e, o)
  <2>1. o \in Outcome /\ o.e = p.e /\ o.l1 = p.l1 /\ o.gen = p.gen /\ (~p.ok => ~o.ok)
    BY <1>3 DEF Told
  <2>2. Untouched(p, l1) => Untouched(o, l1)
    BY Zenon, <2>1 DEF Untouched
  <2>3. /\ Nothing(e, l1, p) => Nothing(e, l1, o)
        /\ Gone(l1, p) => Gone(l1, o)
        /\ \A m : Turned(e, l1, p, m) => Turned(e, l1, o, m)
    BY Zenon, <2>1, <2>2 DEF Nothing, Gone, Turned
  <2>4. Half(e, l1, p) => Half(e, l1, o)
    BY Zenon, <2>1 DEF Half
  <2>5. Whole(e, l1, p) => Whole(e, l1, o)
    BY Zenon, <2>1 DEF Whole
  <2> QED
    BY Zenon, <1>3, <2>1, <2>2, <2>3, <2>4, <2>5 DEF Move
<1> QED
  BY Zenon, <1>1, <1>2, <1>3, AnswersIs

\* A call that was answered well leaves good entries and good stores.
LEMMA EffectOK ==
  ASSUME HistInv, AgentInv, StoreInv, NEW n, NEW o, OutOK(o), Effect(n, o),
         UNCHANGED <<cold, acked>>
  PROVE  /\ HistInv' /\ AgentInv' /\ StoreInv'
         /\ gen \in Nat /\ gen' \in Nat /\ gen <= gen' /\ gen' = After(o)
<1>1. o \in Outcome /\ gen \in Gens /\ gen' = After(o)
  BY Zenon DEF OutOK, HistInv, Effect, After
<1>2. gen \in Nat /\ gen' \in Nat /\ gen <= gen' /\ gen' \in Gens
  BY <1>1, ConstantsAssumption DEF OutOK, After, Gens
<1>3. agent' \in [Nodes -> Entry \cup {NoEntry}]
  BY <1>1 DEF Effect, AgentInv, Outcome
<1>4. ASSUME NEW m \in Nodes PROVE Fits(agent'[m], gen')
  <2>1. agent'[m] = IF m = n THEN o.e ELSE agent[m]
    BY Zenon DEF Effect
  <2>2. Fits(agent[m], gen')
    BY Zenon, <1>2, Grows DEF AgentInv
  <2> QED
    BY Zenon, <1>1, <2>1, <2>2 DEF OutOK
<1>5. l1' \in Objects /\ Chained(l1'.desc, gen')
  BY <1>1 DEF Effect, OutOK, Outcome
<1>6. cold' \in Objects /\ Archived(cold'.desc, gen')
  <2>1. Archived(cold.desc, gen')
    BY Zenon, <1>2, Grows DEF StoreInv
  <2> QED
    BY Zenon, <2>1 DEF StoreInv
<1> QED
  BY Zenon, <1>1, <1>2, <1>3, <1>4, <1>5, <1>6 DEF HistInv, AgentInv, StoreInv

\* What a request's thread may become.
LEMMA ThreadSet ==
  ASSUME ThreadInv, NEW c \in Clients, NEW t \in Thread, th' = [th EXCEPT ![c] = t]
  PROVE  ThreadInv' /\ th'[c] = t /\ \A d \in Clients : d # c => th'[d] = th[d]
BY Zenon DEF ThreadInv

LEMMA IdleIs == IdleThread \in Thread /\ IdleEngine \in EngineThread
<1>1. "idle" \in RequestPC /\ "idle" \in EnginePC /\ "RUNNING" \in RowState /\ NoNode \in NodeOrNone
  BY DEF RequestPC, EnginePC, RowState, State, NodeOrNone
<1>2. IdleThread \in Thread
  BY <1>1, Zero DEF IdleThread, Thread
<1>3. IdleEngine \in EngineThread
  BY <1>1, Zero, NoDescType DEF IdleEngine, EngineThread
<1> QED
  BY <1>2, <1>3

LEMMA GotoIs ==
  ASSUME ThreadInv, NEW c \in Clients, NEW pc \in RequestPC, Goto(c, pc)
  PROVE  /\ ThreadInv' /\ \A d \in Clients : d # c => th'[d] = th[d]
         /\ th'[c].pc = pc /\ th'[c].st = th[c].st /\ th'[c].node = th[c].node
         /\ th'[c].tgt = th[c].tgt /\ th'[c].gen = th[c].gen
<1>1. PICK t : t = [th[c] EXCEPT !.pc = pc]
  BY Zenon
<1>2. th[c] \in Thread
  BY Zenon DEF ThreadInv
<1>3. /\ t \in Thread /\ t.pc = pc /\ t.st = th[c].st /\ t.node = th[c].node
      /\ t.tgt = th[c].tgt /\ t.gen = th[c].gen
  BY Zenon, <1>1, <1>2 DEF Thread
<1>4. th' = [th EXCEPT ![c] = t]
  BY <1>1 DEF Goto
<1> QED
  BY Zenon, <1>3, <1>4, ThreadSet

LEMMA ReturnIs ==
  ASSUME ThreadInv, NEW c \in Clients, Return(c)
  PROVE  ThreadInv' /\ th'[c] = IdleThread /\ \A d \in Clients : d # c => th'[d] = th[d]
BY Zenon, IdleIs, ThreadSet DEF Return

\* Request c goes on at pc with the answer's generation, or returns.
Moves(c, pc, g) ==
  /\ ThreadInv' /\ \A d \in Clients : d # c => th'[d] = th[d]
  /\ \/ pc = "idle" /\ th'[c] = IdleThread
     \/ /\ pc # "idle" /\ th'[c].pc = pc /\ th'[c].gen = g /\ th'[c].st = th[c].st
        /\ th'[c].node = th[c].node /\ th'[c].tgt = th[c].tgt

LEMMA CallIs ==
  ASSUME ThreadInv, NEW c \in Clients, NEW n, NEW outs,
         NEW pcOk \in RequestPC, NEW pcErr \in RequestPC,
         \A o \in Answers(n, outs) : o \in Outcome,
         CallFor(c, n, outs, pcOk, pcErr)
  PROVE  /\ row' = row /\ cold' = cold /\ eng' = eng /\ acked' = acked /\ UNCHANGED cluster
         /\ \E o \in Answers(n, outs) :
              Effect(n, o) /\ Moves(c, IF o.ok THEN pcOk ELSE pcErr, o.gen)
<1> row' = row /\ cold' = cold /\ eng' = eng /\ acked' = acked /\ UNCHANGED cluster
  BY DEF CallFor
<1>1. PICK o \in Answers(n, outs) :
        /\ Effect(n, o)
        /\ th' = [th EXCEPT ![c] = IF (IF o.ok THEN pcOk ELSE pcErr) = "idle" THEN IdleThread
                                   ELSE [@ EXCEPT !.pc = (IF o.ok THEN pcOk ELSE pcErr), !.gen = o.gen]]
  BY Zenon DEF CallFor
<1>2. PICK pc \in RequestPC : pc = IF o.ok THEN pcOk ELSE pcErr
  BY Zenon
<1>3. CASE pc = "idle"
  <2>1. th' = [th EXCEPT ![c] = IdleThread]
    BY Zenon, <1>1, <1>2, <1>3
  <2>2. Moves(c, pc, o.gen)
    BY Zenon, <1>3, <2>1, IdleIs, ThreadSet DEF Moves
  <2> QED
    BY Zenon, <1>1, <1>2, <2>2
<1>4. CASE pc # "idle"
  <2>1. PICK t : t = [th[c] EXCEPT !.pc = pc, !.gen = o.gen]
    BY Zenon
  <2>2. o.gen \in Gens /\ th[c] \in Thread
    BY Zenon DEF Outcome, ThreadInv
  <2>3. /\ t \in Thread /\ t.pc = pc /\ t.gen = o.gen /\ t.st = th[c].st
        /\ t.node = th[c].node /\ t.tgt = th[c].tgt
    BY Zenon, <2>1, <2>2 DEF Thread
  <2>4. th' = [th EXCEPT ![c] = t]
    BY <1>1, <1>2, <1>4, <2>1
  <2>5. ThreadInv' /\ th'[c] = t /\ \A d \in Clients : d # c => th'[d] = th[d]
    BY Zenon, <2>3, <2>4, ThreadSet
  <2>6. Moves(c, pc, o.gen)
    BY Zenon, <1>4, <2>3, <2>5 DEF Moves
  <2> QED
    BY Zenon, <1>1, <1>2, <2>6
<1> QED
  BY Zenon, <1>3, <1>4

\* A call of request c that changed node n and L1 as o says.
Called(c, n, o, pc) ==
  /\ Move(AgentEntry(n), o) /\ Effect(n, o) /\ Moves(c, pc, o.gen)
  /\ row' = row /\ cold' = cold /\ eng' = eng /\ acked' = acked /\ UNCHANGED cluster

LEMMA CallKeeps ==
  ASSUME Inv, NEW c, NEW n, NEW o, NEW pc, Called(c, n, o, pc)
  PROVE  Inv'
<1>1. PICK e : e = AgentEntry(n)
  BY Zenon
<1>2. e \in Entry \cup {NoEntry} /\ Fits(e, gen)
  BY Zenon, <1>1, EntryOK DEF Inv
<1>3. OutOK(o)
  BY Zenon, <1>1, <1>2, MoveOK DEF Called, Inv
<1>4. /\ Effect(n, o) /\ row' = row /\ cold' = cold /\ eng' = eng /\ acked' = acked
      /\ UNCHANGED cluster
  BY Zenon DEF Called
<1>5. HistInv' /\ AgentInv' /\ StoreInv' /\ gen \in Nat /\ gen' \in Nat /\ gen <= gen'
  BY Zenon, <1>3, <1>4, EffectOK DEF Inv
<1>6. EngineInv'
  <2>1. Numbered(eng.desc, gen) => Numbered(eng.desc, gen')
    BY Zenon, <1>5, Grows
  <2> QED
    BY Zenon, <1>4, <2>1 DEF EngineInv, Inv
<1>7. RowInv' /\ NodeInv'
  BY <1>4 DEF RowInv, NodeInv, Inv, cluster
<1> QED
  BY Zenon, <1>5, <1>6, <1>7 DEF Inv, Called, Moves

-----------------------------------------------------------------------------
(* Row writes *)

LEMMA SetStateIs ==
  ASSUME RowInv, NEW to \in RowState, SetState(to)
  PROVE  RowInv' /\ row'.state = to /\ row'.node = row.node
BY Zenon DEF SetState, RowInv

LEMMA SetNodeIs ==
  ASSUME RowInv, NEW n \in NodeOrNone, row' = [row EXCEPT !.node = n]
  PROVE  RowInv' /\ row'.node = n /\ row'.state = row.state
BY Zenon DEF RowInv

LEMMA FailActiveIs ==
  ASSUME RowInv, NEW r, r = FailActive(row)
  PROVE  /\ r \in [state : RowState, node : NodeOrNone] /\ r.node = row.node
         /\ \/ r = row
            \/ row.state \in {"STARTING", "RUNNING", "RESUMING", "PAUSING"} /\ r.state = "FAILED"
<1>1. "FAILED" \in RowState
  BY DEF RowState, State
<1> QED
  BY Zenon, <1>1 DEF FailActive, RowInv

\* A step that leaves the agents and the stores alone.
Rests == UNCHANGED <<cluster, agent, l1, cold, eng, hist>>

LEMMA RestKeeps ==
  ASSUME Inv, RowInv', ThreadInv', UNCHANGED <<cluster, agent, l1, cold, eng, gen>>, acked' \in Gens
  PROVE  Inv'
<1>1. /\ up' = up /\ reach' = reach /\ reports' = reports /\ agent' = agent /\ l1' = l1
      /\ cold' = cold /\ eng' = eng /\ gen' = gen
  BY DEF cluster
<1>2. NodeInv' /\ AgentInv' /\ StoreInv' /\ EngineInv' /\ HistInv'
  BY Zenon, <1>1 DEF NodeInv, AgentInv, StoreInv, EngineInv, HistInv, Inv
<1> QED
  BY Zenon, <1>2 DEF Inv

\* The row's part of a write or a claim, and where the request goes on.
LEMMA WriteIs ==
  ASSUME RowInv, ThreadInv, HistInv, NEW c \in Clients, NEW to \in RowState,
         NEW pcOk \in RequestPC, NEW pcErr \in RequestPC, WriteFor(c, to, pcOk, pcErr)
  PROVE  /\ UNCHANGED <<cluster, agent, l1, cold, eng, gen>> /\ RowInv' /\ row'.node = row.node
         /\ acked' \in Gens
         /\ \/ /\ row'.state = to /\ Moves(c, pcOk, th[c].gen)
               /\ acked' = acked \/ (to = "PAUSED_HOT" /\ acked' = th[c].gen)
               /\ to = "PAUSED_HOT" => acked' >= th[c].gen
            \/ "db" \in Faults /\ UNCHANGED <<row, acked>> /\ Moves(c, pcErr, th[c].gen)
<1>1. th[c].gen \in Gens /\ acked \in Gens
  BY Zenon DEF ThreadInv, Thread, HistInv
<1>2. ASSUME NEW pc \in RequestPC, IF pc = "idle" THEN Return(c) ELSE Goto(c, pc)
      PROVE  Moves(c, pc, th[c].gen)
  <2>1. CASE pc = "idle"
    BY Zenon, <1>2, <2>1, ReturnIs DEF Moves
  <2>2. CASE pc # "idle"
    BY Zenon, <1>2, <2>2, GotoIs DEF Moves
  <2> QED
    BY Zenon, <2>1, <2>2
<1>3. UNCHANGED <<cluster, agent, l1, cold, eng, gen>>
  BY DEF WriteFor
<1>4. CASE /\ SetState(to)
           /\ acked' = IF to = "PAUSED_HOT" /\ th[c].gen > acked THEN th[c].gen ELSE acked
           /\ IF pcOk = "idle" THEN Return(c) ELSE Goto(c, pcOk)
  <2>1. RowInv' /\ row'.state = to /\ row'.node = row.node
    BY Zenon, <1>4, SetStateIs
  <2>2. /\ acked' \in Gens /\ (acked' = acked \/ (to = "PAUSED_HOT" /\ acked' = th[c].gen))
        /\ to = "PAUSED_HOT" => acked' >= th[c].gen
    BY <1>1, <1>4 DEF Gens
  <2> QED
    BY Zenon, <1>2, <1>3, <1>4, <2>1, <2>2
<1>5. CASE /\ "db" \in Faults /\ UNCHANGED <<row, acked>>
           /\ IF pcErr = "idle" THEN Return(c) ELSE Goto(c, pcErr)
  <2>1. row' = row /\ acked' = acked
    BY <1>5
  <2> QED
    BY Zenon, <1>1, <1>2, <1>3, <1>5, <2>1 DEF RowInv
<1> QED
  BY Zenon, <1>4, <1>5 DEF WriteFor

LEMMA ClaimIs ==
  ASSUME RowInv, ThreadInv, NEW c \in Clients, NEW from, NEW to \in RowState,
         NEW pcOk \in RequestPC, pcOk # "idle", ClaimFor(c, from, to, pcOk)
  PROVE  /\ Rests /\ RowInv' /\ row'.node = row.node
         /\ \/ row.state = from /\ row'.state = to /\ Moves(c, pcOk, th[c].gen)
            \/ row.state # from /\ row' = row /\ Moves(c, "idle", th[c].gen)
<1>1. CASE row.state = from /\ SetState(to) /\ Goto(c, pcOk)
  <2>1. RowInv' /\ row'.state = to /\ row'.node = row.node
    BY Zenon, <1>1, SetStateIs
  <2>2. Moves(c, pcOk, th[c].gen)
    BY Zenon, <1>1, GotoIs DEF Moves
  <2> QED
    BY Zenon, <1>1, <2>1, <2>2 DEF ClaimFor, Rests
<1>2. CASE row.state # from /\ row' = row /\ Return(c)
  <2>1. Moves(c, "idle", th[c].gen)
    BY Zenon, <1>2, ReturnIs DEF Moves
  <2> QED
    BY Zenon, <1>2, <2>1 DEF ClaimFor, Rests, RowInv
<1> QED
  BY Zenon, <1>1, <1>2 DEF ClaimFor

LEMMA BeginIs ==
  ASSUME RowInv, ThreadInv, NEW c \in Clients, NEW pc \in RequestPC, NEW tgt \in NodeOrNone,
         Begin(c, pc, tgt)
  PROVE  /\ ThreadInv' /\ \A d \in Clients : d # c => th'[d] = th[d]
         /\ th[c].pc = "idle" /\ th'[c].pc = pc /\ th'[c].st = row.state
         /\ th'[c].node = row.node /\ th'[c].tgt = tgt /\ th'[c].gen = 0
<1>1. PICK t : t = [pc |-> pc, st |-> row.state, node |-> row.node, tgt |-> tgt, gen |-> 0]
  BY Zenon
<1>2. row.state \in RowState /\ row.node \in NodeOrNone
  BY Zenon DEF RowInv
<1>3. /\ t \in Thread /\ t.pc = pc /\ t.st = row.state /\ t.node = row.node /\ t.tgt = tgt
      /\ t.gen = 0
  BY <1>1, <1>2, Zero DEF Thread
<1>4. th' = [th EXCEPT ![c] = t]
  BY Zenon, <1>1 DEF Begin
<1> QED
  BY Zenon, <1>3, <1>4, ThreadSet DEF Begin, At

\* Placement: the row and the request name the chosen node, or the request fails.
Placing(c, prev, pc) ==
  \/ Goto(c, "fail") /\ UNCHANGED row
  \/ \E n \in Place(prev) :
       /\ row' = [row EXCEPT !.node = n]
       /\ th' = [th EXCEPT ![c].pc = pc, ![c].node = n]

LEMMA PlaceIs ==
  ASSUME RowInv, ThreadInv, NodeInv, NEW c \in Clients, NEW prev, NEW pc \in RequestPC,
         Placing(c, prev, pc)
  PROVE  /\ RowInv' /\ ThreadInv' /\ row'.state = row.state
         /\ \A d \in Clients : d # c => th'[d] = th[d]
         /\ th'[c].st = th[c].st /\ th'[c].tgt = th[c].tgt /\ th'[c].gen = th[c].gen
         /\ \/ row' = row /\ th'[c].pc = "fail" /\ th'[c].node = th[c].node
            \/ /\ th'[c].pc = pc /\ th'[c].node = row'.node
               /\ row'.node \in Place(prev) /\ row'.node \in Nodes /\ up[row'.node]
<1>1. CASE Goto(c, "fail") /\ UNCHANGED row
  <2>1. "fail" \in RequestPC
    BY DEF RequestPC
  <2> QED
    BY Zenon, <1>1, <2>1, GotoIs DEF RowInv
<1>2. ASSUME NEW n \in Place(prev), row' = [row EXCEPT !.node = n],
             th' = [th EXCEPT ![c].pc = pc, ![c].node = n]
      PROVE  /\ RowInv' /\ ThreadInv' /\ row'.state = row.state
             /\ \A d \in Clients : d # c => th'[d] = th[d]
             /\ th'[c].st = th[c].st /\ th'[c].tgt = th[c].tgt /\ th'[c].gen = th[c].gen
             /\ th'[c].pc = pc /\ th'[c].node = row'.node
             /\ row'.node \in Place(prev) /\ row'.node \in Nodes /\ up[row'.node]
  <2>1. n \in Nodes /\ up[n]
    BY DEF Place
  <2>2. PICK t : t = [th[c] EXCEPT !.pc = pc, !.node = n]
    BY Zenon
  <2>3. th[c] \in Thread /\ n \in NodeOrNone
    BY Zenon, <2>1 DEF ThreadInv, NodeOrNone
  <2>4. /\ t \in Thread /\ t.pc = pc /\ t.st = th[c].st /\ t.node = n /\ t.tgt = th[c].tgt
        /\ t.gen = th[c].gen
    BY Zenon, <2>2, <2>3 DEF Thread
  <2>5. th' = [th EXCEPT ![c] = t]
    BY Zenon, <1>2, <2>2
  <2>6. RowInv' /\ row'.node = n /\ row'.state = row.state
    BY Zenon, <1>2, <2>3, SetNodeIs
  <2> QED
    BY Zenon, <2>1, <2>4, <2>5, <2>6, ThreadSet
<1> QED
  BY Zenon, <1>1, <1>2 DEF Placing

-----------------------------------------------------------------------------
(* The requests *)

\* What the outcomes of a call must satisfy for the call to be a Called step.
LEMMA CallDoes ==
  ASSUME Inv, NEW c \in Clients, NEW n, NEW e, e = AgentEntry(n), NEW outs,
         NEW pcOk \in RequestPC, NEW pcErr \in RequestPC,
         \A p \in outs : Move(e, p),
         CallFor(c, n, outs, pcOk, pcErr)
  PROVE  \E o \in Answers(n, outs) : Called(c, n, o, IF o.ok THEN pcOk ELSE pcErr)
<1>1. AgentInv /\ StoreInv /\ ThreadInv
  BY Zenon DEF Inv
<1>2. \A o \in Answers(n, outs) : Move(e, o)
  BY Zenon, <1>1, AnswersMove
<1>3. \A o \in Answers(n, outs) : o \in Outcome
  BY Zenon, <1>2 DEF Move
<1>4. /\ row' = row /\ cold' = cold /\ eng' = eng /\ acked' = acked /\ UNCHANGED cluster
      /\ \E o \in Answers(n, outs) :
           Effect(n, o) /\ Moves(c, IF o.ok THEN pcOk ELSE pcErr, o.gen)
  BY Zenon, <1>1, <1>3, CallIs
<1> QED
  BY Zenon, <1>2, <1>4 DEF Called

CallStep(c) ==
  \/ CreateBoot(c) \/ CreateOrphan(c) \/ PauseCall(c) \/ SnapshotCall(c) \/ KillCall(c)
  \/ ResumeRestore(c) \/ ResumeHot(c) \/ ResumeUndo(c)
  \/ MigratePause(c) \/ MigrateRelease(c) \/ MigrateRestore(c)

LEMMA PCs ==
  /\ "create.write" \in RequestPC /\ "fail" \in RequestPC /\ "pause.write" \in RequestPC
  /\ "idle" \in RequestPC /\ "kill.write" \in RequestPC /\ "resume.write" \in RequestPC
  /\ "migrate.paused" \in RequestPC /\ "migrate.aborted" \in RequestPC
  /\ "migrate.point" \in RequestPC /\ "migrate.write" \in RequestPC
BY DEF RequestPC

\* A request that goes on to record a pause has seen one succeed.
LEMMA CallsAre ==
  ASSUME Inv, NEW c \in Clients, CallStep(c)
  PROVE  \E n, o, pc :
           Called(c, n, o, pc) /\ (pc \in {"pause.write", "migrate.paused"} => o.gen # 0)
<1>1. HistInv /\ StoreInv /\ AgentInv /\ th[c] \in Thread
  BY Zenon DEF Inv, ThreadInv
<1>2. PICK e : e = AgentEntry(th[c].node)
  BY Zenon
<1>3. PICK f : f = AgentEntry(th[c].tgt)
  BY Zenon
<1>4. e \in Entry \cup {NoEntry} /\ Fits(e, gen) /\ f \in Entry \cup {NoEntry} /\ Fits(f, gen)
  BY Zenon, <1>1, <1>2, <1>3, EntryOK
<1>5. /\ \A o \in PauseSandbox(e, l1) : Move(e, o)
      /\ \A o \in SnapshotSandbox(e, l1) : Move(e, o)
      /\ \A o \in ResumeSandbox(e, l1) : Move(e, o)
      /\ \A o \in StopSandbox(e, l1) : Move(e, o)
      /\ \A o \in ReleaseLocal(e, l1) : Move(e, o)
      /\ \A o \in CreateSandbox(e, l1) : Move(e, o)
      /\ \A o \in RestoreSandbox(e, l1, RestoreTier(th[c].st)) : Move(e, o)
      /\ \A o \in RestoreSandbox(f, l1, "warm") : Move(f, o)
  <2>1. RestoreTier(th[c].st) \in {"warm", "cold"} /\ "warm" \in {"warm", "cold"}
    BY DEF RestoreTier
  <2> QED
    BY Zenon, <1>1, <1>4, <2>1, VerbsMove
<1>6. ASSUME NEW n, NEW x, x = AgentEntry(n), NEW outs, \A p \in outs : Move(x, p),
             NEW pcOk \in RequestPC, NEW pcErr \in RequestPC,
             pcOk \notin {"pause.write", "migrate.paused"},
             pcErr \notin {"pause.write", "migrate.paused"}, CallFor(c, n, outs, pcOk, pcErr)
      PROVE  \E m, o, pc :
               Called(c, m, o, pc) /\ (pc \in {"pause.write", "migrate.paused"} => o.gen # 0)
  BY Zenon, <1>6, CallDoes
<1>7. ASSUME NEW pcOk \in RequestPC, NEW pcErr \in RequestPC,
             pcErr \notin {"pause.write", "migrate.paused"},
             CallFor(c, th[c].node, PauseSandbox(e, l1), pcOk, pcErr)
      PROVE  \E m, o, pc :
               Called(c, m, o, pc) /\ (pc \in {"pause.write", "migrate.paused"} => o.gen # 0)
  <2>1. PICK o \in Answers(th[c].node, PauseSandbox(e, l1)) :
          Called(c, th[c].node, o, IF o.ok THEN pcOk ELSE pcErr)
    BY Zenon, <1>2, <1>5, <1>7, CallDoes
  <2>2. ASSUME o.ok PROVE o.gen # 0
    <3>1. \A p \in PauseSandbox(e, l1) : p \in Outcome
      BY Zenon, <1>5 DEF Move
    <3>2. PICK p \in PauseSandbox(e, l1) : Told(p, o)
      BY Zenon, <1>1, <2>1, <2>2, <3>1, AnswersIs
    <3>3. p.ok /\ o.gen = p.gen
      BY Zenon, <2>2, <3>2 DEF Told
    <3>4. l1 \in Objects
      BY Zenon, <1>1 DEF StoreInv
    <3>5. Whole(e, l1, p)
      BY Zenon, <1>1, <1>4, <3>2, <3>3, <3>4, PauseOuts
    <3>6. gen \in Nat /\ p.gen = gen + 1
      BY <1>1, <3>5, Zero DEF Whole, HistInv
    <3> QED
      BY <3>3, <3>6
  <2> QED
    BY Zenon, <1>7, <2>1, <2>2
<1>8. CASE CreateBoot(c)
  BY <1>2, <1>5, <1>6, <1>8, PCs DEF CreateBoot
<1>9. CASE CreateOrphan(c)
  BY <1>2, <1>5, <1>6, <1>9, PCs DEF CreateOrphan
<1>10. CASE PauseCall(c)
  BY <1>2, <1>7, <1>10, PCs DEF PauseCall
<1>11. CASE SnapshotCall(c)
  BY <1>2, <1>5, <1>6, <1>11, PCs DEF SnapshotCall
<1>12. CASE KillCall(c)
  BY <1>2, <1>5, <1>6, <1>12, PCs DEF KillCall
<1>13. CASE ResumeRestore(c)
  BY <1>2, <1>5, <1>6, <1>13, PCs DEF ResumeRestore
<1>14. CASE ResumeHot(c)
  BY <1>2, <1>5, <1>6, <1>14, PCs DEF ResumeHot
<1>15. CASE ResumeUndo(c)
  BY <1>2, <1>5, <1>6, <1>15, PCs DEF ResumeUndo
<1>16. CASE MigratePause(c)
  BY <1>2, <1>7, <1>16, PCs DEF MigratePause
<1>17. CASE MigrateRelease(c)
  BY <1>2, <1>5, <1>6, <1>17, PCs DEF MigrateRelease
<1>18. CASE MigrateRestore(c)
  BY <1>3, <1>5, <1>6, <1>18, PCs DEF MigrateRestore
<1> QED
  BY Zenon, <1>8, <1>9, <1>10, <1>11, <1>12, <1>13, <1>14, <1>15, <1>16, <1>17, <1>18 DEF CallStep

LEMMA BeginsKeep ==
  ASSUME Inv, NEW c \in Clients,
         \/ CreateBegin(c) \/ PauseBegin(c) \/ SnapshotBegin(c) \/ KillBegin(c)
         \/ ResumeBegin(c) \/ MigrateBegin(c)
  PROVE  Inv'
<1>1. /\ NoNode \in NodeOrNone /\ Nodes \subseteq NodeOrNone /\ "PENDING" \in RowState
      /\ {"create.place", "pause.call", "snapshot.call", "kill.call", "resume.claim",
          "migrate.claim", "migrate.warm"} \subseteq RequestPC
  BY DEF NodeOrNone, RequestPC, RowState, State
<1>2. RowInv /\ ThreadInv /\ acked \in Gens
  BY Zenon DEF Inv, HistInv
<1>3. \E pc \in RequestPC, tgt \in NodeOrNone : Begin(c, pc, tgt)
  <2>1. CASE MigrateBegin(c)
    <3>1. PICK tgt \in Nodes :
            Begin(c, IF row.state = "RUNNING" THEN "migrate.claim" ELSE "migrate.warm", tgt)
      BY Zenon, <2>1 DEF MigrateBegin
    <3>2. (IF row.state = "RUNNING" THEN "migrate.claim" ELSE "migrate.warm") \in RequestPC
      BY <1>1
    <3> QED
      BY Zenon, <1>1, <3>1, <3>2
  <2>2. CASE ~MigrateBegin(c)
    BY <1>1, <2>2 DEF CreateBegin, PauseBegin, SnapshotBegin, KillBegin, ResumeBegin
  <2> QED
    BY <2>1, <2>2
<1>4. ThreadInv'
  BY Zenon, <1>2, <1>3, BeginIs
<1>5. (SetState("PENDING") \/ row' = row) /\ UNCHANGED <<cluster, agent, l1, cold, eng, hist>>
  BY DEF CreateBegin, PauseBegin, SnapshotBegin, KillBegin, ResumeBegin, MigrateBegin
<1>6. RowInv' /\ UNCHANGED <<cluster, agent, l1, cold, eng, gen>> /\ acked' \in Gens
  <2>1. RowInv'
    BY Zenon, <1>1, <1>2, <1>5, SetStateIs DEF RowInv
  <2> QED
    BY <1>2, <1>5, <2>1 DEF hist
<1> QED
  BY Zenon, <1>4, <1>6, RestKeeps

LEMMA WritesKeep ==
  ASSUME Inv, NEW c \in Clients,
         \/ CreateWrite(c) \/ Fail(c) \/ PauseWrite(c) \/ KillWrite(c) \/ ResumeWrite(c)
         \/ MigrateAborted(c) \/ MigratePaused(c) \/ MigrateWrite(c)
  PROVE  Inv'
<1>1. \E to \in RowState, pcOk \in RequestPC, pcErr \in RequestPC : WriteFor(c, to, pcOk, pcErr)
  <2>1. /\ {"RUNNING", "FAILED", "PAUSED_HOT", "STOPPED"} \subseteq RowState
        /\ {"idle", "create.orphan", "resume.undo", "migrate.warm"} \subseteq RequestPC
    BY DEF RequestPC, RowState, State
  <2> QED
    BY <2>1 DEF CreateWrite, Fail, FailFor, PauseWrite, KillWrite, ResumeWrite,
                MigrateAborted, MigratePaused, MigrateWrite
<1>2. PICK to \in RowState, pcOk \in RequestPC, pcErr \in RequestPC : WriteFor(c, to, pcOk, pcErr)
  BY Zenon, <1>1
<1>3. RowInv /\ ThreadInv /\ HistInv
  BY Zenon DEF Inv
<1>4. /\ UNCHANGED <<cluster, agent, l1, cold, eng, gen>> /\ RowInv' /\ acked' \in Gens
      /\ Moves(c, pcOk, th[c].gen) \/ Moves(c, pcErr, th[c].gen)
  BY Zenon, <1>2, <1>3, WriteIs
<1> QED
  BY Zenon, <1>4, RestKeeps DEF Moves

LEMMA ClaimsKeep ==
  ASSUME Inv, NEW c \in Clients,
         \/ ResumeClaim(c) \/ MigrateClaim(c) \/ MigrateWarm(c) \/ MigrateResume(c)
         \/ CreatePlace(c) \/ ResumePlace(c) \/ MigratePoint(c)
  PROVE  Inv'
<1>1. RowInv /\ ThreadInv /\ NodeInv /\ acked \in Gens
  BY Zenon DEF Inv, HistInv
<1>2. ASSUME RowInv', ThreadInv', Rests PROVE Inv'
  <2>1. UNCHANGED <<cluster, agent, l1, cold, eng, gen>> /\ acked' \in Gens
    BY <1>1, <1>2 DEF Rests, hist
  <2> QED
    BY Zenon, <1>2, <2>1, RestKeeps
<1>3. CASE ResumeClaim(c) \/ MigrateClaim(c) \/ MigrateWarm(c) \/ MigrateResume(c)
  <2>1. \E from : \E to \in RowState, pc \in RequestPC : pc # "idle" /\ ClaimFor(c, from, to, pc)
    <3>1. /\ {"RESUMING", "PAUSING", "PAUSED_WARM"} \subseteq RowState
          /\ {"resume.place", "resume.hot", "migrate.pause", "migrate.release",
              "migrate.restore"} \subseteq RequestPC \ {"idle"}
      BY DEF RequestPC, RowState, State
    <3>2. CASE ResumeClaim(c)
      <4>1. PICK pc : pc = IF th[c].st \in RestoresAnywhere THEN "resume.place" ELSE "resume.hot"
        BY Zenon
      <4>2. pc \in RequestPC /\ pc # "idle"
        BY <3>1, <4>1
      <4> QED
        BY Zenon, <3>1, <3>2, <4>1, <4>2 DEF ResumeClaim
    <3>3. CASE MigrateClaim(c) \/ MigrateWarm(c) \/ MigrateResume(c)
      BY <3>1, <3>3 DEF MigrateClaim, MigrateWarm, MigrateResume
    <3> QED
      BY <1>3, <3>2, <3>3
  <2>2. Rests /\ RowInv' /\ ThreadInv'
    BY Zenon, <1>1, <2>1, ClaimIs DEF Moves
  <2> QED
    BY Zenon, <1>2, <2>2
<1>4. CASE CreatePlace(c) \/ ResumePlace(c)
  <2>1. Rests
    BY <1>4 DEF CreatePlace, ResumePlace, Rests
  <2>2. "create.boot" \in RequestPC /\ "resume.restore" \in RequestPC
    BY DEF RequestPC
  <2>3. RowInv' /\ ThreadInv'
    <3>1. CASE CreatePlace(c)
      <4>1. Placing(c, NoNode, "create.boot")
        BY Zenon, <3>1 DEF CreatePlace, Placing
      <4> QED
        BY Zenon, <1>1, <2>2, <4>1, PlaceIs
    <3>2. CASE ResumePlace(c)
      <4>1. Placing(c, th[c].node, "resume.restore")
        BY Zenon, <3>2 DEF ResumePlace, Placing
      <4> QED
        BY Zenon, <1>1, <2>2, <4>1, PlaceIs
    <3> QED
      BY Zenon, <1>4, <3>1, <3>2
  <2> QED
    BY Zenon, <1>2, <2>1, <2>3
<1>5. CASE MigratePoint(c)
  <2>1. Rests /\ "migrate.resume" \in RequestPC
    BY <1>5 DEF MigratePoint, Rests, RequestPC
  <2>2. Return(c) \/ Goto(c, "migrate.resume")
    BY Zenon, <1>5 DEF MigratePoint
  <2>3. ThreadInv'
    BY Zenon, <1>1, <2>1, <2>2, ReturnIs, GotoIs
  <2>4. th[c].tgt \in NodeOrNone
    BY Zenon, <1>1 DEF ThreadInv, Thread
  <2>5. RowInv'
    BY Zenon, <1>1, <1>5, <2>4, SetNodeIs DEF MigratePoint, RowInv
  <2> QED
    BY Zenon, <1>2, <2>1, <2>3, <2>5
<1> QED
  BY <1>3, <1>4, <1>5

LEMMA RequestKeeps ==
  ASSUME Inv, NEW c \in Clients, Request(c)
  PROVE  Inv'
BY Zenon, CallsAre, CallKeeps, BeginsKeep, WritesKeep, ClaimsKeep DEF Request, CallStep

-----------------------------------------------------------------------------
(* The engine *)

LEMMA EngineGotoIs ==
  ASSUME eng \in EngineThread, NEW pc \in EnginePC, EngineGoto(pc)
  PROVE  /\ eng' \in EngineThread /\ eng'.pc = pc
         /\ \/ pc = "idle" /\ eng' = IdleEngine
            \/ /\ pc # "idle" /\ eng'.node = eng.node /\ eng'.desc = eng.desc
               /\ eng'.gen = eng.gen
<1>1. CASE pc = "idle"
  <2>1. eng' = IdleEngine
    BY Zenon, <1>1 DEF EngineGoto
  <2> QED
    BY Zenon, <1>1, <2>1, IdleIs DEF IdleEngine
<1>2. CASE pc # "idle"
  <2>1. eng' = [eng EXCEPT !.pc = pc]
    BY Zenon, <1>2 DEF EngineGoto
  <2> QED
    BY Zenon, <1>2, <2>1 DEF EngineThread
<1> QED
  BY Zenon, <1>1, <1>2

\* The engine's thread after a step that does not start or go on with a copy.
Elsewhere == eng' \in EngineThread /\ eng'.pc \notin {"cold.copy", "cold.desc"}

LEMMA EngineStep ==
  ASSUME Inv, RowInv', StoreInv', EngineInv', UNCHANGED <<cluster, agent, th, hist>>
  PROVE  Inv'
<1>1. /\ up' = up /\ reach' = reach /\ reports' = reports /\ agent' = agent /\ th' = th
      /\ gen' = gen /\ acked' = acked
  BY DEF cluster, hist
<1>2. NodeInv' /\ AgentInv' /\ ThreadInv' /\ HistInv'
  BY Zenon, <1>1 DEF NodeInv, AgentInv, ThreadInv, HistInv, Inv
<1> QED
  BY Zenon, <1>2 DEF Inv

LEMMA DueIs ==
  ASSUME RowInv, EngineInv, NEW tier, NEW state, NEW pc \in EnginePC, Due(tier, state, pc)
  PROVE  /\ eng' \in EngineThread /\ eng'.pc = pc /\ eng'.node = row.node /\ tier \in Tiers
         /\ row.state = state /\ eng.pc = "idle"
         /\ UNCHANGED <<row, cluster, agent, l1, cold, th, hist>>
<1>1. row.node \in NodeOrNone /\ eng \in EngineThread
  BY Zenon DEF RowInv, EngineInv
<1>2. eng' = [eng EXCEPT !.pc = pc, !.node = row.node]
  BY Zenon DEF Due
<1>3. eng' \in EngineThread /\ eng'.pc = pc /\ eng'.node = row.node
  BY Zenon, <1>1, <1>2 DEF EngineThread
<1> QED
  BY Zenon, <1>3 DEF Due, EngineAt

LEMMA EngineCASIs ==
  ASSUME RowInv, EngineInv, NEW from, NEW to \in RowState, NEW pc \in EnginePC,
         EngineCAS(from, to, pc)
  PROVE  /\ RowInv' /\ row'.node = row.node /\ eng' \in EngineThread
         /\ UNCHANGED <<cluster, agent, l1, cold, th, hist>>
         /\ \/ /\ row.state = from /\ row'.state = to /\ eng'.pc = pc
               /\ pc # "idle" => eng'.node = eng.node
            \/ row.state # from /\ row' = row /\ eng'.pc = "idle"
<1>1. eng \in EngineThread /\ "idle" \in EnginePC
  BY DEF EngineInv, EnginePC
<1>2. CASE row.state = from /\ SetState(to) /\ EngineGoto(pc)
  BY Zenon, <1>1, <1>2, SetStateIs, EngineGotoIs DEF EngineCAS
<1>3. CASE row.state # from /\ row' = row /\ EngineGoto("idle")
  BY Zenon, <1>1, <1>3, EngineGotoIs DEF EngineCAS, RowInv
<1> QED
  BY Zenon, <1>2, <1>3 DEF EngineCAS

LEMMA TimersKeep ==
  ASSUME Inv,
         \/ WarmDue \/ ColdDue \/ RecycleDue
         \/ WarmCAS \/ WarmFail \/ ColdCAS \/ RecycleCAS
  PROVE  Inv'
<1>1. RowInv /\ EngineInv /\ StoreInv /\ HistInv
  BY Zenon DEF Inv
<1>2. ASSUME Elsewhere, RowInv', UNCHANGED <<cluster, agent, l1, cold, th, hist>> PROVE Inv'
  <2>1. EngineInv'
    BY Zenon, <1>2 DEF EngineInv, Elsewhere
  <2>2. l1' = l1 /\ cold' = cold /\ gen' = gen /\ UNCHANGED <<cluster, agent, th, hist>>
    BY <1>2 DEF hist
  <2>3. StoreInv'
    BY Zenon, <1>1, <2>2 DEF StoreInv
  <2> QED
    BY Zenon, <1>2, <2>1, <2>2, <2>3, EngineStep
<1>3. /\ {"warm.cas", "cold.read", "recycle.cas", "warm.release", "idle", "cold.list",
          "recycle.prune"} \subseteq EnginePC \ {"cold.copy", "cold.desc"}
      /\ {"PAUSED_WARM", "FAILED", "ARCHIVED_COLD", "RECYCLED"} \subseteq RowState
  BY DEF EnginePC, RowState, State
<1>4. CASE WarmDue \/ ColdDue \/ RecycleDue
  <2>1. \E tier, state : \E pc \in EnginePC \ {"cold.copy", "cold.desc"} : Due(tier, state, pc)
    BY <1>3, <1>4 DEF WarmDue, ColdDue, RecycleDue
  <2>2. PICK tier, state : \E pc \in EnginePC \ {"cold.copy", "cold.desc"} : Due(tier, state, pc)
    BY Zenon, <2>1
  <2>3. PICK pc \in EnginePC \ {"cold.copy", "cold.desc"} : Due(tier, state, pc)
    BY Zenon, <2>2
  <2>4. /\ eng' \in EngineThread /\ eng'.pc = pc
        /\ UNCHANGED <<row, cluster, agent, l1, cold, th, hist>>
    BY Zenon, <1>1, <2>3, DueIs
  <2>5. row' = row /\ UNCHANGED <<cluster, agent, l1, cold, th, hist>> /\ Elsewhere
    BY <2>3, <2>4 DEF Elsewhere
  <2> QED
    BY Zenon, <1>1, <1>2, <2>5 DEF RowInv
<1>5. CASE WarmCAS \/ WarmFail \/ ColdCAS \/ RecycleCAS
  <2>1. \E from : \E to \in RowState, pc \in EnginePC \ {"cold.copy", "cold.desc"} :
          EngineCAS(from, to, pc)
    BY <1>3, <1>5 DEF WarmCAS, WarmFail, ColdCAS, RecycleCAS
  <2>2. PICK from : \E to \in RowState, pc \in EnginePC \ {"cold.copy", "cold.desc"} :
          EngineCAS(from, to, pc)
    BY Zenon, <2>1
  <2>3. PICK to \in RowState, pc \in EnginePC \ {"cold.copy", "cold.desc"} : EngineCAS(from, to, pc)
    BY Zenon, <2>2
  <2>4. /\ RowInv' /\ eng' \in EngineThread /\ (eng'.pc = pc \/ eng'.pc = "idle")
        /\ UNCHANGED <<cluster, agent, l1, cold, th, hist>>
    BY Zenon, <1>1, <2>3, EngineCASIs
  <2>5. Elsewhere
    BY <2>3, <2>4 DEF Elsewhere
  <2> QED
    BY Zenon, <1>2, <2>4, <2>5
<1> QED
  BY <1>4, <1>5

LEMMA WarmReleaseKeeps ==
  ASSUME Inv, WarmRelease
  PROVE  Inv'
<1>1. PICK o \in Answers(eng.node, ReleaseLocal(AgentEntry(eng.node), l1)) :
        Effect(eng.node, o) /\ EngineGoto(IF o.ok THEN "idle" ELSE "warm.fail")
  BY Zenon DEF WarmRelease
<1>2. RowInv /\ NodeInv /\ ThreadInv /\ AgentInv /\ StoreInv /\ HistInv /\ EngineInv
  BY Zenon DEF Inv
<1>3. PICK e : e = AgentEntry(eng.node)
  BY Zenon
<1>4. e \in Entry \cup {NoEntry} /\ Fits(e, gen)
  BY Zenon, <1>2, <1>3, EntryOK
<1>5. OutOK(o)
  <2>1. \A p \in ReleaseLocal(e, l1) : Move(e, p)
    BY Zenon, <1>2, <1>4, VerbsMove
  <2>2. Move(e, o)
    BY Zenon, <1>1, <1>2, <1>3, <2>1, AnswersMove
  <2> QED
    BY Zenon, <1>2, <1>4, <2>2, MoveOK
<1>6. row' = row /\ cold' = cold /\ acked' = acked /\ th' = th /\ UNCHANGED cluster
  BY DEF WarmRelease
<1>7. HistInv' /\ AgentInv' /\ StoreInv'
  BY Zenon, <1>1, <1>2, <1>5, <1>6, EffectOK
<1>8. PICK pc \in EnginePC \ {"cold.copy", "cold.desc"} : EngineGoto(pc)
  <2>1. (IF o.ok THEN "idle" ELSE "warm.fail") \in EnginePC \ {"cold.copy", "cold.desc"}
    BY DEF EnginePC
  <2> QED
    BY Zenon, <1>1, <2>1
<1>9. eng' \in EngineThread /\ eng'.pc = pc
  BY Zenon, <1>2, <1>8, EngineGotoIs DEF EngineInv
<1>10. EngineInv'
  BY <1>8, <1>9 DEF EngineInv
<1>11. RowInv' /\ NodeInv' /\ ThreadInv'
  BY <1>2, <1>6 DEF RowInv, NodeInv, ThreadInv, cluster
<1> QED
  BY Zenon, <1>7, <1>10, <1>11 DEF Inv

LEMMA ArchiveKeeps ==
  ASSUME Inv, ColdRead \/ ColdCopy \/ ColdDesc
  PROVE  Inv'
<1>1. /\ RowInv /\ EngineInv /\ StoreInv /\ HistInv /\ eng \in EngineThread
      /\ l1 \in Objects /\ cold \in Objects
  <2>1. RowInv /\ EngineInv /\ StoreInv /\ HistInv
    BY Zenon DEF Inv
  <2> QED
    BY Zenon, <2>1 DEF EngineInv, StoreInv
<1>2. /\ row' = row /\ l1' = l1 /\ gen' = gen /\ UNCHANGED <<cluster, agent, th, hist>>
  BY Zenon DEF ColdRead, ColdCopy, ColdDesc, hist
<1>3. RowInv'
  BY Zenon, <1>1, <1>2 DEF RowInv
<1>4. /\ {"idle", "cold.copy", "cold.desc", "cold.cas"} \subseteq EnginePC
      /\ "idle" \in EnginePC /\ "cold.desc" \in EnginePC /\ "cold.cas" \in EnginePC
  BY DEF EnginePC
<1>5. IdleEngine \in EngineThread /\ IdleEngine.pc = "idle"
  BY IdleIs DEF IdleEngine
<1>6. CASE ColdRead
  <2>1. StoreInv'
    <3>1. cold' = cold
      BY <1>6 DEF ColdRead
    <3> QED
      BY Zenon, <1>1, <1>2, <3>1 DEF StoreInv
  <2>2. CASE ~LayersPresent(l1)
    <3>1. eng' = IdleEngine
      BY Zenon, <1>6, <2>2 DEF ColdRead
    <3>2. EngineInv'
      BY <1>5, <3>1 DEF EngineInv
    <3> QED
      BY Zenon, <1>2, <1>3, <2>1, <3>2, EngineStep
  <2>3. CASE LayersPresent(l1)
    <3>1. l1.desc # NoDesc
      BY <2>3 DEF LayersPresent, NoDesc
    <3>2. Numbered(l1.desc, gen) /\ IsNewest(l1.desc.seq, l1.desc.layers)
      BY Zenon, <1>1, <3>1 DEF StoreInv, Chained
    <3>3. l1.desc \in Descriptor /\ Content(l1) \in Gens
      BY Zenon, <1>1, <3>2, ContentIs DEF Numbered
    <3>4. eng' = [eng EXCEPT !.pc = "cold.copy", !.desc = l1.desc, !.gen = Content(l1)]
      BY Zenon, <1>6, <2>3 DEF ColdRead
    <3>5. "cold.copy" \in EnginePC
      BY <1>4
    <3>6. eng' \in EngineThread /\ eng'.desc = l1.desc
      BY Zenon, <1>1, <3>3, <3>4, <3>5 DEF EngineThread
    <3>7. EngineInv'
      BY Zenon, <1>2, <3>2, <3>6 DEF EngineInv
    <3> QED
      BY Zenon, <1>2, <1>3, <2>1, <3>7, EngineStep
  <2> QED
    BY Zenon, <2>2, <2>3
<1>7. CASE ColdCopy
  <2> DEFINE put(ts) == [t \in Layers |-> IF t \in ts THEN l1.disk[t] ELSE cold.disk[t]]
             store(ts) == [cold EXCEPT !.layer[0] = eng.gen, !.disk = put(ts)]
  <2>1. eng.gen \in Gens /\ 0 \in Tags
    BY Zenon, <1>1, Zero DEF EngineThread
  <2>2. \A ts : store(ts) \in Objects /\ store(ts).desc = cold.desc
    <3>1. SUFFICES ASSUME NEW ts PROVE store(ts) \in Objects /\ store(ts).desc = cold.desc
      BY Zenon
    <3>2. PICK lay : lay = [cold.layer EXCEPT ![0] = eng.gen]
      BY Zenon
    <3>3. PICK dis : dis = put(ts)
      BY Zenon
    <3>4. /\ cold.layer \in [Tags -> Gens] /\ cold.disk \in [Layers -> Gens]
          /\ l1.disk \in [Layers -> Gens]
      BY <1>1 DEF Objects
    <3>5. lay \in [Tags -> Gens] /\ dis \in [Layers -> Gens]
      BY <2>1, <3>2, <3>3, <3>4
    <3>6. PICK x : x = store(ts)
      BY Zenon
    <3>7. PICK y : y = [cold EXCEPT !.layer = lay]
      BY Zenon
    <3>8. y \in Objects /\ y.desc = cold.desc
      BY Zenon, <1>1, <3>5, <3>7 DEF Objects
    <3>9. x = [y EXCEPT !.disk = dis]
      BY <3>2, <3>3, <3>6, <3>7
    <3> HIDE DEF store
    <3>10. x \in Objects /\ x.desc = cold.desc
      BY Zenon, <3>5, <3>8, <3>9 DEF Objects
    <3> QED
      BY Zenon, <3>6, <3>10
  <2>3. cold' = cold \/ \E ts : cold' = store(ts)
    BY Zenon, <1>7 DEF ColdCopy
  <2> HIDE DEF store
  <2>4. cold' \in Objects /\ cold'.desc = cold.desc
    BY Zenon, <1>1, <2>2, <2>3
  <2>5. StoreInv'
    BY Zenon, <1>1, <1>2, <2>4 DEF StoreInv
  <2>6. eng.pc = "cold.copy" /\ (EngineGoto("idle") \/ EngineGoto("cold.desc"))
    BY Zenon, <1>7 DEF ColdCopy, EngineAt
  <2>7. eng' \in EngineThread /\ (eng'.pc = "idle" \/ eng'.desc = eng.desc)
    BY Zenon, <1>1, <1>4, <2>6, EngineGotoIs
  <2>8. EngineInv'
    BY <1>1, <1>2, <2>6, <2>7 DEF EngineInv
  <2> QED
    BY Zenon, <1>2, <1>3, <2>5, <2>8, EngineStep
<1>8. CASE ColdDesc
  <2>1. eng.pc = "cold.desc" /\ EngineGoto("cold.cas")
    BY Zenon, <1>8 DEF ColdDesc, EngineAt
  <2>2. eng' \in EngineThread /\ eng'.pc = "cold.cas"
    BY Zenon, <1>1, <1>4, <2>1, EngineGotoIs
  <2>3. EngineInv'
    BY <2>2 DEF EngineInv
  <2>4. Numbered(eng.desc, gen)
    BY Zenon, <1>1, <2>1 DEF EngineInv
  <2>5. PICK d : d = [eng.desc EXCEPT !.layers = {0}]
    BY Zenon
  <2>6. {0} \in SUBSET Tags
    BY Zero
  <2>7. d \in Descriptor /\ d.seq = eng.desc.seq /\ d.layers = {0}
    BY Zenon, <2>4, <2>5, <2>6 DEF Numbered, Descriptor
  <2>8. cold' = [cold EXCEPT !.desc = d]
    BY Zenon, <1>8, <2>5 DEF ColdDesc
  <2>9. cold' \in Objects /\ cold'.desc = d
    BY Zenon, <1>1, <2>7, <2>8 DEF Objects
  <2>10. Archived(d, gen)
    BY Zenon, <2>4, <2>7 DEF Archived, Numbered
  <2>11. StoreInv'
    BY Zenon, <1>1, <1>2, <2>9, <2>10 DEF StoreInv
  <2> QED
    BY Zenon, <1>2, <1>3, <2>3, <2>11, EngineStep
<1> QED
  BY <1>6, <1>7, <1>8

LEMMA PruneKeeps ==
  ASSUME Inv, ColdList \/ ColdPrune \/ ColdPruned \/ RecyclePrune
  PROVE  Inv'
<1>1. RowInv /\ EngineInv /\ StoreInv /\ HistInv
  BY Zenon DEF Inv
<1>2. /\ eng \in EngineThread /\ l1 \in Objects /\ cold \in Objects
      /\ Chained(l1.desc, gen) /\ Archived(cold.desc, gen)
  BY Zenon, <1>1 DEF EngineInv, StoreInv
<1>3. /\ row' = row /\ gen' = gen /\ UNCHANGED <<cluster, agent, th, hist>>
  BY DEF ColdList, ColdPrune, ColdPruned, RecyclePrune, hist
<1>4. ASSUME eng' \in EngineThread, eng'.pc \in {"idle", "cold.prune", "cold.pruned"},
             l1' \in Objects, l1'.desc \in {l1.desc, NoDesc},
             cold' \in Objects, cold'.desc \in {cold.desc, NoDesc}
      PROVE  Inv'
  <2>1. RowInv'
    BY Zenon, <1>1, <1>3 DEF RowInv
  <2>2. EngineInv'
    BY <1>4 DEF EngineInv
  <2>3. Chained(l1'.desc, gen) /\ Archived(cold'.desc, gen)
    BY Zenon, <1>2, <1>4, NoDescFits
  <2>4. StoreInv'
    BY Zenon, <1>3, <1>4, <2>3 DEF StoreInv
  <2> QED
    BY Zenon, <1>3, <2>1, <2>2, <2>4, EngineStep
<1>5. "idle" \in EnginePC /\ "cold.prune" \in EnginePC /\ "cold.pruned" \in EnginePC
  BY DEF EnginePC
<1>6. ASSUME EngineGoto("idle") \/ EngineGoto("cold.pruned")
      PROVE  eng' \in EngineThread /\ eng'.pc \in {"idle", "cold.prune", "cold.pruned"}
  BY Zenon, <1>2, <1>5, <1>6, EngineGotoIs
<1>7. CASE ColdList
  <2>1. PICK d : d = [seq |-> IF l1.desc = NoDesc THEN 0 ELSE 1,
                      layers |-> {t \in Tags : l1.layer[t] # 0},
                      disk |-> {t \in Layers : l1.disk[t] # 0}]
    BY Zenon
  <2>2. (IF l1.desc = NoDesc THEN 0 ELSE 1) \in Tags
    <3>1. CASE l1.desc = NoDesc
      BY <3>1, Zero
    <3>2. CASE l1.desc # NoDesc
      <4>1. Numbered(l1.desc, gen)
        BY Zenon, <1>2, <3>2 DEF Chained
      <4>2. l1.desc.seq \in Nat /\ 1 <= l1.desc.seq /\ l1.desc.seq <= gen
        BY Zenon, <4>1, Zero DEF Numbered, Descriptor
      <4>3. 1 \in Tags
        BY <1>1, <4>2, ConstantsAssumption DEF HistInv, Gens, Tags
      <4> QED
        BY Zenon, <3>2, <4>3
    <3> QED
      BY Zenon, <3>1, <3>2
  <2>3. d \in Descriptor
    BY <2>1, <2>2 DEF Descriptor
  <2>4. eng' = [eng EXCEPT !.pc = "cold.prune", !.desc = d]
    BY Zenon, <1>7, <2>1 DEF ColdList
  <2>5. eng' \in EngineThread /\ eng'.pc = "cold.prune"
    BY Zenon, <1>2, <1>5, <2>3, <2>4 DEF EngineThread
  <2>6. l1' = l1 /\ cold' = cold
    BY <1>7 DEF ColdList
  <2> QED
    BY Zenon, <1>2, <1>4, <2>5, <2>6
<1>8. CASE ColdPrune
  <2>1. PICK lay : lay = [t \in Tags |-> IF t \in eng.desc.layers THEN 0 ELSE l1.layer[t]]
    BY Zenon
  <2>2. PICK dis : dis = [t \in Layers |-> IF t \in eng.desc.disk THEN 0 ELSE l1.disk[t]]
    BY Zenon
  <2>3. lay \in [Tags -> Gens] /\ dis \in [Layers -> Gens]
    BY <1>2, <2>1, <2>2, Zero DEF Objects
  <2>4. PICK y : y = [l1 EXCEPT !.layer = lay]
    BY Zenon
  <2>5. y \in Objects /\ y.desc = l1.desc
    BY Zenon, <1>2, <2>3, <2>4 DEF Objects
  <2>6. PICK x : x = [y EXCEPT !.disk = dis]
    BY Zenon
  <2>7. x \in Objects /\ x.desc = l1.desc
    BY Zenon, <2>3, <2>5, <2>6 DEF Objects
  <2>8. l1' = x \/ l1' = l1
    <3>1. CASE UNCHANGED l1
      BY <3>1
    <3>2. CASE l1' = [l1 EXCEPT !.layer = [t \in Tags |-> IF t \in eng.desc.layers THEN 0 ELSE @[t]],
                                !.disk = [t \in Layers |-> IF t \in eng.desc.disk THEN 0 ELSE @[t]]]
      BY <2>1, <2>2, <2>4, <2>6, <3>2
    <3> QED
      BY Zenon, <1>8, <3>1, <3>2 DEF ColdPrune
  <2>9. l1' \in Objects /\ l1'.desc = l1.desc
    BY Zenon, <1>2, <2>7, <2>8
  <2>10. cold' = cold
    BY <1>8 DEF ColdPrune
  <2>11. EngineGoto("idle") \/ EngineGoto("cold.pruned")
    BY <1>8 DEF ColdPrune
  <2> QED
    BY Zenon, <1>2, <1>4, <1>6, <2>9, <2>10, <2>11
<1>9. CASE ColdPruned
  <2>1. EngineGoto("idle") /\ cold' = cold /\ (l1' = l1 \/ l1' = [l1 EXCEPT !.desc = NoDesc])
    BY Zenon, <1>9 DEF ColdPruned
  <2>2. l1' \in Objects /\ l1'.desc \in {l1.desc, NoDesc}
    BY Zenon, <1>2, <2>1, NoDescType DEF Objects
  <2> QED
    BY Zenon, <1>2, <1>4, <1>6, <2>1, <2>2
<1>10. CASE RecyclePrune
  <2>1. EngineGoto("idle") /\ l1' = l1 /\ (cold' = cold \/ cold' = NoObjects)
    BY Zenon, <1>10 DEF RecyclePrune
  <2> QED
    BY Zenon, <1>2, <1>4, <1>6, <2>1, NoObjectsType
<1> QED
  BY <1>7, <1>8, <1>9, <1>10

-----------------------------------------------------------------------------
(* The environment *)

LEMMA EnvironmentKeeps ==
  ASSUME Inv, Environment
  PROVE  Inv'
<1>1. RowInv /\ NodeInv /\ AgentInv /\ StoreInv /\ ThreadInv /\ EngineInv /\ HistInv
  BY Zenon DEF Inv
<1>2. ASSUME l1' = l1, cold' = cold, gen' = gen, acked' = acked PROVE StoreInv' /\ HistInv'
  BY Zenon, <1>1, <1>2 DEF StoreInv, HistInv
<1>3. CASE Restart
  <2>1. /\ th' = [c \in Clients |-> IdleThread] /\ eng' = IdleEngine
        /\ up' = [n \in Nodes |-> TRUE] /\ row' = row /\ reach' = reach /\ reports' = reports
        /\ agent' = agent /\ l1' = l1 /\ cold' = cold /\ gen' = gen /\ acked' = acked
    BY <1>3 DEF Restart, hist
  <2>2. ThreadInv' /\ NodeInv'
    BY <1>1, <2>1, IdleIs DEF ThreadInv, NodeInv
  <2>3. EngineInv'
    <3>1. IdleEngine.pc = "idle"
      BY DEF IdleEngine
    <3> QED
      BY <2>1, <3>1, IdleIs DEF EngineInv
  <2> QED
    BY Zenon, <1>1, <1>2, <2>1, <2>2, <2>3 DEF RowInv, AgentInv, Inv
<1>4. ASSUME NEW n \in Nodes,
             Reap(n) \/ Crash(n) \/ Cut(n) \/ Back(n) \/ Evict(n) \/ Poll(n)
      PROVE  Inv'
  <2>1. l1' = l1 /\ cold' = cold /\ gen' = gen /\ acked' = acked /\ th' = th /\ eng' = eng
    BY <1>4 DEF Reap, Crash, Cut, Back, Evict, Poll, others, hist
  <2>2. ThreadInv' /\ EngineInv'
    BY Zenon, <1>1, <2>1 DEF ThreadInv, EngineInv
  <2>3. agent' = agent \/ agent' = [agent EXCEPT ![n] = NoEntry]
    BY Zenon, <1>4 DEF Reap, Crash, Cut, Back, Evict, Poll
  <2>4. AgentInv'
    <3>1. CASE agent' = agent
      BY Zenon, <1>1, <2>1, <3>1 DEF AgentInv
    <3>2. CASE agent' = [agent EXCEPT ![n] = NoEntry]
      <4>1. /\ agent' \in [Nodes -> Entry \cup {NoEntry}]
            /\ \A m \in Nodes : agent'[m] = NoEntry \/ agent'[m] = agent[m]
        BY <1>1, <3>2 DEF AgentInv
      <4> QED
        BY Zenon, <1>1, <2>1, <4>1, NoEntryFits DEF AgentInv
    <3> QED
      BY Zenon, <2>3, <3>1, <3>2
  <2>5. NodeInv'
    <3>1. /\ up' = up \/ up' = [up EXCEPT ![n] = TRUE] \/ up' = [up EXCEPT ![n] = FALSE]
          /\ reach' = reach \/ reach' = [reach EXCEPT ![n] = TRUE]
               \/ reach' = [reach EXCEPT ![n] = FALSE]
          /\ reports' = reports \/ reports' = reports \cup {n} \/ reports' = reports \ {n}
      BY Zenon, <1>4 DEF Reap, Crash, Cut, Back, Evict, Poll
    <3> QED
      BY Zenon, <1>1, <3>1 DEF NodeInv
  <2>6. row' = row \/ row' = FailActive(row)
    BY Zenon, <1>4 DEF Reap, Crash, Cut, Back, Evict, Poll
  <2>7. RowInv'
    BY Zenon, <1>1, <2>6, FailActiveIs DEF RowInv
  <2> QED
    BY Zenon, <1>2, <2>1, <2>2, <2>4, <2>5, <2>7 DEF Inv
<1> QED
  BY Zenon, <1>3, <1>4 DEF Environment

LEMMA InitInv == Init => Inv
<1> SUFFICES ASSUME Init PROVE Inv
  OBVIOUS
<1>2. RowInv /\ NodeInv
  BY DEF Init, RowInv, NodeInv, RowState, NodeOrNone
<1>3. gen = 0 /\ acked = 0 /\ l1 = NoObjects /\ cold = NoObjects /\ eng = IdleEngine
  BY DEF Init
<1>4. HistInv /\ StoreInv
  BY Zenon, <1>3, Zero, NoObjectsType, NoDescFits DEF HistInv, StoreInv
<1>5. AgentInv
  BY NoEntryFits DEF Init, AgentInv
<1>6. ThreadInv
  BY IdleIs DEF Init, ThreadInv
<1>7. EngineInv
  <2>1. IdleEngine.pc = "idle"
    BY DEF IdleEngine
  <2> QED
    BY <1>3, <2>1, IdleIs DEF EngineInv
<1> QED
  BY Zenon, <1>2, <1>4, <1>5, <1>6, <1>7 DEF Inv

LEMMA NextInv == Inv /\ [Next]_vars => Inv'
<1> SUFFICES ASSUME Inv, [Next]_vars PROVE Inv'
  OBVIOUS
<1>2. CASE Engine
  BY Zenon, <1>2, TimersKeep, WarmReleaseKeeps, ArchiveKeeps, PruneKeeps DEF Engine
<1>3. CASE UNCHANGED vars
  <2>1. /\ row' = row /\ up' = up /\ reach' = reach /\ reports' = reports /\ agent' = agent
        /\ l1' = l1 /\ cold' = cold /\ th' = th /\ eng' = eng /\ gen' = gen /\ acked' = acked
    BY <1>3 DEF vars
  <2> QED
    BY Zenon, <2>1 DEF Inv, RowInv, NodeInv, AgentInv, StoreInv, ThreadInv, EngineInv, HistInv
<1> QED
  BY Zenon, <1>2, <1>3, RequestKeeps, EnvironmentKeeps DEF Next

LEMMA AlwaysInv == Spec => []Inv
BY InitInv, NextInv, PTL DEF Spec

\* Every variable keeps its type, whatever fails and however requests, engine
\* and nodes interleave: a tag counter never passes the number of snapshots,
\* so every name a descriptor or an agent holds is the name of an object.
THEOREM TypesKept == Spec => []TypeOK
<1>1. Inv => TypeOK
  BY Zenon DEF Inv, RowInv, NodeInv, AgentInv, StoreInv, ThreadInv, EngineInv, HistInv, TypeOK
<1> QED
  BY <1>1, AlwaysInv, PTL

-----------------------------------------------------------------------------
(***************************************************************************)
(* Without agent failures and before the cold tier, L1 always holds the    *)
(* newest snapshot, whole: every tag an agent or the descriptor names is   *)
(* there, so a later pause only overwrites a name with newer content.      *)
(***************************************************************************)
Held(s, tags, deltas) ==
  (\A t \in tags : s.layer[t] # 0) /\ (\A t \in deltas : s.disk[t] # 0)
Good(e, s) ==
  e # NoEntry => /\ Held(s, e.layers, e.disk)
                 /\ e.disk = {} \/ IsNewest(e.seq, e.disk)
Current(s, g) ==
  g > 0 => /\ s.desc # NoDesc /\ IsNewest(s.desc.seq, s.desc.disk)
           /\ s.layer[s.desc.seq] = g /\ s.disk[s.desc.seq] = g
Sound ==
  /\ cold = NoObjects
  /\ Held(l1, l1.desc.layers, l1.desc.disk) /\ Current(l1, gen)
  /\ \A n \in Nodes : Good(agent[n], l1)

PausedRow == row.state \in {"PAUSED_HOT", "PAUSED_WARM"}
Recording(t) == t.pc \in {"pause.write", "migrate.paused"}
Threads(g) == \A c \in Clients : th[c].gen <= g /\ (Recording(th[c]) => g > 0)
Records ==
  /\ acked <= gen /\ (PausedRow => gen > 0) /\ Threads(gen)
  /\ eng.pc \in {"idle", "warm.cas", "warm.release", "warm.fail", "recycle.cas", "recycle.prune"}

LEMMA SoundRestores ==
  ASSUME Inv, Sound, acked <= gen, gen > 0
  PROVE  Restorable(l1)
<1>1. /\ l1 \in Objects /\ Chained(l1.desc, gen) /\ l1.desc # NoDesc
      /\ IsNewest(l1.desc.seq, l1.desc.disk)
      /\ l1.layer[l1.desc.seq] = gen /\ l1.disk[l1.desc.seq] = gen
  BY DEF Inv, StoreInv, Sound, Current
<1>2. IsNewest(l1.desc.seq, l1.desc.layers)
  BY Zenon, <1>1 DEF Chained
<1>3. Content(l1) = gen
  BY <1>1, <1>2, ContentIs
<1>4. Newest(l1.desc.disk) = l1.desc.seq
  <2>1. l1.desc.disk \in SUBSET Tags
    BY Zenon, <1>1, Zero DEF Objects, Descriptor
  <2> QED
    BY <1>1, <2>1, NewestIs
<1>5. Complete(l1)
  BY Zenon, <1>2 DEF Complete, LayersPresent, Sound, Held, IsNewest
<1>6. gen \in Nat /\ acked \in Nat
  BY Zenon, Zero DEF Inv, HistInv
<1> QED
  BY <1>1, <1>3, <1>4, <1>5, <1>6 DEF Restorable

\* A verb that is carried out keeps L1 whole.
LEMMA MoveSound ==
  ASSUME "agent" \notin Faults, Inv, Sound, NEW n, NEW o, Move(AgentEntry(n), o),
         Effect(n, o), cold' = cold
  PROVE  /\ Sound' /\ gen \in Nat /\ gen' \in Nat /\ gen <= gen' /\ o.gen <= gen'
         /\ o.gen # 0 => gen' > 0
<1>1. PICK e : e = AgentEntry(n)
  BY Zenon
<1>2. /\ e \in Entry \cup {NoEntry} /\ Good(e, l1) /\ Move(e, o) /\ o \in Outcome
  BY Zenon, <1>1, EntryOK DEF Inv, Sound, AgentEntry, Good, Move
<1>3. /\ l1' = o.l1 /\ (o.gen = 0 => gen' = gen) /\ (o.gen # 0 => gen' = o.gen)
      /\ \A m \in Nodes : agent'[m] = IF m = n THEN o.e ELSE agent[m]
  BY Zenon DEF Effect
<1>4. gen \in Nat /\ l1 \in Objects /\ Chained(l1.desc, gen)
  BY Zenon, Zero DEF Inv, HistInv, StoreInv
<1>5. CASE Untouched(o, l1)
  <2>1. l1' = l1 /\ gen' = gen /\ o.gen = 0
    BY Zenon, <1>3, <1>5 DEF Untouched
  <2>2. ~Half(e, l1, o)
    BY Zenon DEF Half
  <2>3. ~Whole(e, l1, o)
    BY <1>4, <2>1 DEF Whole
  <2>4. ASSUME NEW m, Turned(e, l1, o, m) PROVE Good(o.e, l1)
    <3>1. e # NoEntry
      BY Zenon, <2>4, NoEntryFits DEF Turned
    <3> QED
      BY Zenon, <1>2, <2>4, <3>1 DEF Turned, Alike, Good
  <2>5. ASSUME Booted(o.e) PROVE Good(o.e, l1)
    BY <2>5 DEF Booted, Good, Held
  <2>6. ASSUME Fetched(l1, o.e, FALSE) PROVE Good(o.e, l1)
    <3>1. l1.desc # NoDesc
      BY <2>6 DEF Fetched, Complete, LayersPresent, NoDesc
    <3>2. l1.desc.seq \in Nat /\ 1 <= l1.desc.seq /\ l1.desc.seq <= gen
      BY Zenon, <1>4, <3>1, Zero DEF Chained, Numbered, Descriptor
    <3>3. gen > 0
      BY <1>4, <3>2
    <3> QED
      BY Zenon, <2>6, <3>3 DEF Fetched, Good, Sound, Current
  <2>7. ~Fetched(cold, o.e, TRUE)
    BY DEF Fetched, Complete, LayersPresent, Sound, NoObjects, NoDesc
  <2>8. Good(o.e, l1)
    BY Zenon, <1>2, <2>2, <2>3, <2>4, <2>5, <2>6, <2>7 DEF Move, Nothing, Gone, Good
  <2>9. \A m \in Nodes : Good(agent'[m], l1)
    BY Zenon, <1>3, <2>8 DEF Sound
  <2>10. Sound'
    BY Zenon, <2>1, <2>9 DEF Sound
  <2> QED
    BY <1>4, <2>1, <2>10
<1>6. CASE Whole(e, l1, o)
  <2>1. /\ gen < MaxGen /\ o.gen = gen + 1 /\ e \in Entry /\ Extends(e, o.e)
        /\ o.e.disk = e.disk \cup {o.e.seq} /\ Pushed(l1, o.e, o.l1)
    BY Zenon, <1>6 DEF Whole
  <2>2. /\ o.e \in Entry /\ o.e.seq = e.seq + 1 /\ o.e.seq \in Layers
        /\ o.e.layers \subseteq e.layers \cup {o.e.seq} /\ IsNewest(o.e.seq, o.e.layers)
    BY <2>1 DEF Extends
  <2>3. /\ o.l1 \in Objects /\ o.l1.desc.seq = o.e.seq /\ o.l1.desc.layers = o.e.layers
        /\ o.l1.desc.disk = o.e.disk
        /\ \A u \in Tags : u # o.e.seq => o.l1.layer[u] = l1.layer[u]
        /\ \A u \in Layers : u # o.e.seq => o.l1.disk[u] = l1.disk[u]
        /\ o.l1.layer[o.e.seq] = gen + 1 /\ o.l1.disk[o.e.seq] = gen + 1
    BY Zenon, <2>1 DEF Pushed
  <2>4. gen' = gen + 1 /\ gen + 1 # 0 /\ gen + 1 > 0 /\ gen + 1 \in Nat
    BY <1>3, <1>4, <2>1
  <2>5. ASSUME NEW L \in SUBSET Tags, NEW D \in SUBSET Layers, Held(l1, L, D)
        PROVE  Held(o.l1, L, D)
    BY Zenon, <2>3, <2>4, <2>5 DEF Held
  <2>6. e.layers \in SUBSET Tags /\ e.disk \in SUBSET Layers /\ e.seq \in Nat
    BY Zenon, <2>1, Zero DEF Entry
  <2>7. Held(o.l1, o.e.layers, o.e.disk)
    <3>1. Held(l1, e.layers, e.disk)
      BY Zenon, <1>2, <2>1, NoEntryFits DEF Good
    <3>2. Held(o.l1, e.layers, e.disk)
      BY Zenon, <2>5, <2>6, <3>1
    <3> QED
      BY <2>1, <2>2, <2>3, <2>4, <3>2 DEF Held
  <2>8. IsNewest(o.e.seq, o.e.disk)
    <3>1. \A u \in e.disk : u \in Nat /\ u <= e.seq
      <4>1. e.disk = {} \/ IsNewest(e.seq, e.disk)
        BY Zenon, <1>2, <2>1, NoEntryFits DEF Good
      <4>2. \A u \in e.disk : u \in Nat
        BY Zenon, <2>6, Zero
      <4> QED
        BY <4>1, <4>2 DEF IsNewest
    <3>2. o.e.seq \in Nat
      BY Zenon, <2>2, Zero
    <3>3. \A u \in e.disk \cup {o.e.seq} : u <= o.e.seq
      BY <2>2, <2>6, <3>1, <3>2
    <3> QED
      BY Zenon, <2>1, <3>3 DEF IsNewest
  <2>9. o.l1.desc # NoDesc
    BY <2>2, <2>3 DEF NoDesc, IsNewest
  <2>10. ASSUME NEW m \in Nodes PROVE Good(agent'[m], o.l1)
    <3>1. CASE m = n
      BY Zenon, <1>3, <2>7, <2>8, <3>1 DEF Good
    <3>2. CASE m # n
      <4>1. agent'[m] = agent[m] /\ Good(agent[m], l1)
        BY Zenon, <1>3, <3>2 DEF Sound
      <4>2. agent[m] \in Entry \cup {NoEntry}
        BY Zenon DEF Inv, AgentInv
      <4>3. agent[m] # NoEntry => agent[m].layers \in SUBSET Tags /\ agent[m].disk \in SUBSET Layers
        BY <4>2 DEF Entry
      <4> QED
        BY Zenon, <2>5, <4>1, <4>3 DEF Good
    <3> QED
      BY Zenon, <3>1, <3>2
  <2>11. Current(o.l1, gen + 1)
    BY Zenon, <2>3, <2>8, <2>9 DEF Current
  <2>12. Sound'
    BY Zenon, <1>3, <2>3, <2>4, <2>7, <2>10, <2>11 DEF Sound
  <2> QED
    BY <1>4, <2>1, <2>4, <2>12
<1>7. Untouched(o, l1) \/ Whole(e, l1, o)
  <2>1. ~Half(e, l1, o)
    BY Zenon DEF Half
  <2> QED
    BY Zenon, <1>2, <2>1 DEF Move, Nothing, Gone, Turned
<1> QED
  BY Zenon, <1>5, <1>6, <1>7

\* A request that moves on keeps its record of the snapshots taken.
LEMMA MovesRecords ==
  ASSUME Inv, Threads(gen), gen \in Nat, gen' \in Nat, gen <= gen',
         NEW c \in Clients, NEW pc, NEW g \in Nat, Moves(c, pc, g), g <= gen',
         pc \in {"pause.write", "migrate.paused"} => gen' > 0
  PROVE  Threads(gen)'
<1>1. ASSUME NEW d \in Clients PROVE th'[d].gen <= gen' /\ (Recording(th'[d]) => gen' > 0)
  <2>1. CASE d # c
    <3>1. th'[d] = th[d] /\ th[d].gen <= gen /\ (Recording(th[d]) => gen > 0)
      BY Zenon, <2>1 DEF Moves, Threads
    <3>2. th[d].gen \in Nat
      BY Zenon, Zero DEF Inv, ThreadInv, Thread
    <3> QED
      BY <3>1, <3>2
  <2>2. CASE d = c /\ pc = "idle"
    <3>1. th'[d] = IdleThread
      BY Zenon, <2>2 DEF Moves
    <3> QED
      BY <3>1 DEF IdleThread, Recording
  <2>3. CASE d = c /\ pc # "idle"
    BY Zenon, <2>3 DEF Moves, Recording
  <2> QED
    BY Zenon, <2>1, <2>2, <2>3
<1> QED
  BY Zenon, <1>1 DEF Threads

\* A step that takes no snapshot and at most loses entries.
LEMMA QuietSound ==
  ASSUME Sound, l1' = l1, gen' = gen, cold' = cold,
         \A n \in Nodes : agent'[n] = agent[n] \/ agent'[n] = NoEntry
  PROVE  Sound'
BY Zenon DEF Sound, Good

LEMMA RequestSound ==
  ASSUME "agent" \notin Faults, Inv, Sound, Records, NEW c \in Clients, Request(c)
  PROVE  Sound' /\ Records'
<1>1. /\ RowInv /\ ThreadInv /\ NodeInv /\ HistInv /\ gen \in Nat /\ acked \in Nat
      /\ th[c].gen \in Nat /\ th[c].gen <= gen /\ Threads(gen)
  BY Zenon, Zero DEF Inv, HistInv, ThreadInv, Thread, Records, Threads
<1>2. CASE CallStep(c)
  <2>1. PICK n, o, pc :
          Called(c, n, o, pc) /\ (pc \in {"pause.write", "migrate.paused"} => o.gen # 0)
    BY Zenon, <1>2, CallsAre
  <2>2. /\ Sound' /\ gen' \in Nat /\ gen <= gen' /\ o.gen <= gen' /\ (o.gen # 0 => gen' > 0)
    BY Zenon, <2>1, MoveSound DEF Called
  <2>3. o.gen \in Nat
    BY Zenon, <2>1, Zero DEF Called, Move, Outcome
  <2>4. Threads(gen)'
    BY Zenon, <1>1, <2>1, <2>2, <2>3, MovesRecords DEF Called
  <2>5. acked' = acked /\ row' = row /\ eng' = eng
    BY Zenon, <2>1 DEF Called
  <2> QED
    BY <1>1, <2>2, <2>4, <2>5 DEF Records, PausedRow
<1>3. ASSUME Sound', gen' = gen, acked' \in Nat, acked' <= gen, eng' = eng,
             PausedRow' => PausedRow \/ Recording(th[c]),
             NEW pc, NEW g \in {0, th[c].gen}, Moves(c, pc, g),
             pc \notin {"pause.write", "migrate.paused"}
      PROVE  Sound' /\ Records'
  <2>1. g \in Nat /\ g <= gen' /\ gen <= gen' /\ gen' \in Nat
    BY <1>1, <1>3
  <2>2. Threads(gen)'
    BY Zenon, <1>1, <1>3, <2>1, MovesRecords
  <2>3. PausedRow' => gen > 0
    BY Zenon, <1>3 DEF Records, Threads
  <2> QED
    BY Zenon, <1>3, <2>2, <2>3 DEF Records
<1>4. ASSUME UNCHANGED <<cluster, agent, l1, cold, eng, gen>>
      PROVE  Sound' /\ gen' = gen /\ eng' = eng
  <2>1. l1' = l1 /\ gen' = gen /\ cold' = cold /\ agent' = agent /\ eng' = eng
    BY <1>4
  <2> QED
    BY Zenon, <2>1, QuietSound
<1>5. ASSUME Rests PROVE Sound' /\ gen' = gen /\ eng' = eng /\ acked' = acked
  BY <1>4, <1>5 DEF Rests, hist
<1>6. CASE \/ CreateBegin(c) \/ PauseBegin(c) \/ SnapshotBegin(c) \/ KillBegin(c)
           \/ ResumeBegin(c) \/ MigrateBegin(c)
  <2>1. Rests /\ (SetState("PENDING") \/ row' = row)
    BY <1>6 DEF CreateBegin, PauseBegin, SnapshotBegin, KillBegin, ResumeBegin, MigrateBegin, Rests
  <2>2. PICK pc \in {"create.place", "pause.call", "snapshot.call", "kill.call", "resume.claim",
                     "migrate.claim", "migrate.warm"}, tgt \in NodeOrNone : Begin(c, pc, tgt)
    <3>1. CASE MigrateBegin(c)
      <4>1. PICK tgt \in Nodes :
              Begin(c, IF row.state = "RUNNING" THEN "migrate.claim" ELSE "migrate.warm", tgt)
        BY Zenon, <3>1 DEF MigrateBegin
      <4> QED
        BY <4>1 DEF NodeOrNone
    <3>2. CASE ~MigrateBegin(c)
      BY <1>6, <3>2 DEF CreateBegin, PauseBegin, SnapshotBegin, KillBegin, ResumeBegin, NodeOrNone
    <3> QED
      BY <3>1, <3>2
  <2>3. pc \in RequestPC /\ pc # "idle" /\ pc \notin {"pause.write", "migrate.paused"}
    BY <2>2 DEF RequestPC
  <2>4. /\ ThreadInv' /\ \A d \in Clients : d # c => th'[d] = th[d]
        /\ th'[c].pc = pc /\ th'[c].gen = 0
    BY Zenon, <1>1, <2>2, <2>3, BeginIs
  <2>5. PausedRow' => PausedRow
    <3>1. CASE row' = row
      BY Zenon, <3>1 DEF PausedRow
    <3>2. CASE SetState("PENDING")
      <4>1. "PENDING" \in RowState
        BY DEF RowState, State
      <4>2. row'.state = "PENDING"
        BY Zenon, <1>1, <3>2, <4>1, SetStateIs
      <4> QED
        BY <4>2 DEF PausedRow
    <3> QED
      BY Zenon, <2>1, <3>1, <3>2
  <2>6. Threads(gen)'
    <3>1. ASSUME NEW d \in Clients PROVE th'[d].gen <= gen /\ (Recording(th'[d]) => gen > 0)
      <4>1. CASE d = c
        BY <1>1, <2>3, <2>4, <4>1 DEF Recording
      <4>2. CASE d # c
        BY Zenon, <1>1, <2>4, <4>2 DEF Threads
      <4> QED
        BY Zenon, <4>1, <4>2
    <3> QED
      BY Zenon, <1>5, <2>1, <3>1 DEF Threads
  <2> QED
    BY Zenon, <1>5, <2>1, <2>5, <2>6 DEF Records
<1>7. CASE \/ CreateWrite(c) \/ Fail(c) \/ PauseWrite(c) \/ KillWrite(c) \/ ResumeWrite(c)
           \/ MigrateAborted(c) \/ MigratePaused(c) \/ MigrateWrite(c)
  <2>1. PICK to \in {"RUNNING", "FAILED", "PAUSED_HOT", "STOPPED"},
             pcOk \in {"idle", "create.orphan", "resume.undo", "migrate.warm"},
             pcErr \in {"idle", "create.orphan", "resume.undo", "migrate.warm"} :
          WriteFor(c, to, pcOk, pcErr) /\ (to = "PAUSED_HOT" => Recording(th[c]))
    BY <1>7 DEF CreateWrite, Fail, FailFor, PauseWrite, KillWrite, ResumeWrite,
                MigrateAborted, MigratePaused, MigrateWrite, Recording, At
  <2>2. to \in RowState /\ pcOk \in RequestPC /\ pcErr \in RequestPC
    BY <2>1 DEF RowState, State, RequestPC
  <2>3. /\ UNCHANGED <<cluster, agent, l1, cold, eng, gen>> /\ acked' \in Gens
        /\ \/ /\ row'.state = to /\ Moves(c, pcOk, th[c].gen)
              /\ acked' = acked \/ (to = "PAUSED_HOT" /\ acked' = th[c].gen)
           \/ UNCHANGED <<row, acked>> /\ Moves(c, pcErr, th[c].gen)
    BY Zenon, <1>1, <2>1, <2>2, WriteIs
  <2>4. acked' \in Nat /\ (acked' = acked \/ acked' = th[c].gen) /\ acked' <= gen
    <3>1. acked' = acked \/ acked' = th[c].gen
      BY <2>3
    <3> QED
      BY <1>1, <3>1 DEF Records
  <2>5. PausedRow' => PausedRow \/ Recording(th[c])
    BY <2>1, <2>3 DEF PausedRow
  <2>6. Moves(c, pcOk, th[c].gen) \/ Moves(c, pcErr, th[c].gen)
    BY Zenon, <2>3
  <2>7. pcOk \notin {"pause.write", "migrate.paused"} /\ pcErr \notin {"pause.write", "migrate.paused"}
    BY <2>1
  <2> QED
    BY Zenon, <1>3, <1>4, <2>3, <2>4, <2>5, <2>6, <2>7
<1>8. CASE ResumeClaim(c) \/ MigrateClaim(c) \/ MigrateWarm(c) \/ MigrateResume(c)
  <2>1. PICK from : \E to \in {"RESUMING", "PAUSING", "PAUSED_WARM"},
               pc \in {"resume.place", "resume.hot", "migrate.pause", "migrate.release", "migrate.restore"} :
          ClaimFor(c, from, to, pc) /\ (to = "PAUSED_WARM" => from = "PAUSED_HOT")
    BY <1>8 DEF ResumeClaim, MigrateClaim, MigrateWarm, MigrateResume
  <2>2. PICK to \in {"RESUMING", "PAUSING", "PAUSED_WARM"},
             pc \in {"resume.place", "resume.hot", "migrate.pause", "migrate.release", "migrate.restore"} :
          ClaimFor(c, from, to, pc) /\ (to = "PAUSED_WARM" => from = "PAUSED_HOT")
    BY Zenon, <2>1
  <2>3. /\ to \in RowState /\ pc \in RequestPC /\ pc # "idle"
        /\ pc \notin {"pause.write", "migrate.paused"} /\ "idle" \notin {"pause.write", "migrate.paused"}
    BY <2>2 DEF RowState, State, RequestPC
  <2>4. /\ Rests
        /\ \/ row.state = from /\ row'.state = to /\ Moves(c, pc, th[c].gen)
           \/ row.state # from /\ row' = row /\ Moves(c, "idle", th[c].gen)
    BY Zenon, <1>1, <2>2, <2>3, ClaimIs
  <2>5. PausedRow' => PausedRow
    BY <2>2, <2>4 DEF PausedRow
  <2>6. acked' \in Nat /\ acked' <= gen
    BY <1>1, <1>5, <2>4 DEF Records
  <2> QED
    BY Zenon, <1>3, <1>5, <2>3, <2>4, <2>5, <2>6
<1>9. CASE CreatePlace(c) \/ ResumePlace(c) \/ MigratePoint(c)
  <2>1. Rests
    BY <1>9 DEF CreatePlace, ResumePlace, MigratePoint, Rests
  <2>2. /\ row'.state = row.state /\ \A d \in Clients : d # c => th'[d] = th[d]
        /\ th'[c].gen \in {0, th[c].gen}
        /\ th'[c].pc \in {"fail", "create.boot", "resume.restore", "migrate.resume", "idle"}
    <3>1. CASE CreatePlace(c)
      <4>1. Placing(c, NoNode, "create.boot") /\ "create.boot" \in RequestPC
        BY Zenon, <3>1 DEF CreatePlace, Placing, RequestPC
      <4> QED
        BY Zenon, <1>1, <4>1, PlaceIs
    <3>2. CASE ResumePlace(c)
      <4>1. Placing(c, th[c].node, "resume.restore") /\ "resume.restore" \in RequestPC
        BY Zenon, <3>2 DEF ResumePlace, Placing, RequestPC
      <4> QED
        BY Zenon, <1>1, <4>1, PlaceIs
    <3>3. CASE MigratePoint(c)
      <4>1. Return(c) \/ Goto(c, "migrate.resume")
        BY Zenon, <3>3 DEF MigratePoint
      <4>2. "migrate.resume" \in RequestPC /\ IdleThread.pc = "idle" /\ IdleThread.gen = 0
        BY DEF RequestPC, IdleThread
      <4>3. th[c].tgt \in NodeOrNone
        BY Zenon, <1>1 DEF ThreadInv, Thread
      <4>4. row'.state = row.state
        BY Zenon, <1>1, <3>3, <4>3, SetNodeIs DEF MigratePoint
      <4> QED
        BY Zenon, <1>1, <4>1, <4>2, <4>4, ReturnIs, GotoIs
    <3> QED
      BY Zenon, <1>9, <3>1, <3>2, <3>3
  <2>3. Threads(gen)'
    <3>1. ASSUME NEW d \in Clients PROVE th'[d].gen <= gen /\ (Recording(th'[d]) => gen > 0)
      <4>1. CASE d = c
        BY <1>1, <2>2, <4>1 DEF Recording
      <4>2. CASE d # c
        BY Zenon, <1>1, <2>2, <4>2 DEF Threads
      <4> QED
        BY Zenon, <4>1, <4>2
    <3> QED
      BY Zenon, <1>5, <2>1, <3>1 DEF Threads
  <2> QED
    BY Zenon, <1>5, <2>1, <2>2, <2>3 DEF Records, PausedRow
<1> QED
  BY Zenon, <1>2, <1>6, <1>7, <1>8, <1>9 DEF Request, CallStep

LEMMA EngineSound ==
  ASSUME "agent" \notin Faults, "cold" \notin Tiers, Inv, Sound, Records, Engine
  PROVE  Sound' /\ Records'
<1>1. RowInv /\ ThreadInv /\ EngineInv /\ gen \in Nat /\ acked \in Nat /\ eng \in EngineThread
  BY Zenon, Zero DEF Inv, HistInv, EngineInv
<1>2. ASSUME th' = th, acked' = acked, gen' = gen, l1' = l1, agent' = agent,
             cold' \in {cold, NoObjects}, PausedRow' => PausedRow,
             eng'.pc \in {"idle", "warm.cas", "warm.release", "warm.fail", "recycle.cas", "recycle.prune"}
      PROVE  Sound' /\ Records'
  <2>1. cold' = cold
    BY Zenon, <1>2 DEF Sound
  <2> QED
    BY Zenon, <1>2, <2>1, QuietSound DEF Records, Threads
<1>3. ASSUME UNCHANGED <<cluster, agent, l1, cold, th, hist>>
      PROVE  /\ th' = th /\ acked' = acked /\ gen' = gen /\ l1' = l1 /\ agent' = agent
             /\ cold' \in {cold, NoObjects}
  BY <1>3 DEF hist
<1>4. CASE WarmDue \/ RecycleDue
  <2>1. PICK tier, state : \E pc \in {"warm.cas", "recycle.cas"} : Due(tier, state, pc)
    BY <1>4 DEF WarmDue, RecycleDue
  <2>2. PICK pc \in {"warm.cas", "recycle.cas"} : Due(tier, state, pc)
    BY Zenon, <2>1
  <2>3. pc \in EnginePC
    BY <2>2 DEF EnginePC
  <2>4. eng'.pc = pc /\ UNCHANGED <<row, cluster, agent, l1, cold, th, hist>>
    BY Zenon, <1>1, <2>2, <2>3, DueIs
  <2>5. /\ UNCHANGED <<cluster, agent, l1, cold, th, hist>> /\ (PausedRow' => PausedRow)
        /\ eng'.pc \in {"idle", "warm.cas", "warm.release", "warm.fail", "recycle.cas", "recycle.prune"}
    BY <2>2, <2>4 DEF PausedRow
  <2> QED
    BY Zenon, <1>2, <1>3, <2>5
<1>5. CASE WarmCAS \/ WarmFail \/ RecycleCAS
  <2>1. PICK from, to \in {"PAUSED_WARM", "FAILED", "RECYCLED", "PAUSED_HOT", "ARCHIVED_COLD"},
             pc \in {"warm.release", "idle", "recycle.prune"} :
          /\ EngineCAS(from, to, pc)
          /\ to \in {"PAUSED_WARM", "PAUSED_HOT"} => from \in {"PAUSED_WARM", "PAUSED_HOT"}
    BY <1>5 DEF WarmCAS, WarmFail, RecycleCAS
  <2>2. to \in RowState /\ pc \in EnginePC
    BY <2>1 DEF RowState, State, EnginePC
  <2>3. /\ UNCHANGED <<cluster, agent, l1, cold, th, hist>>
        /\ \/ row.state = from /\ row'.state = to /\ eng'.pc = pc
           \/ row.state # from /\ row' = row /\ eng'.pc = "idle"
    BY Zenon, <1>1, <2>1, <2>2, EngineCASIs
  <2>4. PausedRow' => PausedRow
    BY <2>1, <2>3 DEF PausedRow
  <2>5. eng'.pc \in {"idle", "warm.cas", "warm.release", "warm.fail", "recycle.cas", "recycle.prune"}
    BY <2>1, <2>3
  <2> QED
    BY Zenon, <1>2, <1>3, <2>3, <2>4, <2>5
<1>6. CASE WarmRelease
  <2>1. PICK o \in Answers(eng.node, ReleaseLocal(AgentEntry(eng.node), l1)) :
          Effect(eng.node, o) /\ EngineGoto(IF o.ok THEN "idle" ELSE "warm.fail")
    BY Zenon, <1>6 DEF WarmRelease
  <2>2. PICK e : e = AgentEntry(eng.node)
    BY Zenon
  <2>3. \A p \in ReleaseLocal(e, l1) : Move(e, p)
    BY Zenon, <2>2, EntryOK, VerbsMove DEF Inv
  <2>4. Move(e, o)
    BY Zenon, <2>1, <2>2, <2>3, AnswersMove DEF Inv
  <2>5. row' = row /\ cold' = cold /\ acked' = acked /\ th' = th
    BY <1>6 DEF WarmRelease
  <2>6. Sound' /\ gen' \in Nat /\ gen <= gen'
    BY Zenon, <2>1, <2>2, <2>4, <2>5, MoveSound
  <2>7. eng'.pc \in {"idle", "warm.fail"}
    <3>1. "idle" \in EnginePC /\ "warm.fail" \in EnginePC
      BY DEF EnginePC
    <3>2. EngineGoto("idle") \/ EngineGoto("warm.fail")
      BY Zenon, <2>1
    <3> QED
      BY Zenon, <1>1, <3>1, <3>2, EngineGotoIs
  <2>8. Threads(gen)'
    <3>1. ASSUME NEW d \in Clients PROVE th[d].gen <= gen' /\ (Recording(th[d]) => gen' > 0)
      <4>1. th[d].gen \in Nat /\ th[d].gen <= gen /\ (Recording(th[d]) => gen > 0)
        BY Zenon, <1>1, Zero DEF ThreadInv, Thread, Records, Threads
      <4> QED
        BY <1>1, <2>6, <4>1
    <3> QED
      BY Zenon, <2>5, <3>1 DEF Threads
  <2>9. acked <= gen' /\ (PausedRow => gen' > 0)
    BY <1>1, <2>6 DEF Records
  <2> QED
    BY <2>5, <2>6, <2>7, <2>8, <2>9 DEF Records, PausedRow
<1>7. CASE RecyclePrune
  <2>1. /\ row' = row /\ agent' = agent /\ l1' = l1 /\ th' = th /\ gen' = gen /\ acked' = acked
        /\ cold' \in {cold, NoObjects} /\ EngineGoto("idle") /\ "idle" \in EnginePC
    BY <1>7 DEF RecyclePrune, hist, EnginePC
  <2>2. eng'.pc = "idle" /\ (PausedRow' => PausedRow)
    BY Zenon, <1>1, <2>1, EngineGotoIs DEF PausedRow
  <2>3. eng'.pc \in {"idle", "warm.cas", "warm.release", "warm.fail", "recycle.cas", "recycle.prune"}
    BY <2>2
  <2> QED
    BY Zenon, <1>2, <2>1, <2>2, <2>3
<1>8. ~ColdDue
  BY Zenon DEF ColdDue, Due
<1>9. ~(ColdRead \/ ColdCopy \/ ColdDesc \/ ColdCAS \/ ColdList \/ ColdPrune \/ ColdPruned)
  BY Zenon DEF Records, ColdRead, ColdCopy, ColdDesc, ColdCAS, ColdList, ColdPrune, ColdPruned, EngineAt
<1> QED
  BY Zenon, <1>4, <1>5, <1>6, <1>7, <1>8, <1>9 DEF Engine

LEMMA EnvironmentSound ==
  ASSUME Inv, Sound, Records, Environment
  PROVE  Sound' /\ Records'
<1>1. /\ l1' = l1 /\ cold' = cold /\ gen' = gen /\ acked' = acked
      /\ \A n \in Nodes : agent'[n] = agent[n] \/ agent'[n] = NoEntry
      /\ row' = row \/ row' = FailActive(row)
      /\ (th' = th /\ eng' = eng) \/ (th' = [c \in Clients |-> IdleThread] /\ eng' = IdleEngine)
  <2>1. CASE Restart
    BY <2>1 DEF Restart, hist
  <2>2. ASSUME NEW n \in Nodes,
               Reap(n) \/ Crash(n) \/ Cut(n) \/ Back(n) \/ Evict(n) \/ Poll(n)
        PROVE  /\ l1' = l1 /\ cold' = cold /\ gen' = gen /\ acked' = acked
               /\ \A m \in Nodes : agent'[m] = agent[m] \/ agent'[m] = NoEntry
               /\ row' = row \/ row' = FailActive(row)
               /\ th' = th /\ eng' = eng
    <3>1. l1' = l1 /\ cold' = cold /\ gen' = gen /\ acked' = acked /\ th' = th /\ eng' = eng
      BY <2>2 DEF Reap, Crash, Cut, Back, Evict, Poll, others, hist
    <3>2. agent' = agent \/ agent' = [agent EXCEPT ![n] = NoEntry]
      BY Zenon, <2>2 DEF Reap, Crash, Cut, Back, Evict, Poll
    <3>3. \A m \in Nodes : agent'[m] = agent[m] \/ agent'[m] = NoEntry
      BY <3>2 DEF Inv, AgentInv
    <3>4. row' = row \/ row' = FailActive(row)
      BY Zenon, <2>2 DEF Reap, Crash, Cut, Back, Evict, Poll
    <3> QED
      BY Zenon, <3>1, <3>3, <3>4
  <2> QED
    BY Zenon, <2>1, <2>2 DEF Environment
<1>2. Sound'
  BY Zenon, <1>1, QuietSound
<1>3. PausedRow' => PausedRow
  <2>1. row' = row \/ row'.state = "FAILED"
    BY Zenon, <1>1, FailActiveIs DEF Inv
  <2> QED
    BY <2>1 DEF PausedRow
<1>4. gen \in Nat
  BY Zenon, Zero DEF Inv, HistInv
<1>5. CASE th' = th /\ eng' = eng
  BY Zenon, <1>1, <1>2, <1>3, <1>5 DEF Records, Threads
<1>6. CASE th' = [c \in Clients |-> IdleThread] /\ eng' = IdleEngine
  <2>1. Threads(gen)'
    BY <1>1, <1>4, <1>6 DEF Threads, IdleThread, Recording
  <2>2. eng'.pc = "idle"
    BY <1>6 DEF IdleEngine
  <2> QED
    BY <1>1, <1>2, <1>3, <2>1, <2>2 DEF Records
<1> QED
  BY Zenon, <1>1, <1>5, <1>6

LEMMA AlwaysSound ==
  ASSUME "agent" \notin Faults, "cold" \notin Tiers
  PROVE  Spec => [](Inv /\ Sound /\ Records)
<1>1. Init => Inv /\ Sound /\ Records
  <2> SUFFICES ASSUME Init PROVE Sound /\ Records
    BY InitInv
  <2>1. /\ gen = 0 /\ acked = 0 /\ l1 = NoObjects /\ cold = NoObjects /\ eng = IdleEngine
        /\ row.state = "NONE" /\ \A n \in Nodes : agent[n] = NoEntry
        /\ \A c \in Clients : th[c] = IdleThread
    BY DEF Init
  <2>2. Held(l1, l1.desc.layers, l1.desc.disk) /\ Current(l1, gen)
    BY <2>1 DEF Held, Current, NoObjects, NoDesc
  <2>3. Sound
    BY Zenon, <2>1, <2>2 DEF Sound, Good
  <2>4. Threads(gen)
    BY <2>1 DEF Threads, Recording, IdleThread
  <2>5. Records
    BY <2>1, <2>4 DEF Records, PausedRow, IdleEngine
  <2> QED
    BY <2>3, <2>5
<1>2. (Inv /\ Sound /\ Records) /\ [Next]_vars => (Inv /\ Sound /\ Records)'
  <2> SUFFICES ASSUME Inv, Sound, Records, [Next]_vars PROVE Sound' /\ Records'
    BY NextInv
  <2>1. CASE UNCHANGED vars
    <3>1. /\ row' = row /\ agent' = agent /\ l1' = l1 /\ cold' = cold /\ th' = th /\ eng' = eng
          /\ gen' = gen /\ acked' = acked
      BY <2>1 DEF vars
    <3> QED
      BY Zenon, <3>1, QuietSound DEF Records, Threads, PausedRow
  <2> QED
    BY Zenon, <2>1, RequestSound, EngineSound, EnvironmentSound DEF Next
<1> QED
  BY <1>1, <1>2, PTL DEF Spec

\* While no agent verb fails half way and nothing is archived, a HOT or WARM
\* row's last pause is whole in L1, for any number of nodes and of concurrent
\* requests of every kind, through crashes, partitions, lost answers, failed
\* row writes and API server restarts (pauseChunked, pauseSandbox,
\* migrateSandbox, demoteHotToWarm).
THEOREM PausedRestorableKept ==
  ASSUME "agent" \notin Faults, "cold" \notin Tiers
  PROVE  Spec => []PausedRestorable
<1>1. Inv /\ Sound /\ Records => PausedRestorable
  BY Zenon, SoundRestores DEF Records, PausedRow, PausedRestorable
<1> QED
  BY <1>1, AlwaysSound, PTL

\* Under the same conditions a FAILED sandbox that was ever paused can be
\* restored from L1, the store resumeSandbox takes it from.
THEOREM FailedRestorableKept ==
  ASSUME "agent" \notin Faults, "cold" \notin Tiers
  PROVE  Spec => []FailedRestorable
<1>1. Inv /\ Sound /\ Records => FailedRestorable
  <2> SUFFICES ASSUME Inv, Sound, Records, row.state = "FAILED" /\ acked > 0 PROVE Restorable(l1)
    BY DEF FailedRestorable
  <2>1. gen \in Nat /\ acked \in Nat
    BY Zenon, Zero DEF Inv, HistInv
  <2>2. acked <= gen /\ gen > 0
    BY <2>1 DEF Records
  <2> QED
    BY Zenon, <2>2, SoundRestores
<1> QED
  BY <1>1, AlwaysSound, PTL
==============================================================================
