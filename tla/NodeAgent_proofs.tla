--------------------------- MODULE NodeAgent_proofs ---------------------------
(***************************************************************************)
(* The pool of network slots stays sound for every pool size, every set of *)
(* sandboxes and any number of concurrent verbs: a slot given back twice,  *)
(* which the verbs do, is not put on the free stack twice.                 *)
(***************************************************************************)
EXTENDS NodeAgent, TLAPS

\* Setup leaves a sound pool.
LEMMA SetupSound == Sound(SetupPool)
<1> USE PoolAssumption
<1> DEFINE f == [i \in 1 .. Size |-> Base + i - 1]
<1>1. f \in Seq(Slots) /\ Len(f) = Size
  BY DEF Slots
<1>2. \A i \in 1 .. Size : f[i] = Base + i - 1
  OBVIOUS
<1>3. \A s \in Slots : s - Base + 1 \in 1 .. Size /\ f[s - Base + 1] = s
  BY <1>2 DEF Slots
<1>4. SetupPool \in Pool /\ SetupPool.free = f /\ SetupPool.used = {}
  BY <1>1 DEF SetupPool, Pool
<1>5. \A i, j \in 1 .. Size : f[i] = f[j] => i = j
  BY <1>2
<1>6. \A s \in Slots : \E i \in 1 .. Size : f[i] = s
  BY Zenon, <1>3
<1> HIDE DEF f
<1> QED
  BY <1>1, <1>4, <1>5, <1>6 DEF Sound

\* Acquire of a pool with a free slot leaves a sound pool.
LEMMA AcquireSound ==
  ASSUME NEW p, Sound(p), ~Exhausted(p)
  PROVE  Sound(Acquire(p))
<1> DEFINE n == Len(p.free)
           g == SubSeq(p.free, 1, n - 1)
           q == Acquire(p)
<1>1. /\ p.free \in Seq(Slots) /\ n \in Nat /\ n # 0
      /\ \A i \in 1 .. n : p.free[i] \in Slots
  BY DEF Sound, Pool, Exhausted
<1>2. /\ g \in Seq(Slots) /\ Len(g) = n - 1
      /\ \A i \in 1 .. n - 1 : g[i] = p.free[i]
  BY <1>1
<1>3. q.free = g /\ q.used = p.used \cup {p.free[n]} /\ q \in Pool
  BY <1>1, <1>2 DEF Acquire, Top, Pool, Sound
<1>4. \A i \in 1 .. n - 1 : p.free[i] # p.free[n]
  BY <1>1 DEF Sound
<1>5. \A s \in Slots : s \in q.used \/ \E i \in 1 .. Len(g) : g[i] = s
  <2> TAKE s \in Slots
  <2>1. CASE s \in p.used
    BY <2>1, <1>3
  <2>2. CASE s \notin p.used
    <3>1. PICK i \in 1 .. n : p.free[i] = s
      BY <2>2 DEF Sound
    <3> QED
      BY <3>1, <1>1, <1>2, <1>3
  <2> QED
    BY <2>1, <2>2
<1>6. \A i, j \in 1 .. Len(g) : g[i] = g[j] => i = j
  BY <1>1, <1>2 DEF Sound
<1>7. \A i \in 1 .. Len(g) : g[i] \notin q.used
  <2> TAKE i \in 1 .. Len(g)
  <2>1. i \in 1 .. n /\ g[i] = p.free[i] /\ p.free[i] # p.free[n]
    BY <1>1, <1>2, <1>4
  <2>2. p.free[i] \notin p.used
    BY <2>1 DEF Sound
  <2> QED
    BY <2>1, <2>2, <1>3
<1> HIDE DEF g, q
<1>8. Sound(q)
  BY <1>3, <1>5, <1>6, <1>7 DEF Sound
<1> QED
  BY <1>8 DEF q

\* Release leaves a sound pool, whether the slot is leased or not.
LEMMA ReleaseSound ==
  ASSUME NEW p, Sound(p), NEW id
  PROVE  Sound(Release(p, id))
<1> DEFINE n == Len(p.free)
           g == Append(p.free, id)
           q == Release(p, id)
<1>1. CASE id \notin p.used
  BY <1>1 DEF Release
<1>2. CASE id \in p.used
  <2>1. p.free \in Seq(Slots) /\ n \in Nat /\ id \in Slots
    BY <1>2 DEF Sound, Pool
  <2>2. /\ g \in Seq(Slots) /\ Len(g) = n + 1 /\ g[n + 1] = id
        /\ \A i \in 1 .. n : g[i] = p.free[i]
    BY <2>1
  <2>3. q.free = g /\ q.used = p.used \ {id} /\ q \in Pool
    BY <1>2, <2>2 DEF Release, Pool, Sound
  <2>4. \A i \in 1 .. n : p.free[i] # id
    BY <1>2 DEF Sound
  <2>5. \A i, j \in 1 .. Len(g) : g[i] = g[j] => i = j
    BY <2>1, <2>2, <2>4 DEF Sound
  <2>6. \A i \in 1 .. Len(g) : g[i] \notin q.used
    BY <2>1, <2>2, <2>3 DEF Sound
  <2>7. \A s \in Slots : s \in q.used \/ \E i \in 1 .. Len(g) : g[i] = s
    BY <2>1, <2>2, <2>3 DEF Sound
  <2> QED
    BY <2>2, <2>3, <2>5, <2>6, <2>7 DEF Sound
<1> QED
  BY <1>1, <1>2

\* No interleaving of the verbs and the watchdog makes a slot free twice, free
\* and leased at once, or lost to the pool (Pool.Acquire, Pool.release).
THEOREM PoolAlwaysSound == Spec => []PoolSound
<1>1. Init => PoolSound
  BY SetupSound DEF Init, PoolSound
<1>2. PoolSound /\ [Next]_vars => PoolSound'
  <2> SUFFICES ASSUME PoolSound, [Next]_vars PROVE PoolSound'
    OBVIOUS
  <2>1. CASE UNCHANGED pool
    BY <2>1 DEF PoolSound
  <2>2. ASSUME NEW t \in Workers, ReleaseLease(t) PROVE PoolSound'
    BY <2>2, ReleaseSound DEF ReleaseLease, PoolSound
  <2>3. ASSUME NEW t \in Workers, AcquireLease(t) PROVE PoolSound'
    <3>1. CASE Exhausted(pool)
      BY <2>3, <3>1 DEF AcquireLease, PoolSound
    <3>2. CASE ~Exhausted(pool)
      BY <2>3, <3>2, AcquireSound DEF AcquireLease, PoolSound
    <3> QED
      BY <3>1, <3>2
  <2>4. ASSUME Next,
               \A t \in Workers : ~ReleaseLease(t) /\ ~AcquireLease(t)
        PROVE UNCHANGED pool
    <3>1. ASSUME NEW t \in Threads, NEW id \in Ids,
                 BeginCreate(t, id) \/ BeginRestore(t, id)
                   \/ \E verb \in Verbs : BeginVerb(t, verb, id)
          PROVE UNCHANGED pool
      BY <3>1 DEF BeginCreate, BeginRestore, BeginVerb
    <3>2. ASSUME NEW id \in Ids, Scan(id) PROVE UNCHANGED pool
      BY <3>2 DEF Scan
    <3>3. ASSUME NEW t \in Workers, Kill(t) \/ ClearEgress(t) \/ Destroy(t) \/ Unbook(t)
          PROVE UNCHANGED pool
      BY <3>3 DEF Kill, ClearEgress, Destroy, Unbook
    <3>4. ASSUME NEW t \in Workers, Clone(t) \/ Boot(t) \/ Register(t) \/ CreateWait(t)
          PROVE UNCHANGED pool
      BY <3>4 DEF Clone, Boot, Register, CreateWait
    <3>5. ASSUME NEW t \in Workers, PauseSandbox(t) PROVE UNCHANGED pool
      BY <3>5 DEF PauseSandbox, Pausing, PauseVM, PausePush, PausedHot, AbortPause
    <3>6. ASSUME NEW t \in Workers, ResumeSandbox(t) PROVE UNCHANGED pool
      BY <3>6 DEF ResumeSandbox, ResumeGet, ResumeTo, ResumeUffd, ResumeFC,
                  ResumeRunning, ResumeWait, ResumeFail
    <3>7. ASSUME NEW t \in Workers, Other(t) PROVE UNCHANGED pool
      BY Zenon, <3>7 DEF Other, Stopping, ReleaseCAS, ReleaseDestroy, RestoreWait,
                  RestoreClear, Receive, Book, ReapCAS
    <3>8. ASSUME NEW o \in Objs, Die(o) PROVE UNCHANGED pool
      BY <3>8 DEF Die
    <3> QED
      BY <2>4, <3>1, <3>2, <3>3, <3>4, <3>5, <3>6, <3>7, <3>8
         DEF Next, Teardown, CreateSandbox
  <2>5. CASE UNCHANGED vars
    BY <2>5, <2>1 DEF vars
  <2> QED
    BY <2>1, <2>2, <2>3, <2>4, <2>5
<1> QED
  BY <1>1, <1>2, PTL DEF Spec
==============================================================================
