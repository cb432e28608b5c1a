------------------------------ MODULE NetnsPool ------------------------------
(***************************************************************************)
(* The pool of network namespaces (pkg/netns/pool.go): a stack of free     *)
(* slots and the set of leased ones.  Acquire pops, release pushes back a  *)
(* slot that is leased and ignores any other.                              *)
(***************************************************************************)
EXTENDS Naturals, Sequences

CONSTANTS
  Base,   \* Pool.base
  Size    \* Pool.size

ASSUME PoolAssumption == Base \in Nat /\ Size \in Nat

Slots == Base .. (Base + Size - 1)

Pool == [free : Seq(Slots), used : SUBSET Slots]

\* The pool after Setup: every slot free, the highest on top.
SetupPool == [free |-> [i \in 1 .. Size |-> Base + i - 1], used |-> {}]

Exhausted(p) == Len(p.free) = 0
Top(p) == p.free[Len(p.free)]

\* Acquire leases Top(p).
Acquire(p) == [free |-> SubSeq(p.free, 1, Len(p.free) - 1),
               used |-> p.used \cup {Top(p)}]

\* Mutant: a slot that is not leased is pushed back all the same.
ReleaseBlind(p, id) == [free |-> Append(p.free, id), used |-> p.used \ {id}]

Release(p, id) ==
  IF id \in p.used THEN [free |-> Append(p.free, id), used |-> p.used \ {id}]
                   ELSE p

\* No slot is free twice, or free and leased, and none is missing.
Sound(p) ==
  /\ p \in Pool
  /\ \A i, j \in 1 .. Len(p.free) : p.free[i] = p.free[j] => i = j
  /\ \A i \in 1 .. Len(p.free) : p.free[i] \notin p.used
  /\ \A s \in Slots : s \in p.used \/ \E i \in 1 .. Len(p.free) : p.free[i] = s
==============================================================================
