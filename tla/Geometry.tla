------------------------------- MODULE Geometry -------------------------------
(***************************************************************************)
(* The size of a new sandbox: what the create dialog lets through          *)
(* (components/createSandbox.tsx, lib/geometry.ts) and what the control    *)
(* plane makes of it (server.go, defaults.go).  Sizes are the code's own   *)
(* numbers; 0 is a field that is not sent.                                 *)
(***************************************************************************)
EXTENDS Integers

CONSTANTS Disabled,              \* ElasticDefaults.Disabled
          VCPUS, MEMORY, DISKS   \* bound: values typed into the fields

ASSUME GeometryAssumption ==
  Disabled \in BOOLEAN /\ VCPUS \subseteq Nat /\ MEMORY \subseteq Nat /\ DISKS \subseteq Nat

HOTPLUG_SLOT_MIB == 128
MAX_VCPUS == 64
MAX_MEMORY_MIB == 1024 * 1024
MAX_DISK_GIB == 4096
Sizes == [vcpus : VCPUS, memory_mib : MEMORY, data_disk_gib : DISKS,
          max_vcpus : VCPUS, max_memory_mib : MEMORY]

baseGiven(g) == g.vcpus > 0 \/ g.memory_mib > 0
maxGiven(g) == g.max_vcpus > 0 \/ g.max_memory_mib > 0

roundUpToSlot(n) == ((n + HOTPLUG_SLOT_MIB - 1) \div HOTPLUG_SLOT_MIB) * HOTPLUG_SLOT_MIB
effectiveCeiling(base, max) == IF max <= base THEN base ELSE base + roundUpToSlot(max - base)

-----------------------------------------------------------------------------
(***************************************************************************)
(* The dialog.  A form is what its fields hold, whichever mode shows them. *)
(***************************************************************************)
Forms == [mode : {"simple", "advanced", "fixed"}, preset : {"standard", "small", "large"},
          size : Sizes, autoscale : {"on", "off"}]

ELASTIC_PRESETS == [standard |-> <<0, 0>>, small |-> <<1024, 1>>, large |-> <<8192, 8>>]

\* Mutant: the ceiling itself has no upper bound.
validateGeometryUnbounded(g, autoscale) ==
  /\ g.vcpus \in 0..MAX_VCPUS /\ g.memory_mib \in 0..MAX_MEMORY_MIB
  /\ g.data_disk_gib \in 0..MAX_DISK_GIB
  /\ g.max_memory_mib # 0 /\ g.memory_mib # 0 => g.max_memory_mib >= g.memory_mib
  /\ g.max_vcpus # 0 /\ g.vcpus # 0 => g.max_vcpus >= g.vcpus
  /\ g.max_vcpus <= MAX_VCPUS
  /\ autoscale = "on" /\ baseGiven(g) => maxGiven(g)

validateGeometry(g, autoscale) ==
  /\ g.vcpus \in 0..MAX_VCPUS /\ g.memory_mib \in 0..MAX_MEMORY_MIB
  /\ g.data_disk_gib \in 0..MAX_DISK_GIB
  /\ g.max_memory_mib # 0 /\ g.memory_mib # 0 => g.max_memory_mib >= g.memory_mib
  /\ g.max_memory_mib <= MAX_MEMORY_MIB
  /\ g.max_vcpus # 0 /\ g.vcpus # 0 => g.max_vcpus >= g.vcpus
  /\ g.max_vcpus <= MAX_VCPUS
  /\ autoscale = "on" /\ baseGiven(g) => maxGiven(g)

Fixed(g) == [g EXCEPT !.max_vcpus = 0, !.max_memory_mib = 0]

validationError(f) ==
  \/ f.mode = "fixed" /\ ~validateGeometry(Fixed(f.size), "nil")
  \/ f.mode = "advanced" /\ ~validateGeometry(f.size, f.autoscale)

\* The min, max and step of the inputs on screen: the browser submits no
\* form that breaks them.
baseInputs(g) == g.vcpus \in 1..MAX_VCPUS /\ g.memory_mib >= 128 /\ g.memory_mib % 128 = 0
ceilingInputs(g) == /\ g.max_vcpus \in g.vcpus..MAX_VCPUS
                    /\ g.max_memory_mib >= g.memory_mib
                    /\ (g.max_memory_mib - g.memory_mib) % 128 = 0
inputsValid(f) == /\ f.size.data_disk_gib \in 1..MAX_DISK_GIB
                  /\ f.mode # "simple" => baseInputs(f.size)
                  /\ f.mode = "advanced" => ceilingInputs(f.size)

\* The body submit() posts.
body(f) ==
  LET g == [f.size EXCEPT !.data_disk_gib = IF @ = 15 THEN 0 ELSE @]
      p == ELASTIC_PRESETS[f.preset]
  IN CASE f.mode = "fixed"    -> [size |-> Fixed(g), autoscale |-> "nil"]
       [] f.mode = "advanced" -> [size |-> g, autoscale |-> f.autoscale]
       [] OTHER -> [size |-> [g EXCEPT !.vcpus = 0, !.memory_mib = 0,
                                       !.max_memory_mib = p[1], !.max_vcpus = p[2]],
                    autoscale |-> "nil"]

-----------------------------------------------------------------------------
(***************************************************************************)
(* The control plane.                                                      *)
(***************************************************************************)
Default(v, d) == IF v = 0 THEN d ELSE v

\* resolveGeometry, with the platform defaults of ElasticDefaults.
resolveGeometry(b) ==
  LET g == [b.size EXCEPT !.data_disk_gib = Default(@, 15)]
  IN CASE Disabled -> b
       [] ~Disabled /\ ~baseGiven(g) ->
            [size |-> [g EXCEPT !.vcpus = 1, !.memory_mib = 256,
                                !.max_vcpus = IF maxGiven(g) THEN @ ELSE 4,
                                !.max_memory_mib = IF maxGiven(g) THEN @ ELSE 4096],
             autoscale |-> IF b.autoscale = "nil" THEN "on" ELSE b.autoscale]
       [] ~Disabled /\ baseGiven(g) /\ ~maxGiven(g) ->
            [b EXCEPT !.size = [g EXCEPT !.vcpus = Default(@, 1), !.memory_mib = Default(@, 256)]]
       [] OTHER -> [b EXCEPT !.size = g]

validateCeilings(g) ==
  /\ g.max_memory_mib # 0 => g.memory_mib # 0 /\ g.max_memory_mib \in g.memory_mib..MAX_MEMORY_MIB
  /\ g.max_vcpus # 0 => g.vcpus # 0 /\ g.max_vcpus \in g.vcpus..MAX_VCPUS

Accepts(b) ==
  LET r == resolveGeometry(b)
  IN /\ b.size.vcpus \in 0..MAX_VCPUS /\ b.size.memory_mib \in 0..MAX_MEMORY_MIB
     /\ b.size.data_disk_gib \in 0..MAX_DISK_GIB
     /\ b.autoscale = "on" /\ ~Disabled /\ baseGiven(b.size) => maxGiven(b.size)
     /\ validateCeilings(r.size)
     /\ r.autoscale = "on" => maxGiven(r.size)

\* The memory ceiling createSandbox stores.
Stored(b) == LET g == resolveGeometry(b).size
             IN IF g.max_memory_mib > g.memory_mib
                THEN g.memory_mib + roundUpToSlot(g.max_memory_mib - g.memory_mib)
                ELSE g.max_memory_mib

\* How a form that submits fares: the body is accepted, and in advanced mode
\* stored with the ceiling slotRoundingHint announces.
Fares(f) == /\ Accepts(body(f))
            /\ f.mode = "advanced" =>
                 Stored(body(f)) = effectiveCeiling(f.size.memory_mib, f.size.max_memory_mib)
SubmitVerdicts == {Fares(f) : f \in {g \in Forms : inputsValid(g) /\ ~validationError(g)}}
=============================================================================
