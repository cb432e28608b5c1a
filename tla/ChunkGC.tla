------------------------------- MODULE ChunkGC -------------------------------
(***************************************************************************)
(* The mark-and-sweep over one chunk store (pkg/chunkstore/gc.go) against  *)
(* the pauses that write through to it (the Copier, then the manifest).    *)
(*                                                                         *)
(* Each pause uploads one layer: for every chunk of it Has, then Touch or  *)
(* Put, and the manifest last.  Put looks for the chunk again before it    *)
(* writes.  The collector lists the manifests, reads them, lists the       *)
(* chunks, and for each candidate takes a fresh mtime and then deletes;    *)
(* a pause may take a step between any two of those.                       *)
(*                                                                         *)
(* The S3 backend repeats a request whose answer was lost (retryS3), also  *)
(* one that took effect.  The code makes three attempts at most, the model *)
(* any number.                                                             *)
(*                                                                         *)
(* The grace window only helps pauses and passes that are quick enough:    *)
(* MaxCopy bounds the time from a pause's first chunk to its manifest,     *)
(* MaxMark the time the collector takes to read the manifests.             *)
(***************************************************************************)
EXTENDS Integers

CONSTANTS
  Pauses,   \* the layers ever uploaded
  Chunks,   \* content hashes
  Grace,    \* EngineConfig.GCGrace
  MaxCopy,  \* longest time from Copy's start to the manifest
  MaxMark,  \* longest time from listing the manifests to listing the chunks
  MaxTime   \* bound: the clock

ASSUME TimingAssumption ==
  /\ Grace \in Nat /\ MaxCopy \in Nat /\ MaxMark \in Nat /\ MaxTime \in Nat
  /\ MaxCopy + MaxMark < Grace

Absent == -1

VARIABLES
  now,      \* the clock
  mtime,    \* per chunk, its modification time, or Absent
  pause,    \* per pause, how far it is
  started,  \* per pause, when its Copy began
  chunk,    \* per pause and chunk, how far Copy is with it ("no": not in it)
  gc,       \* the collector's step
  keysAt,   \* when it listed the manifests
  unread,   \* listed manifests it has not read
  live,     \* the marks
  cutoff,   \* now - grace at the chunk listing
  sweep,    \* listed candidates it has not decided on
  doomed,   \* the candidate whose Delete is next, as a set
  raced     \* history: chunks a pause finished with between stat and Delete

store == <<now, mtime>>
writers == <<pause, started, chunk>>
collector == <<gc, keysAt, unread, live, cutoff, sweep, doomed>>
vars == <<store, writers, collector, raced>>

PauseState == {"new", "copy", "published", "gone"}
ChunkState == {"no", "todo", "hit", "miss", "put", "done"}

Present(c) == mtime[c] # Absent
Refs(w) == {c \in Chunks : chunk[w][c] # "no"}

-----------------------------------------------------------------------------
(* A pause's upload *)

Begin(w) ==
  /\ pause[w] = "new"
  /\ \E cs \in SUBSET Chunks :
       chunk' = [chunk EXCEPT ![w] = [c \in Chunks |-> IF c \in cs THEN "todo"
                                                       ELSE "no"]]
  /\ pause' = [pause EXCEPT ![w] = "copy"]
  /\ started' = [started EXCEPT ![w] = now]
  /\ UNCHANGED <<store, collector, raced>>

\* One step of Copy's goroutine for chunk c.
At(w, c, s) == pause[w] = "copy" /\ chunk[w][c] = s
Move(w, c, s) ==
  chunk' = [chunk EXCEPT ![w][c] = s] /\ UNCHANGED <<pause, started>>

\* Mutant: the new modification time is backdated by the grace window.
StampBackdated(c) == mtime' = [mtime EXCEPT ![c] = now - Grace] /\ UNCHANGED now

Stamp(c) == mtime' = [mtime EXCEPT ![c] = now] /\ UNCHANGED now

Has(w, c) ==
  /\ At(w, c, "todo")
  /\ Move(w, c, IF Present(c) THEN "hit" ELSE "miss")
  /\ UNCHANGED <<store, collector, raced>>

\* The pause relies on a chunk the collector is about to delete.
Race(w, c) == raced' = IF c \in doomed THEN raced \cup {<<w, c>>} ELSE raced

\* Mutant: a dedup hit is left as old as it is.
TouchChunkSkipped(w, c) ==
  /\ At(w, c, "hit")
  /\ Move(w, c, "done")
  /\ UNCHANGED <<store, collector, raced>>

TouchChunk(w, c) ==
  /\ At(w, c, "hit")
  /\ IF Present(c)
     THEN Stamp(c) /\ Move(w, c, "done") /\ Race(w, c)
     ELSE Move(w, c, "miss") /\ UNCHANGED <<store, raced>>
  /\ UNCHANGED collector

\* Put: a chunk that is there by now is not written again.
PutProbe(w, c) ==
  /\ At(w, c, "miss")
  /\ IF Present(c)
     THEN Move(w, c, "done") /\ Race(w, c)
     ELSE Move(w, c, "put") /\ UNCHANGED raced
  /\ UNCHANGED <<store, collector>>

PutWrite(w, c) ==
  /\ At(w, c, "put")
  /\ Stamp(c)
  /\ Move(w, c, "done")
  /\ Race(w, c)
  /\ UNCHANGED collector

\* An attempt to touch or put that took effect and is made again.
Repeated(w, c) ==
  /\ At(w, c, "put") \/ (At(w, c, "hit") /\ Present(c))
  /\ Stamp(c)
  /\ UNCHANGED <<writers, collector, raced>>

\* The manifest, once Copy returned.
Publish(w) ==
  /\ pause[w] = "copy"
  /\ \A c \in Chunks : chunk[w][c] \in {"no", "done"}
  /\ pause' = [pause EXCEPT ![w] = "published"]
  /\ UNCHANGED <<store, started, chunk, collector, raced>>

\* Copy fails, or the manifest is deleted (deleteSandboxObjects, a rollback).
Drop(w) ==
  /\ pause[w] \in {"copy", "published"}
  /\ pause' = [pause EXCEPT ![w] = "gone"]
  /\ chunk' = [chunk EXCEPT ![w] = [c \in Chunks |-> "no"]]
  /\ UNCHANGED <<store, started, collector, raced>>

Writer ==
  \E w \in Pauses :
    \/ Begin(w) \/ Publish(w) \/ Drop(w)
    \/ \E c \in Chunks :
         \/ Has(w, c) \/ TouchChunk(w, c) \/ Repeated(w, c)
         \/ PutProbe(w, c) \/ PutWrite(w, c)

-----------------------------------------------------------------------------
(* The collector *)

ListObjectKeys ==
  /\ gc = "idle"
  /\ gc' = "mark"
  /\ keysAt' = now
  /\ unread' = {w \in Pauses : pause[w] = "published"}
  /\ live' = {}
  /\ UNCHANGED <<store, writers, cutoff, sweep, doomed, raced>>

\* A manifest deleted since the listing marks nothing.
markManifest(w) ==
  /\ gc = "mark" /\ w \in unread
  /\ unread' = unread \ {w}
  /\ live' = IF pause[w] = "published" THEN live \cup Refs(w) ELSE live
  /\ UNCHANGED <<store, writers, gc, keysAt, cutoff, sweep, doomed, raced>>

ListChunks ==
  /\ gc = "mark" /\ unread = {}
  /\ gc' = "sweep"
  /\ cutoff' = now - Grace
  /\ sweep' = {c \in Chunks : Present(c) /\ c \notin live /\ mtime[c] <= now - Grace}
  /\ UNCHANGED <<store, writers, keysAt, unread, live, doomed, raced>>

StatChunk(c) ==
  /\ gc = "sweep" /\ doomed = {} /\ c \in sweep
  /\ IF Present(c) /\ mtime[c] <= cutoff
     THEN doomed' = {c} /\ UNCHANGED sweep
     ELSE sweep' = sweep \ {c} /\ UNCHANGED doomed
  /\ UNCHANGED <<store, writers, gc, keysAt, unread, live, cutoff, raced>>

Delete(c) ==
  /\ c \in doomed
  /\ mtime' = [mtime EXCEPT ![c] = Absent]
  /\ sweep' = sweep \ {c}
  /\ doomed' = {}
  /\ UNCHANGED <<now, writers, gc, keysAt, unread, live, cutoff, raced>>

\* An attempt to delete that took effect and is made again.
DeleteRepeated(c) ==
  /\ c \in doomed
  /\ mtime' = [mtime EXCEPT ![c] = Absent]
  /\ UNCHANGED <<now, writers, collector, raced>>

\* The pass ends, with nothing left to sweep or on an error.
Finish ==
  /\ gc # "idle"
  /\ gc' = "idle" /\ keysAt' = 0 /\ unread' = {} /\ live' = {}
  /\ cutoff' = 0 /\ sweep' = {} /\ doomed' = {}
  /\ UNCHANGED <<store, writers, raced>>

GC ==
  \/ ListObjectKeys \/ ListChunks \/ Finish
  \/ \E w \in Pauses : markManifest(w)
  \/ \E c \in Chunks : StatChunk(c) \/ Delete(c) \/ DeleteRepeated(c)

-----------------------------------------------------------------------------

\* Time passes, within the bounds on a pause and on a mark phase.
Tick ==
  /\ now < MaxTime
  /\ \A w \in Pauses : pause[w] = "copy" => now < started[w] + MaxCopy
  /\ gc = "mark" => now < keysAt + MaxMark
  /\ now' = now + 1
  /\ UNCHANGED <<mtime, writers, collector, raced>>

Init ==
  /\ now = 0
  /\ mtime = [c \in Chunks |-> Absent]
  /\ pause = [w \in Pauses |-> "new"]
  /\ started = [w \in Pauses |-> 0]
  /\ chunk = [w \in Pauses |-> [c \in Chunks |-> "no"]]
  /\ gc = "idle" /\ keysAt = 0 /\ unread = {} /\ live = {}
  /\ cutoff = 0 /\ sweep = {} /\ doomed = {}
  /\ raced = {}

Next == Writer \/ GC \/ Tick

Spec == Init /\ [][Next]_vars

-----------------------------------------------------------------------------
(* Properties *)

\* The variables hold values of the code's types.
TypeOK ==
  /\ now \in Nat
  /\ mtime \in [Chunks -> Nat \cup {Absent}]
  /\ pause \in [Pauses -> PauseState]
  /\ started \in [Pauses -> Nat]
  /\ chunk \in [Pauses -> [Chunks -> ChunkState]]
  /\ gc \in {"idle", "mark", "sweep"}
  /\ keysAt \in Nat
  /\ unread \subseteq Pauses
  /\ live \subseteq Chunks
  /\ cutoff \in Int
  /\ sweep \subseteq Chunks
  /\ doomed \subseteq Chunks
  /\ raced \subseteq Pauses \X Chunks

\* GC's safety argument: a chunk a published manifest references is in the
\* store.
PublishedIntact ==
  \A w \in Pauses : pause[w] = "published" => \A c \in Refs(w) : Present(c)

\* What GC does guarantee: the only chunks a published manifest can miss are
\* those its Copy finished with (touched, put, or found put by another pause)
\* after GC had re-stat'ed them and before its last attempt to delete them.
LostOnlyInWindow ==
  \A w \in Pauses : pause[w] = "published" =>
    \A c \in Refs(w) : Present(c) \/ <<w, c>> \in raced
==============================================================================
