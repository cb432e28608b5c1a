---------------------------- MODULE ChunkGC_proofs ----------------------------
(***************************************************************************)
(* The grace window is long enough: for any number of pauses and chunks,   *)
(* if MaxCopy + MaxMark < Grace then a published manifest misses only what *)
(* its pause finished with between the collector's stat and the last       *)
(* attempt to delete.                                                      *)
(***************************************************************************)
EXTENDS ChunkGC, TLAPS

\* No stamp is ahead of the clock, and nothing in progress is overdue.
Clock ==
  /\ \A c \in Chunks : mtime[c] <= now
  /\ \A w \in Pauses : pause[w] = "copy"
       => started[w] <= now /\ now <= started[w] + MaxCopy
  /\ gc = "mark" => keysAt <= now /\ now <= keysAt + MaxMark
  /\ gc = "sweep" => cutoff <= now - Grace

\* A chunk Copy is done with was stamped since Copy began, and so was one that
\* came back after Copy found it missing.
CopiedFresh ==
  \A w \in Pauses, c \in Chunks : pause[w] = "copy" =>
    /\ chunk[w][c] = "done" => mtime[c] >= started[w] \/ <<w, c>> \in raced
    /\ chunk[w][c] \in {"miss", "put"}
         => mtime[c] = Absent \/ mtime[c] >= started[w]

\* What keeps a published chunk from a pass: its manifest is still to be read,
\* its mark, or a stamp that the cutoff cannot reach.
Shielded(w, c) ==
  /\ Present(c)
  /\ gc = "mark" => w \in unread \/ c \in live \/ mtime[c] >= keysAt - MaxCopy
  /\ gc = "sweep" => c \notin sweep \/ mtime[c] > cutoff

PublishedSafe ==
  \A w \in Pauses, c \in Chunks : pause[w] = "published" /\ chunk[w][c] # "no"
    => Shielded(w, c) \/ <<w, c>> \in raced

\* Nobody relies on a chunk between its stat and its delete, except a pause that
\* finished with it in that window.
DoomedUnused ==
  \A c \in doomed :
    /\ gc = "sweep" /\ c \in sweep
    /\ \A w \in Pauses :
         /\ pause[w] = "copy" /\ chunk[w][c] = "done" => <<w, c>> \in raced
         /\ pause[w] = "published" /\ chunk[w][c] # "no" => <<w, c>> \in raced

IInv == TypeOK /\ Clock /\ CopiedFresh /\ PublishedSafe /\ DoomedUnused

-----------------------------------------------------------------------------

\* Type correctness of the collector and of the uploads it races with.
LEMMA TypeInit == Init => TypeOK
  BY TimingAssumption DEF Init, TypeOK, PauseState, ChunkState, Absent

LEMMA TypeNext == TypeOK /\ [Next]_vars => TypeOK'
<1> SUFFICES ASSUME TypeOK, [Next]_vars PROVE TypeOK'
  OBVIOUS
<1> USE TimingAssumption DEF TypeOK, PauseState, ChunkState, store, writers, collector
<1>1. ASSUME NEW w \in Pauses, Begin(w) PROVE TypeOK'
  BY <1>1 DEF Begin
<1>2. ASSUME NEW w \in Pauses, Publish(w) PROVE TypeOK'
  BY <1>2 DEF Publish
<1>3. ASSUME NEW w \in Pauses, Drop(w) PROVE TypeOK'
  BY <1>3 DEF Drop
<1>4. ASSUME NEW w \in Pauses, NEW c \in Chunks, Has(w, c) PROVE TypeOK'
  BY <1>4 DEF Has, At, Move
<1>5. ASSUME NEW w \in Pauses, NEW c \in Chunks, TouchChunk(w, c) PROVE TypeOK'
  <2>1. raced' \subseteq Pauses \X Chunks
    BY <1>5 DEF TouchChunk, Race
  <2> QED
    BY <1>5, <2>1 DEF TouchChunk, At, Move, Stamp, Race
<1>6. ASSUME NEW w \in Pauses, NEW c \in Chunks, PutProbe(w, c) PROVE TypeOK'
  BY <1>6 DEF PutProbe, At, Move, Race
<1>7. ASSUME NEW w \in Pauses, NEW c \in Chunks, PutWrite(w, c) PROVE TypeOK'
  BY <1>7 DEF PutWrite, At, Move, Stamp, Race
<1>8. ASSUME NEW w \in Pauses, markManifest(w) PROVE TypeOK'
  BY <1>8 DEF markManifest, Refs
<1>9. ASSUME NEW c \in Chunks, StatChunk(c) PROVE TypeOK'
  BY <1>9 DEF StatChunk
<1>10. ASSUME NEW c \in Chunks, Delete(c) PROVE TypeOK'
  BY <1>10 DEF Delete, Absent
<1>11. CASE ListObjectKeys
  BY <1>11 DEF ListObjectKeys
<1>12. CASE ListChunks
  BY <1>12 DEF ListChunks
<1>13. CASE Finish
  BY <1>13 DEF Finish
<1>14. CASE Tick
  BY <1>14 DEF Tick
<1>15. CASE UNCHANGED vars
  BY <1>15 DEF vars
<1>16. ASSUME NEW w \in Pauses, NEW c \in Chunks, Repeated(w, c) PROVE TypeOK'
  BY <1>16 DEF Repeated, Stamp
<1>17. ASSUME NEW c \in Chunks, DeleteRepeated(c) PROVE TypeOK'
  BY <1>17 DEF DeleteRepeated, Absent
<1> QED
  BY <1>1, <1>2, <1>3, <1>4, <1>5, <1>6, <1>7, <1>8, <1>9, <1>10, <1>11, <1>12, <1>13, <1>14, <1>15, <1>16, <1>17
  DEF Next, Writer, GC

\* Every variable of ChunkGC keeps the type of the code's value it stands for.
THEOREM TypeCorrect == Spec => []TypeOK
  BY TypeInit, TypeNext, PTL DEF Spec

LEMMA InductiveInit == Init => IInv
<1> SUFFICES ASSUME Init PROVE IInv
  OBVIOUS
<1>1. TypeOK
  BY TypeInit
<1> QED
  BY <1>1, TimingAssumption
  DEF Init, IInv, Clock, CopiedFresh, PublishedSafe, DoomedUnused, Absent

LEMMA InductiveNext == IInv /\ [Next]_vars => IInv'
<1> SUFFICES ASSUME IInv, [Next]_vars PROVE IInv'
  OBVIOUS
<1>0. TypeOK'
  BY TypeNext DEF IInv
<1> USE <1>0, TimingAssumption
    DEF IInv, TypeOK, PauseState, ChunkState, Absent, store, writers, collector
<1>1. ASSUME NEW w \in Pauses, Begin(w)
      PROVE  Clock' /\ CopiedFresh' /\ PublishedSafe' /\ DoomedUnused'
  <2>1. Clock'
    BY <1>1 DEF Begin, Clock
  <2>2. CopiedFresh'
    BY <1>1 DEF Begin, CopiedFresh
  <2>3. PublishedSafe'
    BY <1>1 DEF Begin, PublishedSafe, Shielded, Present
  <2>4. DoomedUnused'
    BY <1>1 DEF Begin, DoomedUnused
  <2> QED
    BY <2>1, <2>2, <2>3, <2>4
<1>2. ASSUME NEW w \in Pauses, Publish(w)
      PROVE  Clock' /\ CopiedFresh' /\ PublishedSafe' /\ DoomedUnused'
  <2>1. Clock'
    BY <1>2 DEF Publish, Clock
  <2>2. CopiedFresh'
    BY <1>2 DEF Publish, CopiedFresh
  <2>3. PublishedSafe'
    BY <1>2 DEF Publish, PublishedSafe, Shielded, Present, CopiedFresh, Clock
  <2>4. DoomedUnused'
    BY <1>2 DEF Publish, DoomedUnused
  <2> QED
    BY <2>1, <2>2, <2>3, <2>4
<1>3. ASSUME NEW w \in Pauses, Drop(w)
      PROVE  Clock' /\ CopiedFresh' /\ PublishedSafe' /\ DoomedUnused'
  <2>1. Clock'
    BY <1>3 DEF Drop, Clock
  <2>2. CopiedFresh'
    BY <1>3 DEF Drop, CopiedFresh
  <2>3. PublishedSafe'
    BY <1>3 DEF Drop, PublishedSafe, Shielded, Present
  <2>4. DoomedUnused'
    BY <1>3 DEF Drop, DoomedUnused
  <2> QED
    BY <2>1, <2>2, <2>3, <2>4
<1>4. ASSUME NEW w \in Pauses, NEW c \in Chunks, Has(w, c)
      PROVE  Clock' /\ CopiedFresh' /\ PublishedSafe' /\ DoomedUnused'
  <2>1. Clock'
    BY <1>4 DEF Has, At, Move, Clock
  <2>2. CopiedFresh'
    BY <1>4 DEF Has, At, Move, CopiedFresh, Present
  <2>3. PublishedSafe'
    BY <1>4 DEF Has, At, Move, PublishedSafe, Shielded, Present
  <2>4. DoomedUnused'
    BY <1>4 DEF Has, At, Move, DoomedUnused
  <2> QED
    BY <2>1, <2>2, <2>3, <2>4
<1>5. ASSUME NEW w \in Pauses, NEW c \in Chunks, TouchChunk(w, c)
      PROVE  Clock' /\ CopiedFresh' /\ PublishedSafe' /\ DoomedUnused'
  <2>1. Clock'
    <3>1. CASE Present(c)
      BY <1>5, <3>1 DEF TouchChunk, Move, Stamp, Clock
    <3>2. CASE ~Present(c)
      BY <1>5, <3>2 DEF TouchChunk, Move, Clock
    <3> QED
      BY <3>1, <3>2
  <2>2. CopiedFresh'
    <3>1. CASE Present(c)
      <4>1. /\ mtime' = [mtime EXCEPT ![c] = now]
            /\ chunk' = [chunk EXCEPT ![w][c] = "done"]
            /\ raced \subseteq raced'
        BY <1>5, <3>1 DEF TouchChunk, Move, Stamp, Race
      <4> QED
        BY <1>5, <4>1 DEF TouchChunk, At, Move, CopiedFresh, Clock
    <3>2. CASE ~Present(c)
      BY <1>5, <3>2 DEF TouchChunk, At, Move, CopiedFresh, Present
    <3> QED
      BY <3>1, <3>2
  <2>3. PublishedSafe'
    BY SMTT(30), <1>5 DEF TouchChunk, At, Move, Stamp, Race, PublishedSafe, Shielded, Present, Clock
  <2>4. DoomedUnused'
    BY SMTT(30), <1>5 DEF TouchChunk, At, Move, Stamp, Race, DoomedUnused
  <2> QED
    BY <2>1, <2>2, <2>3, <2>4
<1>6. ASSUME NEW w \in Pauses, NEW c \in Chunks, PutProbe(w, c)
      PROVE  Clock' /\ CopiedFresh' /\ PublishedSafe' /\ DoomedUnused'
  <2>1. Clock'
    BY <1>6 DEF PutProbe, At, Move, Clock
  <2>2. CopiedFresh'
    BY <1>6 DEF PutProbe, At, Move, Race, CopiedFresh, Present
  <2>3. PublishedSafe'
    BY <1>6 DEF PutProbe, At, Move, Race, PublishedSafe, Shielded, Present
  <2>4. DoomedUnused'
    BY <1>6 DEF PutProbe, At, Move, Race, DoomedUnused
  <2> QED
    BY <2>1, <2>2, <2>3, <2>4
<1>7. ASSUME NEW w \in Pauses, NEW c \in Chunks, PutWrite(w, c)
      PROVE  Clock' /\ CopiedFresh' /\ PublishedSafe' /\ DoomedUnused'
  <2>1. Clock'
    BY <1>7 DEF PutWrite, At, Move, Stamp, Clock
  <2>2. CopiedFresh'
    BY <1>7 DEF PutWrite, At, Move, Stamp, Race, CopiedFresh, Clock
  <2>3. PublishedSafe'
    BY <1>7 DEF PutWrite, At, Move, Stamp, Race, PublishedSafe, Shielded, Present, Clock
  <2>4. DoomedUnused'
    BY <1>7 DEF PutWrite, At, Move, Stamp, Race, DoomedUnused
  <2> QED
    BY <2>1, <2>2, <2>3, <2>4
<1>8. ASSUME NEW w \in Pauses, markManifest(w)
      PROVE  Clock' /\ CopiedFresh' /\ PublishedSafe' /\ DoomedUnused'
  <2>1. Clock'
    BY <1>8 DEF markManifest, Refs, Clock
  <2>2. CopiedFresh'
    BY <1>8 DEF markManifest, Refs, CopiedFresh
  <2>3. PublishedSafe'
    BY <1>8 DEF markManifest, Refs, PublishedSafe, Shielded, Present
  <2>4. DoomedUnused'
    BY <1>8 DEF markManifest, Refs, DoomedUnused
  <2> QED
    BY <2>1, <2>2, <2>3, <2>4
<1>9. ASSUME NEW c \in Chunks, StatChunk(c)
      PROVE  Clock' /\ CopiedFresh' /\ PublishedSafe' /\ DoomedUnused'
  <2>1. Clock'
    BY <1>9 DEF StatChunk, Clock
  <2>2. CopiedFresh'
    BY <1>9 DEF StatChunk, CopiedFresh
  <2>3. PublishedSafe'
    BY <1>9 DEF StatChunk, PublishedSafe, Shielded, Present
  <2>4. DoomedUnused'
    BY <1>9 DEF StatChunk, DoomedUnused, Present, CopiedFresh, Clock, PublishedSafe, Shielded
  <2> QED
    BY <2>1, <2>2, <2>3, <2>4
<1>10. ASSUME NEW c \in Chunks, Delete(c)
      PROVE  Clock' /\ CopiedFresh' /\ PublishedSafe' /\ DoomedUnused'
  <2>1. Clock'
    BY <1>10 DEF Delete, Clock
  <2>2. CopiedFresh'
    BY <1>10 DEF Delete, CopiedFresh, DoomedUnused
  <2>3. PublishedSafe'
    BY <1>10 DEF Delete, PublishedSafe, Shielded, Present, DoomedUnused
  <2>4. DoomedUnused'
    BY <1>10 DEF Delete, DoomedUnused
  <2> QED
    BY <2>1, <2>2, <2>3, <2>4
<1>11. ASSUME ListObjectKeys
      PROVE  Clock' /\ CopiedFresh' /\ PublishedSafe' /\ DoomedUnused'
  <2>1. Clock'
    BY <1>11 DEF ListObjectKeys, Clock
  <2>2. CopiedFresh'
    BY <1>11 DEF ListObjectKeys, CopiedFresh
  <2>3. PublishedSafe'
    BY <1>11 DEF ListObjectKeys, PublishedSafe, Shielded, Present
  <2>4. DoomedUnused'
    BY <1>11 DEF ListObjectKeys, DoomedUnused
  <2> QED
    BY <2>1, <2>2, <2>3, <2>4
<1>12. ASSUME ListChunks
      PROVE  Clock' /\ CopiedFresh' /\ PublishedSafe' /\ DoomedUnused'
  <2>1. Clock'
    BY <1>12 DEF ListChunks, Clock
  <2>2. CopiedFresh'
    BY <1>12 DEF ListChunks, CopiedFresh
  <2>3. PublishedSafe'
    BY <1>12 DEF ListChunks, PublishedSafe, Shielded, Present, Clock
  <2>4. DoomedUnused'
    BY <1>12 DEF ListChunks, DoomedUnused
  <2> QED
    BY <2>1, <2>2, <2>3, <2>4
<1>13. ASSUME Finish
      PROVE  Clock' /\ CopiedFresh' /\ PublishedSafe' /\ DoomedUnused'
  <2>1. Clock'
    BY <1>13 DEF Finish, Clock
  <2>2. CopiedFresh'
    BY <1>13 DEF Finish, CopiedFresh
  <2>3. PublishedSafe'
    BY <1>13 DEF Finish, PublishedSafe, Shielded, Present
  <2>4. DoomedUnused'
    BY <1>13 DEF Finish, DoomedUnused
  <2> QED
    BY <2>1, <2>2, <2>3, <2>4
<1>14. ASSUME Tick
      PROVE  Clock' /\ CopiedFresh' /\ PublishedSafe' /\ DoomedUnused'
  <2>1. Clock'
    BY <1>14 DEF Tick, Clock
  <2>2. CopiedFresh'
    BY <1>14 DEF Tick, CopiedFresh
  <2>3. PublishedSafe'
    BY <1>14 DEF Tick, PublishedSafe, Shielded, Present
  <2>4. DoomedUnused'
    BY <1>14 DEF Tick, DoomedUnused
  <2> QED
    BY <2>1, <2>2, <2>3, <2>4
<1>15. CASE UNCHANGED vars
  BY <1>15 DEF vars, Clock, CopiedFresh, PublishedSafe, Shielded, Present, DoomedUnused
<1>16. ASSUME NEW w \in Pauses, NEW c \in Chunks, Repeated(w, c)
      PROVE  Clock' /\ CopiedFresh' /\ PublishedSafe' /\ DoomedUnused'
  <2>1. Clock'
    BY <1>16 DEF Repeated, Stamp, Clock
  <2>2. CopiedFresh'
    BY <1>16 DEF Repeated, Stamp, CopiedFresh, Clock
  <2>3. PublishedSafe'
    BY <1>16 DEF Repeated, Stamp, PublishedSafe, Shielded, Present, Clock
  <2>4. DoomedUnused'
    BY <1>16 DEF Repeated, Stamp, DoomedUnused
  <2> QED
    BY <2>1, <2>2, <2>3, <2>4
<1>17. ASSUME NEW c \in Chunks, DeleteRepeated(c)
      PROVE  Clock' /\ CopiedFresh' /\ PublishedSafe' /\ DoomedUnused'
  <2>1. Clock'
    BY <1>17 DEF DeleteRepeated, Clock
  <2>2. CopiedFresh'
    BY <1>17 DEF DeleteRepeated, CopiedFresh, DoomedUnused
  <2>3. PublishedSafe'
    BY <1>17 DEF DeleteRepeated, PublishedSafe, Shielded, Present, DoomedUnused
  <2>4. DoomedUnused'
    BY <1>17 DEF DeleteRepeated, DoomedUnused
  <2> QED
    BY <2>1, <2>2, <2>3, <2>4
<1> QED
  BY <1>1, <1>2, <1>3, <1>4, <1>5, <1>6, <1>7, <1>8, <1>9, <1>10, <1>11, <1>12, <1>13, <1>14, <1>15, <1>16, <1>17
  DEF Next, Writer, GC

\* With a grace window longer than a pause's upload and a mark phase together,
\* GC takes from a published manifest only chunks its pause finished with between
\* GC's re-stat and its last attempt to delete.
THEOREM GraceSuffices == Spec => []LostOnlyInWindow
<1>1. IInv => LostOnlyInWindow
  BY DEF IInv, PublishedSafe, Shielded, LostOnlyInWindow, Refs, Present
<1> QED
  BY <1>1, InductiveInit, InductiveNext, PTL DEF Spec
==============================================================================
