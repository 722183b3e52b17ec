----------------------------- MODULE StoreProofs -----------------------------
(***************************************************************************)
(* Proofs about BlobHistory and, in the second part, about StoreReaders,   *)
(* for any sets of files, hashes and sweeps, any number of workers and any *)
(* grace.                                                                  *)
(***************************************************************************)
EXTENDS StoreReaders, TLAPS

(***************************************************************************)
(* The initial state satisfies the inductive invariant.                    *)
(***************************************************************************)
LEMMA InitIInv == HInit => IInv
  <1> SUFFICES ASSUME HInit PROVE IInv
    OBVIOUS
  <1> USE ConstantsOK DEF HInit, Init
  <1>1. HTypeOK
    BY DEF HTypeOK, TypeOK, UploadState, Window, SweepState, SweepPC, IdleSweep
  <1>2. ShaChosen /\ OneInsert /\ OnlyOverlapLosesBytes /\ WindowHasBytes
    BY DEF ShaChosen, OneInsert, OnlyOverlapLosesBytes, WindowHasBytes, Window
  <1>3. UnlinkFacesOverlap /\ GoneStaysGone
    BY DEF UnlinkFacesOverlap, GoneStaysGone, IdleSweep
  <1>4. BytesAccountedFor
    BY DEF BytesAccountedFor, OnDisk
  <1>6. CurChosen
    BY DEF CurChosen, IdleSweep
  <1>5. ListedIsOld
    BY DEF ListedIsOld, RowsOf
  <1> QED
    BY <1>1, <1>2, <1>3, <1>4, <1>5, <1>6 DEF IInv

(***************************************************************************)
(* Each step keeps the types.                                              *)
(***************************************************************************)
LEMMA TypeStep == ASSUME HTypeOK, ShaChosen, CurChosen, HNext PROVE HTypeOK'
  <1> USE ConstantsOK DEF HTypeOK, TypeOK, rowVars
  <1>1. TypeOK'
    <2>1. ASSUME NEW f \in Files, NEW h \in Hashes, Commit(f, h) PROVE TypeOK'
      BY <2>1 DEF Commit, UploadState, Window
    <2>2. ASSUME NEW f \in Files, RefuseQuota(f) \/ Sniff(f) \/ OpenImage(f) \/ Abort(f)
          PROVE  TypeOK'
      BY <2>2 DEF RefuseQuota, Sniff, OpenImage, Abort, UploadState, Window
    <2>3. ASSUME NEW f \in Files, WriteThumb(f) PROVE TypeOK'
      BY <2>3 DEF WriteThumb, ShaChosen, UploadState, Window
    <2>4. ASSUME NEW f \in Files, Insert(f) PROVE TypeOK'
      BY <2>4 DEF Insert, UploadState, Window
    <2>5. ASSUME NEW f \in Files, Delete(f) \/ RetentionElapses(f) PROVE TypeOK'
      BY <2>5 DEF Delete, SoftDelete, RetentionElapses
    <2>6. CASE Tick
      BY <2>6 DEF Tick
    <2>7. ASSUME NEW s \in Sweepers, Start(s) PROVE TypeOK'
      <3> DEFINE expired == {f \in Files : status[f] = "live" /\ expiry[f] = "past"}
      <3>1. [IdleSweep EXCEPT !.pc = "expire", !.todo = expired] \in SweepState
        BY DEF IdleSweep, SweepState, SweepPC
      <3> QED
        BY <2>7, <3>1 DEF Start
    <2>8. ASSUME NEW s \in Sweepers, FindOrphans(s) PROVE TypeOK'
      <3>1. OrphanBlobs \in SUBSET Hashes
        BY DEF OrphanBlobs
      <3>2. [sw[s] EXCEPT !.pc = "pick", !.orphans = OrphanBlobs] \in SweepState
        BY <3>1 DEF SweepState, SweepPC
      <3> QED
        BY <2>8, <3>2 DEF FindOrphans
    <2>9. ASSUME NEW s \in Sweepers, NEW f \in Files, MarkExpired(s, f) PROVE TypeOK'
      <3>1. [sw[s] EXCEPT !.todo = @ \ {f}] \in SweepState
        BY DEF SweepState
      <3>2. sw' \in [Sweepers -> SweepState]
        BY <2>9, <3>1 DEF MarkExpired
      <3> QED
        BY <2>9, <3>2 DEF MarkExpired, SoftDelete
    <2>10. ASSUME NEW s \in Sweepers, NEW h \in Hashes, Recheck(s, h) PROVE TypeOK'
      <3> DEFINE next == [sw[s] EXCEPT !.orphans = sw[s].orphans \ {h},
                                       !.pc  = IF Referenced(h) THEN "pick" ELSE "unlink",
                                       !.cur = IF Referenced(h) THEN NoSha ELSE h]
      <3>1. next \in SweepState
        BY DEF SweepState, SweepPC
      <3>2. sw' = [sw EXCEPT ![s] = next]
        BY <2>10 DEF Recheck
      <3> HIDE DEF next
      <3> QED
        BY <2>10, <3>1, <3>2 DEF Recheck
    <2>11. ASSUME NEW s \in Sweepers,
                  UnlinkBlob(s) \/ BlobLocked(s) \/ UnlinkThumb(s) \/ ThumbLocked(s)
           PROVE  TypeOK'
      <3>1. /\ [sw[s] EXCEPT !.pc = "unthumb"] \in SweepState
            /\ [sw[s] EXCEPT !.pc = "confirm"] \in SweepState
        BY DEF SweepState, SweepPC
      <3> QED
        BY <2>11, <3>1 DEF UnlinkBlob, BlobLocked, UnlinkThumb, ThumbLocked
    <2>12. ASSUME NEW s \in Sweepers, Confirm(s) PROVE TypeOK'
      <3> DEFINE next == [sw[s] EXCEPT !.pc = "pick", !.cur = NoSha,
                            !.gone = IF OnDisk(sw[s].cur) THEN sw[s].gone
                                      ELSE sw[s].gone \cup {sw[s].cur}]
      <3>1. sw[s].cur \in Hashes
        BY <2>12 DEF Confirm, CurChosen
      <3>2. next \in SweepState
        BY <3>1 DEF SweepState, SweepPC
      <3>3. sw' = [sw EXCEPT ![s] = next]
        BY <2>12 DEF Confirm
      <3> HIDE DEF next
      <3> QED
        BY <2>12, <3>2, <3>3 DEF Confirm
    <2>13. ASSUME NEW s \in Sweepers, Purge(s) \/ Crash(s) PROVE TypeOK'
      <3>1. IdleSweep \in SweepState
        BY DEF IdleSweep, SweepState, SweepPC
      <3>2. sw' \in [Sweepers -> SweepState]
        BY <2>13, <3>1 DEF Purge, Crash
      <3> QED
        BY <2>13, <3>2 DEF Purge, Crash
    <2> QED
      BY <2>1, <2>2, <2>3, <2>4, <2>5, <2>6, <2>7, <2>8, <2>9, <2>10, <2>11, <2>12, <2>13
      DEF HNext, Next, Upload, Sweep, SweepStep
  <1>2. /\ overlapped' \subseteq Files
        /\ stirred' \in [Sweepers -> SUBSET Hashes]
        /\ renewed' \in [Sweepers -> SUBSET Hashes]
        /\ stray' \subseteq Hashes
    BY DEF HNext, Remember
  <1> QED
    BY <1>1, <1>2

(***************************************************************************)
(* What each step of a sweep does to the sweep's local variables, field by *)
(* field; no other sweep is touched.                                       *)
(***************************************************************************)
Effect(s, pc, orphans, cur, gone) ==
  /\ sw'[s].pc = pc
  /\ sw'[s].orphans = orphans
  /\ sw'[s].cur = cur
  /\ sw'[s].gone = gone
  /\ \A t \in Sweepers \ {s} : sw'[t] = sw[t]

LEMMA SweepEffects ==
  ASSUME TypeOK, NEW s \in Sweepers
  PROVE  /\ Start(s) => Effect(s, "expire", {}, NoSha, {})
         /\ \A f \in Files : MarkExpired(s, f) =>
              Effect(s, "expire", sw[s].orphans, sw[s].cur, sw[s].gone)
         /\ FindOrphans(s) => Effect(s, "pick", OrphanBlobs, sw[s].cur, sw[s].gone)
         /\ \A h \in Hashes : Recheck(s, h) =>
              Effect(s, IF Referenced(h) THEN "pick" ELSE "unlink",
                     sw[s].orphans \ {h}, IF Referenced(h) THEN NoSha ELSE h, sw[s].gone)
         /\ UnlinkBlob(s) \/ BlobLocked(s) =>
              Effect(s, "unthumb", sw[s].orphans, sw[s].cur, sw[s].gone)
         /\ UnlinkThumb(s) \/ ThumbLocked(s) =>
              Effect(s, "confirm", sw[s].orphans, sw[s].cur, sw[s].gone)
         /\ Confirm(s) =>
              Effect(s, "pick", sw[s].orphans, NoSha,
                     IF OnDisk(sw[s].cur) THEN sw[s].gone ELSE sw[s].gone \cup {sw[s].cur})
         /\ Purge(s) \/ Crash(s) => Effect(s, "idle", {}, NoSha, {})
  <1> USE DEF TypeOK, SweepState, Effect
  <1>1. Start(s) => Effect(s, "expire", {}, NoSha, {})
    BY DEF Start, IdleSweep
  <1>2. ASSUME NEW f \in Files, MarkExpired(s, f)
        PROVE  Effect(s, "expire", sw[s].orphans, sw[s].cur, sw[s].gone)
    BY <1>2 DEF MarkExpired
  <1>3. FindOrphans(s) => Effect(s, "pick", OrphanBlobs, sw[s].cur, sw[s].gone)
    BY DEF FindOrphans
  <1>4. ASSUME NEW h \in Hashes, Recheck(s, h)
        PROVE  Effect(s, IF Referenced(h) THEN "pick" ELSE "unlink",
                      sw[s].orphans \ {h}, IF Referenced(h) THEN NoSha ELSE h, sw[s].gone)
    BY <1>4 DEF Recheck
  <1>5. UnlinkBlob(s) \/ BlobLocked(s) =>
          Effect(s, "unthumb", sw[s].orphans, sw[s].cur, sw[s].gone)
    BY DEF UnlinkBlob, BlobLocked
  <1>6. UnlinkThumb(s) \/ ThumbLocked(s) =>
          Effect(s, "confirm", sw[s].orphans, sw[s].cur, sw[s].gone)
    BY DEF UnlinkThumb, ThumbLocked
  <1>7. Confirm(s) =>
          Effect(s, "pick", sw[s].orphans, NoSha,
                 IF OnDisk(sw[s].cur) THEN sw[s].gone ELSE sw[s].gone \cup {sw[s].cur})
    BY DEF Confirm
  <1>8. Purge(s) \/ Crash(s) => Effect(s, "idle", {}, NoSha, {})
    BY DEF Purge, Crash, IdleSweep
  <1> QED
    BY <1>1, <1>2, <1>3, <1>4, <1>5, <1>6, <1>7, <1>8

(***************************************************************************)
(* Each step keeps the facts about where uploads and sweeps are.           *)
(***************************************************************************)
LEMMA ControlStep ==
  ASSUME IInv, HNext
  PROVE  ShaChosen' /\ CurChosen' /\ OneInsert'
  <1> DEFINE Goal == ShaChosen' /\ CurChosen' /\ OneInsert'
  <1> SUFFICES Goal
    OBVIOUS
  <1> USE ConstantsOK
      DEF IInv, HTypeOK, TypeOK, rowVars, ShaChosen, CurChosen, OneInsert, Window
  <1>1. ASSUME NEW f \in Files, NEW h \in Hashes, Commit(f, h) PROVE Goal
    BY <1>1 DEF Commit
  <1>2. ASSUME NEW f \in Files,
               RefuseQuota(f) \/ Sniff(f) \/ OpenImage(f) \/ WriteThumb(f) \/ Abort(f)
        PROVE  Goal
    BY <1>2 DEF RefuseQuota, Sniff, OpenImage, WriteThumb, Abort
  <1>3. ASSUME NEW f \in Files, Insert(f) PROVE Goal
    BY <1>3 DEF Insert
  <1>4. ASSUME NEW f \in Files, Delete(f) \/ RetentionElapses(f) PROVE Goal
    BY <1>4 DEF Delete, SoftDelete, RetentionElapses
  <1>5. CASE Tick
    BY <1>5 DEF Tick
  <1>6. ASSUME NEW s \in Sweepers, Start(s) \/ FindOrphans(s)
        PROVE  Goal
    <2>1. \/ Effect(s, "expire", {}, NoSha, {})
          \/ Effect(s, "pick", OrphanBlobs, sw[s].cur, sw[s].gone)
      BY <1>6, SweepEffects
    <2>2. UNCHANGED <<status, sha, up, blobs>>
      BY <1>6 DEF Start, FindOrphans
    <2> QED
      BY <1>6, <2>1, <2>2 DEF Effect
  <1>7. ASSUME NEW s \in Sweepers, NEW f \in Files, MarkExpired(s, f)
        PROVE  Goal
    <2>1. Effect(s, "expire", sw[s].orphans, sw[s].cur, sw[s].gone)
      BY <1>7, SweepEffects
    <2>2. /\ UNCHANGED <<sha, up, blobs>>
          /\ \A g \in Files : status'[g] # status[g] =>
               status[g] = "live" /\ status'[g] = "deleted"
      BY <1>7 DEF MarkExpired, SoftDelete
    <2> QED
      BY <2>1, <2>2 DEF Effect
  <1>8. ASSUME NEW s \in Sweepers, NEW h \in Hashes, Recheck(s, h)
        PROVE  Goal
    <2>1. Effect(s, IF Referenced(h) THEN "pick" ELSE "unlink", sw[s].orphans \ {h},
                 IF Referenced(h) THEN NoSha ELSE h, sw[s].gone)
      BY <1>8, SweepEffects
    <2>2. UNCHANGED <<status, sha, up, blobs>>
      BY <1>8 DEF Recheck
    <2> QED
      BY <1>8, <2>1, <2>2 DEF Effect
  <1>9. ASSUME NEW s \in Sweepers,
               UnlinkBlob(s) \/ BlobLocked(s) \/ UnlinkThumb(s) \/ ThumbLocked(s)
        PROVE  Goal
    <2>1. \/ Effect(s, "unthumb", sw[s].orphans, sw[s].cur, sw[s].gone)
          \/ Effect(s, "confirm", sw[s].orphans, sw[s].cur, sw[s].gone)
      BY <1>9, SweepEffects
    <2>2. UNCHANGED <<status, sha, up>> /\ sw[s].pc \in {"unlink", "unthumb"}
      BY <1>9 DEF UnlinkBlob, BlobLocked, UnlinkThumb, ThumbLocked
    <2> QED
      BY <2>1, <2>2 DEF Effect
  <1>10. ASSUME NEW s \in Sweepers, Confirm(s)
        PROVE  Goal
    <2>1. \E gone : Effect(s, "pick", sw[s].orphans, NoSha, gone)
      BY <1>10, SweepEffects
    <2>2. UNCHANGED <<status, sha, up, blobs>>
      BY <1>10 DEF Confirm
    <2> QED
      BY <2>1, <2>2 DEF Effect
  <1>11. ASSUME NEW s \in Sweepers, Purge(s) \/ Crash(s)
        PROVE  Goal
    <2>1. Effect(s, "idle", {}, NoSha, {})
      BY <1>11, SweepEffects
    <2>2. /\ UNCHANGED <<sha, up, blobs>>
          /\ \A g \in Files : status'[g] # status[g] =>
               status[g] = "deleted" /\ status'[g] = "absent"
      BY <1>11 DEF Purge, Crash
    <2> QED
      BY <2>1, <2>2 DEF Effect
  <1> QED
    BY <1>1, <1>2, <1>3, <1>4, <1>5, <1>6, <1>7, <1>8, <1>9, <1>10, <1>11
    DEF HNext, Next, Upload, Sweep, SweepStep

(***************************************************************************)
(* A sweep reaches an unlink only through the recheck of that hash, and    *)
(* the recheck makes every upload then in its window an overlapped one.    *)
(***************************************************************************)
LEMMA OverlapStep ==
  ASSUME IInv, HNext
  PROVE  OnlyOverlapLosesBytes' /\ WindowHasBytes' /\ UnlinkFacesOverlap'
  <1> DEFINE Goal == OnlyOverlapLosesBytes' /\ WindowHasBytes' /\ UnlinkFacesOverlap'
  <1> SUFFICES Goal
    OBVIOUS
  <1>0. overlapped' = overlapped \cup {f \in Files : Collides(f)'}
    BY DEF HNext, Remember
  <1> USE <1>0
      DEF IInv, HTypeOK, TypeOK, rowVars, OnlyOverlapLosesBytes, WindowHasBytes,
          UnlinkFacesOverlap, Collides, Window
  <1>1. ASSUME NEW f \in Files, NEW h \in Hashes, Commit(f, h) PROVE Goal
    BY <1>1 DEF Commit, OneInsert
  <1>2. ASSUME NEW f \in Files,
               RefuseQuota(f) \/ Sniff(f) \/ OpenImage(f) \/ WriteThumb(f) \/ Abort(f)
        PROVE  Goal
    BY <1>2 DEF RefuseQuota, Sniff, OpenImage, WriteThumb, Abort
  <1>3. ASSUME NEW f \in Files, Insert(f) PROVE Goal
    BY <1>3 DEF Insert
  <1>4. ASSUME NEW f \in Files, Delete(f) \/ RetentionElapses(f) PROVE Goal
    BY <1>4 DEF Delete, SoftDelete, RetentionElapses
  <1>5. CASE Tick
    BY <1>5 DEF Tick
  <1>6. ASSUME NEW s \in Sweepers, Start(s) \/ FindOrphans(s)
        PROVE  Goal
    <2>1. \/ Effect(s, "expire", {}, NoSha, {})
          \/ Effect(s, "pick", OrphanBlobs, sw[s].cur, sw[s].gone)
      BY <1>6, SweepEffects
    <2>2. UNCHANGED <<status, sha, up, blobs>>
      BY <1>6 DEF Start, FindOrphans
    <2> QED
      BY <1>6, <2>1, <2>2 DEF Effect
  <1>7. ASSUME NEW s \in Sweepers, NEW f \in Files, MarkExpired(s, f)
        PROVE  Goal
    <2>1. Effect(s, "expire", sw[s].orphans, sw[s].cur, sw[s].gone)
      BY <1>7, SweepEffects
    <2>2. /\ UNCHANGED <<sha, up, blobs>>
          /\ \A g \in Files : status'[g] # status[g] =>
               status[g] = "live" /\ status'[g] = "deleted"
      BY <1>7 DEF MarkExpired, SoftDelete
    <2> QED
      BY <2>1, <2>2 DEF Effect
  <1>8. ASSUME NEW s \in Sweepers, NEW h \in Hashes, Recheck(s, h)
        PROVE  Goal
    <2>1. Effect(s, IF Referenced(h) THEN "pick" ELSE "unlink", sw[s].orphans \ {h},
                 IF Referenced(h) THEN NoSha ELSE h, sw[s].gone)
      BY <1>8, SweepEffects
    <2>2. UNCHANGED <<status, sha, up, blobs>>
      BY <1>8 DEF Recheck
    <2> QED
      BY <1>8, <2>1, <2>2 DEF Effect, Referenced
  <1>9. ASSUME NEW s \in Sweepers, UnlinkBlob(s)
        PROVE  Goal
    <2>1. Effect(s, "unthumb", sw[s].orphans, sw[s].cur, sw[s].gone)
      BY <1>9, SweepEffects
    <2>2. /\ UNCHANGED <<status, sha, up>>
          /\ sw[s].pc = "unlink"
          /\ blobs' = blobs \ {sw[s].cur}
      BY <1>9 DEF UnlinkBlob
    <2> QED
      BY <2>1, <2>2 DEF Effect
  <1>10. ASSUME NEW s \in Sweepers, BlobLocked(s) \/ UnlinkThumb(s) \/ ThumbLocked(s)
        PROVE  Goal
    <2>1. \/ Effect(s, "unthumb", sw[s].orphans, sw[s].cur, sw[s].gone)
          \/ Effect(s, "confirm", sw[s].orphans, sw[s].cur, sw[s].gone)
      BY <1>10, SweepEffects
    <2>2. UNCHANGED <<status, sha, up, blobs>>
      BY <1>10 DEF BlobLocked, UnlinkThumb, ThumbLocked
    <2> QED
      BY <1>10, <2>1, <2>2 DEF Effect
  <1>11. ASSUME NEW s \in Sweepers, Confirm(s)
        PROVE  Goal
    <2>1. \E gone : Effect(s, "pick", sw[s].orphans, NoSha, gone)
      BY <1>11, SweepEffects
    <2>2. UNCHANGED <<status, sha, up, blobs>>
      BY <1>11 DEF Confirm
    <2> QED
      BY <2>1, <2>2 DEF Effect
  <1>12. ASSUME NEW s \in Sweepers, Purge(s) \/ Crash(s)
        PROVE  Goal
    <2>1. Effect(s, "idle", {}, NoSha, {})
      BY <1>12, SweepEffects
    <2>2. /\ UNCHANGED <<sha, up, blobs>>
          /\ \A g \in Files : status'[g] # status[g] =>
               status[g] = "deleted" /\ status'[g] = "absent"
      BY <1>12 DEF Purge, Crash
    <2> QED
      BY <2>1, <2>2 DEF Effect
  <1> QED
    BY <1>1, <1>2, <1>3, <1>4, <1>5, <1>6, <1>7, <1>8, <1>9, <1>10, <1>11, <1>12
    DEF HNext, Next, Upload, Sweep, SweepStep

(***************************************************************************)
(* A sweep drops the rows of hashes it has confirmed gone.  One of these   *)
(* is back on disk only if an upload of it was in its window since, and    *)
(* then it is stirred, so the purge leaves it a row or makes it a stray.   *)
(***************************************************************************)
LEMMA DiskStep ==
  ASSUME IInv, HNext
  PROVE  GoneStaysGone' /\ BytesAccountedFor'
  <1> DEFINE Goal == GoneStaysGone' /\ BytesAccountedFor'
  <1> SUFFICES Goal
    OBVIOUS
  <1>0. /\ stirred' = [s \in Sweepers |->
             {h \in Hashes : h \in sw'[s].gone /\ (h \in stirred[s] \/ InWindow(h)')}]
        /\ stray' = {h \in Hashes :
             /\ ~HasRow(h)'
             /\ \/ h \in stray
                \/ \E f \in Files : sha[f] = h /\ GivenUp(f)
                \/ \E s \in Sweepers : h \in stirred[s]}
    BY DEF HNext, Remember
  <1>t. \A s \in Sweepers : sw'[s].gone \subseteq Hashes
    BY TypeStep DEF IInv, HTypeOK, TypeOK, SweepState
  <1> USE <1>0, <1>t
  <1> USE DEF IInv, HTypeOK, TypeOK, rowVars, ShaChosen, OneInsert, GoneStaysGone,
              BytesAccountedFor, OnDisk, HasRow, InWindow, GivenUp, Window
  <1>1. ASSUME NEW f \in Files, NEW h \in Hashes, Commit(f, h) PROVE Goal
    BY <1>1 DEF Commit
  <1>2. ASSUME NEW f \in Files,
               RefuseQuota(f) \/ Sniff(f) \/ OpenImage(f) \/ Abort(f)
        PROVE  Goal
    BY <1>2 DEF RefuseQuota, Sniff, OpenImage, Abort
  <1>3. ASSUME NEW f \in Files, WriteThumb(f) PROVE Goal
    BY <1>3 DEF WriteThumb
  <1>4. ASSUME NEW f \in Files, Insert(f) PROVE Goal
    BY <1>4 DEF Insert
  <1>5. ASSUME NEW f \in Files, Delete(f) \/ RetentionElapses(f) PROVE Goal
    BY <1>5 DEF Delete, SoftDelete, RetentionElapses
  <1>6. CASE Tick
    BY <1>6 DEF Tick
  <1>7. ASSUME NEW s \in Sweepers, Start(s) \/ FindOrphans(s) PROVE Goal
    <2>1. \/ Effect(s, "expire", {}, NoSha, {})
          \/ Effect(s, "pick", OrphanBlobs, sw[s].cur, sw[s].gone)
      BY <1>7, SweepEffects
    <2>2. UNCHANGED <<status, sha, up, blobs, thumbs>>
      BY <1>7 DEF Start, FindOrphans
    <2> QED
      BY <2>1, <2>2 DEF Effect
  <1>8. ASSUME NEW s \in Sweepers, NEW f \in Files, MarkExpired(s, f) PROVE Goal
    <2>1. Effect(s, "expire", sw[s].orphans, sw[s].cur, sw[s].gone)
      BY <1>8, SweepEffects
    <2>2. /\ UNCHANGED <<sha, up, blobs, thumbs>>
          /\ \A g \in Files : status'[g] # status[g] =>
               status[g] = "live" /\ status'[g] = "deleted"
      BY <1>8 DEF MarkExpired, SoftDelete
    <2> QED
      BY <2>1, <2>2 DEF Effect
  <1>9. ASSUME NEW s \in Sweepers, NEW h \in Hashes, Recheck(s, h) PROVE Goal
    <2>1. sw'[s].gone = sw[s].gone /\ \A t \in Sweepers \ {s} : sw'[t] = sw[t]
      BY <1>9, SweepEffects DEF Effect
    <2>2. UNCHANGED <<status, sha, up, blobs, thumbs>>
      BY <1>9 DEF Recheck
    <2> QED
      BY <2>1, <2>2
  <1>10. ASSUME NEW s \in Sweepers,
                UnlinkBlob(s) \/ BlobLocked(s) \/ UnlinkThumb(s) \/ ThumbLocked(s)
         PROVE  Goal
    <2>1. sw'[s].gone = sw[s].gone /\ \A t \in Sweepers \ {s} : sw'[t] = sw[t]
      BY <1>10, SweepEffects DEF Effect
    <2>2. /\ UNCHANGED <<status, sha, up>>
          /\ blobs' \subseteq blobs
          /\ thumbs' \subseteq thumbs
      BY <1>10 DEF UnlinkBlob, BlobLocked, UnlinkThumb, ThumbLocked
    <2> QED
      BY <2>1, <2>2
  <1>11. ASSUME NEW s \in Sweepers, Confirm(s) PROVE Goal
    <2>1. /\ sw'[s].gone = IF OnDisk(sw[s].cur) THEN sw[s].gone
                           ELSE sw[s].gone \cup {sw[s].cur}
          /\ \A t \in Sweepers \ {s} : sw'[t] = sw[t]
      BY <1>11, SweepEffects DEF Effect
    <2>2. UNCHANGED <<status, sha, up, blobs, thumbs>>
      BY <1>11 DEF Confirm
    <2> QED
      BY <2>1, <2>2
  <1>12. ASSUME NEW s \in Sweepers, Purge(s) PROVE Goal
    <2>1. Effect(s, "idle", {}, NoSha, {})
      BY <1>12, SweepEffects
    <2>2. /\ UNCHANGED <<sha, up, blobs, thumbs>>
          /\ \A g \in Files :
               \/ status'[g] = status[g]
               \/ status'[g] = "absent" /\ sha[g] \in sw[s].gone
      BY <1>12 DEF Purge
    <2> QED
      BY <2>1, <2>2 DEF Effect
  <1>13. ASSUME NEW s \in Sweepers, Crash(s) PROVE Goal
    <2>1. Effect(s, "idle", {}, NoSha, {})
      BY <1>13, SweepEffects
    <2>2. UNCHANGED <<status, sha, up, blobs, thumbs>>
      BY <1>13 DEF Crash
    <2> QED
      BY <2>1, <2>2 DEF Effect
  <1> QED
    BY <1>1, <1>2, <1>3, <1>4, <1>5, <1>6, <1>7, <1>8, <1>9, <1>10, <1>11, <1>12, <1>13
    DEF HNext, Next, Upload, Sweep, SweepStep

(***************************************************************************)
(* A listed hash was old when it was listed, and a younger deletion of it  *)
(* needs a live row, which makes it a renewed one.                         *)
(***************************************************************************)
LEMMA GraceStep ==
  ASSUME IInv, HNext
  PROVE  ListedIsOld'
  <1>0. renewed' = [s \in Sweepers |->
          {h \in Hashes : h \in Listed(s)' /\ (h \in renewed[s] \/ Referenced(h)')}]
    BY DEF HNext, Remember
  <1> USE <1>0, ConstantsOK
  <1> USE DEF IInv, HTypeOK, TypeOK, rowVars, ShaChosen, OneInsert, ListedIsOld, Listed,
              Referenced, RowsOf, Window
  <1>1. ASSUME NEW f \in Files, NEW h \in Hashes, Commit(f, h) PROVE ListedIsOld'
    BY <1>1 DEF Commit
  <1>2. ASSUME NEW f \in Files,
               RefuseQuota(f) \/ Sniff(f) \/ OpenImage(f) \/ WriteThumb(f) \/ Abort(f)
        PROVE  ListedIsOld'
    BY <1>2 DEF RefuseQuota, Sniff, OpenImage, WriteThumb, Abort
  <1>3. ASSUME NEW f \in Files, Insert(f) PROVE ListedIsOld'
    BY <1>3 DEF Insert
  <1>4. ASSUME NEW f \in Files, Delete(f) \/ RetentionElapses(f) PROVE ListedIsOld'
    BY <1>4 DEF Delete, SoftDelete, RetentionElapses
  <1>5. CASE Tick
    BY <1>5 DEF Tick
  <1>6. ASSUME NEW s \in Sweepers, Start(s) PROVE ListedIsOld'
    <2>1. Effect(s, "expire", {}, NoSha, {})
      BY <1>6, SweepEffects
    <2>2. UNCHANGED <<status, age, sha>>
      BY <1>6 DEF Start
    <2> QED
      BY <2>1, <2>2 DEF Effect
  <1>7. ASSUME NEW s \in Sweepers, NEW f \in Files, MarkExpired(s, f) PROVE ListedIsOld'
    <2>1. Effect(s, "expire", sw[s].orphans, sw[s].cur, sw[s].gone)
      BY <1>7, SweepEffects
    <2>2. /\ UNCHANGED sha
          /\ \A g \in Files :
               \/ status'[g] = status[g] /\ age'[g] = age[g]
               \/ status[g] = "live"
      BY <1>7 DEF MarkExpired, SoftDelete
    <2> QED
      BY <2>1, <2>2 DEF Effect
  <1>8. ASSUME NEW s \in Sweepers, FindOrphans(s) PROVE ListedIsOld'
    <2>1. Effect(s, "pick", OrphanBlobs, sw[s].cur, sw[s].gone)
      BY <1>8, SweepEffects
    <2>2. UNCHANGED <<status, age, sha>>
      BY <1>8 DEF FindOrphans
    <2> QED
      BY <2>1, <2>2 DEF Effect, OrphanBlobs
  <1>9. ASSUME NEW s \in Sweepers, NEW h \in Hashes, Recheck(s, h) PROVE ListedIsOld'
    <2>1. h \in sw[s].orphans /\ UNCHANGED <<status, age, sha>>
      BY <1>9 DEF Recheck
    <2>2. Effect(s, IF Referenced(h) THEN "pick" ELSE "unlink", sw[s].orphans \ {h},
                 IF Referenced(h) THEN NoSha ELSE h, sw[s].gone)
      BY <1>9, SweepEffects
    <2>3. /\ Listed(s)' \subseteq Listed(s) \cup {NoSha}
          /\ \A t \in Sweepers \ {s} : sw'[t] = sw[t]
      BY <2>1, <2>2 DEF Effect
    <2> QED
      BY <2>1, <2>3
  <1>10. ASSUME NEW s \in Sweepers,
                \/ UnlinkBlob(s) \/ BlobLocked(s) \/ UnlinkThumb(s) \/ ThumbLocked(s)
                \/ Confirm(s)
         PROVE  ListedIsOld'
    <2>1. /\ Listed(s)' \subseteq Listed(s) \cup {NoSha}
          /\ \A t \in Sweepers \ {s} : sw'[t] = sw[t]
      BY <1>10, SweepEffects DEF Effect
    <2>2. UNCHANGED <<status, age, sha>>
      BY <1>10 DEF UnlinkBlob, BlobLocked, UnlinkThumb, ThumbLocked, Confirm
    <2> QED
      BY <2>1, <2>2
  <1>11. ASSUME NEW s \in Sweepers, Purge(s) \/ Crash(s) PROVE ListedIsOld'
    <2>1. Effect(s, "idle", {}, NoSha, {})
      BY <1>11, SweepEffects
    <2>2. /\ UNCHANGED sha
          /\ \A g \in Files :
               \/ status'[g] = status[g] /\ age'[g] = age[g]
               \/ status'[g] = "absent"
      BY <1>11 DEF Purge, Crash
    <2> QED
      BY <2>1, <2>2 DEF Effect
  <1> QED
    BY <1>1, <1>2, <1>3, <1>4, <1>5, <1>6, <1>7, <1>8, <1>9, <1>10, <1>11
    DEF HNext, Next, Upload, Sweep, SweepStep

(***************************************************************************)
(* A step of nothing keeps the invariant.                                  *)
(***************************************************************************)
LEMMA StutterStep == ASSUME IInv, UNCHANGED hvars PROVE IInv'
  <1> USE DEF IInv, hvars, vars
  <1>1. HTypeOK' /\ ShaChosen' /\ CurChosen' /\ OneInsert'
    BY DEF HTypeOK, TypeOK, ShaChosen, CurChosen, OneInsert
  <1>2. OnlyOverlapLosesBytes' /\ WindowHasBytes' /\ UnlinkFacesOverlap'
    BY DEF OnlyOverlapLosesBytes, WindowHasBytes, UnlinkFacesOverlap
  <1>3. GoneStaysGone' /\ BytesAccountedFor'
    BY DEF GoneStaysGone, BytesAccountedFor, OnDisk, HasRow, InWindow
  <1>4. ListedIsOld'
    BY DEF ListedIsOld, Listed, RowsOf
  <1> QED
    BY <1>1, <1>2, <1>3, <1>4

LEMMA StepIInv == ASSUME IInv, HNext PROVE IInv'
  <1>1. HTypeOK'
    BY TypeStep DEF IInv
  <1> QED
    BY <1>1, ControlStep, OverlapStep, DiskStep, GraceStep DEF IInv

(***************************************************************************)
(* The invariant holds in every reachable state: of any number of uploads, *)
(* contents, workers and sweeps, in any interleaving, with crashes and     *)
(* locked files.                                                           *)
(***************************************************************************)
THEOREM Invariance == HSpec => []IInv
  <1>1. IInv /\ [HNext]_hvars => IInv'
    BY StepIInv, StutterStep
  <1> QED
    BY InitIInv, <1>1, PTL DEF HSpec

(***************************************************************************)
(* Only the race between the recheck and an upload's window loses bytes    *)
(* (cleanup.run_once step 2b; files.upload_file).                          *)
(***************************************************************************)
THEOREM NoOtherLoss == HSpec => []OnlyOverlapLosesBytes
  <1>1. IInv => OnlyOverlapLosesBytes
    BY DEF IInv
  <1> QED
    BY <1>1, Invariance, PTL

(***************************************************************************)
(* Locked files and sweeps that die leave no bytes behind without a row    *)
(* (cleanup.run_once step 2c, db.purge_hashes).                            *)
(***************************************************************************)
THEOREM NothingForgotten == HSpec => []BytesAccountedFor
  <1>1. IInv => BytesAccountedFor
    BY DEF IInv
  <1> QED
    BY <1>1, Invariance, PTL

(***************************************************************************)
(* A sweep unlinks only what was deleted for Grace, or was live since the  *)
(* sweep listed it (db.find_orphan_blobs, cleanup.run_once).               *)
(***************************************************************************)
THEOREM GraceHonoured == HSpec => UnlinkOnlyAfterGrace
  <1> DEFINE A == \A h \in blobs \ blobs' :
                    \E s \in Sweepers :
                      /\ sw[s].pc = "unlink" /\ sw[s].cur = h
                      /\ \/ h \in renewed[s]
                         \/ \A f \in RowsOf(h) : status[f] = "deleted" /\ age[f] >= Grace
  <1>1. ASSUME IInv, [HNext]_hvars PROVE [A]_hvars
    <2>1. CASE \E s \in Sweepers : UnlinkBlob(s)
      <3>1. PICK s \in Sweepers : UnlinkBlob(s)
        BY <2>1
      <3>2. sw[s].cur \in Listed(s) /\ sw[s].cur \in Hashes
        BY <1>1, <3>1 DEF Listed, UnlinkBlob, IInv, CurChosen
      <3> QED
        BY <1>1, <3>1, <3>2 DEF UnlinkBlob, IInv, ListedIsOld
    <2>2. CASE HNext /\ ~\E s \in Sweepers : UnlinkBlob(s)
      <3>1. blobs \subseteq blobs'
        BY <2>2 DEF HNext, Next, Upload, Sweep, SweepStep, Commit, RefuseQuota, Sniff,
                    OpenImage, WriteThumb, Insert, Abort, Delete, RetentionElapses, Tick,
                    Start, MarkExpired, FindOrphans, Recheck, BlobLocked, UnlinkThumb,
                    ThumbLocked, Confirm, Purge, Crash
      <3> QED
        BY <3>1
    <2> QED
      BY <1>1, <2>1, <2>2
  <1> QED
    BY <1>1, Invariance, PTL DEF HSpec, UnlinkOnlyAfterGrace

(***************************************************************************)
(* A purge drops only rows that are deleted, and for Grace unless the hash *)
(* was live since the sweep listed it (db.purge_hashes).                   *)
(***************************************************************************)
THEOREM PurgeHonoursGrace == HSpec => PurgeOnlyAfterGrace
  <1> DEFINE A == \A f \in Files :
                    status[f] # "absent" /\ status'[f] = "absent" =>
                      /\ status[f] = "deleted"
                      /\ \E s \in Sweepers :
                           /\ sw[s].pc = "pick" /\ sha[f] \in sw[s].gone
                           /\ age[f] >= Grace \/ sha[f] \in renewed[s]
  <1>1. ASSUME IInv, [HNext]_hvars PROVE [A]_hvars
    <2>1. CASE \E s \in Sweepers : Purge(s)
      <3>1. PICK s \in Sweepers : Purge(s)
        BY <2>1
      <3> SUFFICES ASSUME NEW f \in Files, status[f] # "absent", status'[f] = "absent"
                   PROVE  /\ status[f] = "deleted"
                          /\ sw[s].pc = "pick" /\ sha[f] \in sw[s].gone
                          /\ age[f] >= Grace \/ sha[f] \in renewed[s]
        OBVIOUS
      <3>2. status[f] = "deleted" /\ sw[s].pc = "pick" /\ sha[f] \in sw[s].gone
        BY <3>1 DEF Purge
      <3>3. sha[f] \in Listed(s) /\ sha[f] \in Hashes /\ f \in RowsOf(sha[f])
        BY <1>1, <3>2 DEF Listed, RowsOf, IInv, ShaChosen
      <3> QED
        BY <1>1, <3>2, <3>3 DEF IInv, ListedIsOld
    <2>2. CASE HNext /\ ~\E s \in Sweepers : Purge(s)
      <3>1. \A f \in Files : status'[f] = "absent" => status[f] = "absent"
        BY <1>1, <2>2 DEF HNext, Next, Upload, Sweep, SweepStep, Commit, RefuseQuota, Sniff,
                    OpenImage, WriteThumb, Insert, Abort, Delete, RetentionElapses, Tick,
                    Start, MarkExpired, SoftDelete, FindOrphans, Recheck, UnlinkBlob,
                    BlobLocked, UnlinkThumb, ThumbLocked, Confirm, Crash, rowVars,
                    IInv, HTypeOK, TypeOK
      <3> QED
        BY <3>1
    <2> QED
      BY <1>1, <2>1, <2>2
  <1> QED
    BY <1>1, Invariance, PTL DEF HSpec, PurgeOnlyAfterGrace

-----------------------------------------------------------------------------
(* Readers *)

(***************************************************************************)
(* Opening a thumbnail to write it keeps what holds of uploads and sweeps: *)
(* it is done by an upload in its window.                                  *)
(***************************************************************************)
LEMMA OpenThumbStep ==
  ASSUME IInv, NEW f \in Files, OpenThumb(f), Remember
  PROVE  IInv'
  <1> USE DEF IInv, HTypeOK, TypeOK, rowVars, OpenThumb, Window
  <1>1. sha[f] \in Hashes /\ up[f] = "decoded"
    BY DEF ShaChosen
  <1>2. /\ thumbs' = thumbs \cup {sha[f]}
        /\ UNCHANGED <<status, expiry, age, sha, up, sw, blobs>>
    OBVIOUS
  <1>3. HTypeOK'
    BY <1>1, <1>2 DEF Remember
  <1>4. ShaChosen' /\ CurChosen' /\ OneInsert' /\ stray' \subseteq Hashes
    BY <1>2 DEF ShaChosen, CurChosen, OneInsert, Remember
  <1>5. OnlyOverlapLosesBytes' /\ WindowHasBytes' /\ UnlinkFacesOverlap'
    BY <1>2 DEF OnlyOverlapLosesBytes, WindowHasBytes, UnlinkFacesOverlap, Remember
  <1>6. GoneStaysGone'
    BY <1>1, <1>2 DEF GoneStaysGone, Remember, OnDisk, InWindow, SweepState
  <1>7. BytesAccountedFor'
    BY <1>1, <1>2 DEF BytesAccountedFor, Remember, OnDisk, HasRow, InWindow
  <1>8. ListedIsOld'
    BY <1>2 DEF ListedIsOld, Remember, Listed, Referenced, RowsOf
  <1> QED
    BY <1>3, <1>4, <1>5, <1>6, <1>7, <1>8

(***************************************************************************)
(* What a step of the store does, as far as readers can tell.              *)
(***************************************************************************)
StoreStep == HNext \/ ((\E f \in Files : OpenThumb(f)) /\ Remember)

\* A row that was inserted, until it is dropped with all its like.
RowEffect ==
  /\ \A f \in Files : up[f] = "done" =>
       /\ up'[f] = "done" /\ sha'[f] = sha[f]
       /\ status[f] = "absent" => status'[f] = "absent"
       /\ status[f] # "absent" /\ status'[f] = "absent" =>
            \A g \in Files : status'[g] = "deleted" => sha'[g] # sha[f]
  /\ \A f \in Files : status'[f] = "deleted" =>
       \/ status[f] = "live" /\ age'[f] = 0
       \/ status[f] = "deleted" /\ age'[f] = age[f]
       \/ status[f] = "deleted" /\ Tick /\ age'[f] <= age[f] + 1

LEMMA RowEffects == ASSUME IInv, StoreStep PROVE RowEffect
  <1> USE DEF IInv, HTypeOK, TypeOK, OneInsert, rowVars, RowEffect, Window
  <1>1. ASSUME NEW f \in Files, NEW h \in Hashes, Commit(f, h) PROVE RowEffect
    BY <1>1 DEF Commit
  <1>2. ASSUME NEW f \in Files,
               \/ RefuseQuota(f) \/ Sniff(f) \/ OpenImage(f) \/ WriteThumb(f) \/ Abort(f)
               \/ OpenThumb(f)
        PROVE  RowEffect
    BY <1>2 DEF RefuseQuota, Sniff, OpenImage, WriteThumb, Abort, OpenThumb
  <1>3. ASSUME NEW f \in Files, Insert(f) PROVE RowEffect
    BY <1>3 DEF Insert
  <1>4. ASSUME NEW f \in Files, Delete(f) \/ RetentionElapses(f) PROVE RowEffect
    BY <1>4 DEF Delete, SoftDelete, RetentionElapses
  <1>5. CASE Tick
    <2>1. \A f \in Files : age'[f] <= age[f] + 1
      BY <1>5, ConstantsOK DEF Tick
    <2>2. UNCHANGED <<status, sha, up>>
      BY <1>5 DEF Tick
    <2> QED
      BY <1>5, <2>1, <2>2
  <1>6. ASSUME NEW s \in Sweepers,
               \/ Start(s) \/ FindOrphans(s) \/ UnlinkBlob(s) \/ BlobLocked(s)
               \/ UnlinkThumb(s) \/ ThumbLocked(s) \/ Confirm(s) \/ Crash(s)
               \/ \E h \in Hashes : Recheck(s, h)
        PROVE  RowEffect
    <2>1. UNCHANGED <<status, age, sha, up>>
      BY <1>6 DEF Start, FindOrphans, UnlinkBlob, BlobLocked, UnlinkThumb, ThumbLocked,
                  Confirm, Crash, Recheck
    <2> QED
      BY <2>1
  <1>7. ASSUME NEW s \in Sweepers, NEW f \in Files, MarkExpired(s, f) PROVE RowEffect
    BY <1>7 DEF MarkExpired, SoftDelete
  <1>8. ASSUME NEW s \in Sweepers, Purge(s) PROVE RowEffect
    <2>1. /\ UNCHANGED <<sha, up>>
          /\ \A f \in Files :
               IF status[f] = "deleted" /\ sha[f] \in sw[s].gone
                 THEN status'[f] = "absent"
                 ELSE status'[f] = status[f] /\ age'[f] = age[f]
      BY <1>8 DEF Purge
    <2> QED
      BY <2>1
  <1> QED
    BY <1>1, <1>2, <1>3, <1>4, <1>5, <1>6, <1>7, <1>8
    DEF StoreStep, HNext, Next, Upload, Sweep, SweepStep

\* A hash gets on a list only when it has rows, all of them old.
ListEffect ==
  \A s \in Sweepers : \A h \in Hashes : h \in Listed(s)' =>
    \/ h \in Listed(s)
    \/ HasRow(h) /\ UNCHANGED status /\ \A f \in RowsOf(h) : status[f] = "deleted" /\ age[f] >= Grace

LEMMA ListEffects == ASSUME IInv, StoreStep PROVE ListEffect
  <1> USE ConstantsOK DEF IInv, HTypeOK, ListEffect, Listed
  <1>1. ASSUME UNCHANGED sw PROVE ListEffect
    BY <1>1
  <1>2. ASSUME NEW s \in Sweepers, FindOrphans(s) PROVE ListEffect
    <2>1. Effect(s, "pick", OrphanBlobs, sw[s].cur, sw[s].gone)
      BY <1>2, SweepEffects
    <2>2. UNCHANGED status
      BY <1>2 DEF FindOrphans, rowVars
    <2> QED
      BY <2>1, <2>2 DEF Effect, OrphanBlobs
  <1>3. ASSUME NEW s \in Sweepers, Start(s) \/ Purge(s) \/ Crash(s) PROVE ListEffect
    <2>1. \E pc : Effect(s, pc, {}, NoSha, {})
      BY <1>3, SweepEffects
    <2> QED
      BY <2>1 DEF Effect
  <1>4. ASSUME NEW s \in Sweepers,
               \/ \E f \in Files : MarkExpired(s, f)
               \/ UnlinkBlob(s) \/ BlobLocked(s) \/ UnlinkThumb(s) \/ ThumbLocked(s)
        PROVE  ListEffect
    <2>1. \E pc : Effect(s, pc, sw[s].orphans, sw[s].cur, sw[s].gone)
      BY <1>4, SweepEffects
    <2> QED
      BY <2>1 DEF Effect
  <1>5. ASSUME NEW s \in Sweepers, Confirm(s) PROVE ListEffect
    <2>1. Effect(s, "pick", sw[s].orphans, NoSha,
                 IF OnDisk(sw[s].cur) THEN sw[s].gone ELSE sw[s].gone \cup {sw[s].cur})
      BY <1>5, SweepEffects
    <2> QED
      BY <2>1 DEF Effect
  <1>6. ASSUME NEW s \in Sweepers, NEW h \in Hashes, Recheck(s, h) PROVE ListEffect
    <2>1. Effect(s, IF Referenced(h) THEN "pick" ELSE "unlink", sw[s].orphans \ {h},
                 IF Referenced(h) THEN NoSha ELSE h, sw[s].gone)
      BY <1>6, SweepEffects
    <2>2. h \in sw[s].orphans
      BY <1>6 DEF Recheck
    <2> QED
      BY <2>1, <2>2 DEF Effect
  <1>7. ASSUME NEW f \in Files,
               \/ Upload(f) \/ Delete(f) \/ RetentionElapses(f) \/ OpenThumb(f)
        PROVE  UNCHANGED sw
    BY <1>7 DEF Upload, Commit, RefuseQuota, Sniff, OpenImage, WriteThumb, Insert, Abort,
                Delete, RetentionElapses, OpenThumb
  <1>8. Tick => UNCHANGED sw
    BY DEF Tick
  <1> QED
    BY <1>1, <1>2, <1>3, <1>4, <1>5, <1>6, <1>7, <1>8
    DEF StoreStep, HNext, Next, Sweep, SweepStep

\* Who removes a file, and how a hash gets its first row.
DiskEffect ==
  /\ \A h \in blobs \ blobs' : \E s \in Sweepers :
       sw[s].cur = h /\ sw[s].pc = "unlink" /\ sw'[s].pc = "unthumb"
  /\ \A h \in thumbs \ thumbs' : \E s \in Sweepers :
       sw[s].cur = h /\ sw[s].pc = "unthumb" /\ sw'[s].pc = "confirm"
  /\ \A h \in Hashes : HasRow(h)' => HasRow(h) \/ InWindow(h)
  /\ \A f \in Files : up[f] = "decoded" =>
       up'[f] \in {"decoded", "ready", "dead"} /\ sha'[f] = sha[f]

LEMMA DiskEffects == ASSUME IInv, StoreStep PROVE DiskEffect
  <1> USE DEF IInv, HTypeOK, TypeOK, rowVars, DiskEffect, HasRow, InWindow, Window
  <1>1. ASSUME NEW f \in Files, NEW h \in Hashes, Commit(f, h) PROVE DiskEffect
    BY <1>1 DEF Commit, OneInsert
  <1>2. ASSUME NEW f \in Files,
               \/ RefuseQuota(f) \/ Sniff(f) \/ OpenImage(f) \/ WriteThumb(f) \/ Abort(f)
               \/ OpenThumb(f)
        PROVE  DiskEffect
    BY <1>2 DEF RefuseQuota, Sniff, OpenImage, WriteThumb, Abort, OpenThumb
  <1>3. ASSUME NEW f \in Files, Insert(f) PROVE DiskEffect
    BY <1>3 DEF Insert
  <1>4. ASSUME NEW f \in Files, Delete(f) \/ RetentionElapses(f) PROVE DiskEffect
    BY <1>4 DEF Delete, SoftDelete, RetentionElapses
  <1>5. CASE Tick
    BY <1>5 DEF Tick
  <1>6. ASSUME NEW s \in Sweepers,
               \/ Start(s) \/ FindOrphans(s) \/ BlobLocked(s) \/ ThumbLocked(s)
               \/ Confirm(s) \/ Crash(s) \/ \E h \in Hashes : Recheck(s, h)
        PROVE  DiskEffect
    <2>1. UNCHANGED <<status, sha, up, blobs, thumbs>>
      BY <1>6 DEF Start, FindOrphans, BlobLocked, ThumbLocked, Confirm, Crash, Recheck
    <2> QED
      BY <2>1
  <1>7. ASSUME NEW s \in Sweepers, UnlinkBlob(s) PROVE DiskEffect
    <2>1. sw'[s].pc = "unthumb"
      BY <1>7, SweepEffects DEF Effect
    <2>2. sw[s].pc = "unlink" /\ blobs' = blobs \ {sw[s].cur}
      BY <1>7 DEF UnlinkBlob
    <2>3. UNCHANGED <<status, sha, up, thumbs>>
      BY <1>7 DEF UnlinkBlob
    <2> QED
      BY <2>1, <2>2, <2>3
  <1>8. ASSUME NEW s \in Sweepers, UnlinkThumb(s) PROVE DiskEffect
    <2>1. sw'[s].pc = "confirm"
      BY <1>8, SweepEffects DEF Effect
    <2>2. sw[s].pc = "unthumb" /\ thumbs' = thumbs \ {sw[s].cur}
      BY <1>8 DEF UnlinkThumb
    <2>3. UNCHANGED <<status, sha, up, blobs>>
      BY <1>8 DEF UnlinkThumb
    <2> QED
      BY <2>1, <2>2, <2>3
  <1>9. ASSUME NEW s \in Sweepers, NEW f \in Files, MarkExpired(s, f) PROVE DiskEffect
    BY <1>9 DEF MarkExpired, SoftDelete
  <1>10. ASSUME NEW s \in Sweepers, Purge(s) PROVE DiskEffect
    <2>1. /\ UNCHANGED <<sha, up, blobs, thumbs>>
          /\ \A f \in Files : status'[f] # "absent" => status[f] # "absent"
      BY <1>10 DEF Purge
    <2> QED
      BY <2>1
  <1> QED
    BY <1>1, <1>2, <1>3, <1>4, <1>5, <1>6, <1>7, <1>8, <1>9, <1>10
    DEF StoreStep, HNext, Next, Upload, Sweep, SweepStep

(***************************************************************************)
(* A step of the store keeps what holds of a download: the rows of its     *)
(* hash stay young, so no sweep lists the hash for the first time; one     *)
(* that listed it before and removes its file spoils the reading.          *)
(***************************************************************************)
LEMMA DownloadSurvives ==
  ASSUME SInv, StoreStep, Remember, Observe
  PROVE  /\ ReaderHasRow' /\ RowsAreYoung' /\ ListedIsRenewed' /\ FileIsThere'
         /\ FastReadersFindFiles'
  <1> USE ConstantsOK, NoFileAssumption
  <1>0. IInv /\ STypeOK
    BY DEF SInv
  <1>1. RowEffect /\ ListEffect /\ DiskEffect
    BY <1>0, RowEffects, ListEffects, DiskEffects
  <1>2. UNCHANGED <<at, file, path>> /\ late \in 0..Grace /\ file \in Files \cup {NoFile}
    BY <1>0 DEF Observe, STypeOK
  <1>3. /\ late' >= late /\ late' \in 0..Grace
        /\ spoiled => spoiled'
    <2>1. CASE file = NoFile
      BY <1>2, <2>1 DEF Observe
    <2>2. CASE file # NoFile
      <3>1. late' = IF Tick /\ late < Grace THEN late + 1 ELSE late
        BY <2>2 DEF Observe
      <3>2. spoiled => spoiled'
        BY <2>2 DEF Observe
      <3> QED
        BY <1>2, <3>1, <3>2
    <2> QED
      BY <2>1, <2>2
  <1>4. file \in Files =>
          /\ Tick /\ late' < Grace => late' = late + 1
          /\ RemovedRenewed(sha[file]) => spoiled'
    BY <1>2 DEF Observe
  <1>5. ReaderHasRow'
    BY <1>1, <1>2 DEF SInv, ReaderHasRow, Reading, RowEffect
  <1>6. FastReadersFindFiles'
    BY <1>2, <1>3 DEF SInv, FastReadersFindFiles
  <1>7. SUFFICES ASSUME Reading', late' < Grace
                 PROVE  RowsAreYoung' /\ ListedIsRenewed' /\ FileIsThere'
    BY <1>5, <1>6 DEF RowsAreYoung, ListedIsRenewed, FileIsThere
  <1>8. Reading /\ late < Grace /\ file \in Files
    BY <1>2, <1>3, <1>7 DEF SInv, ReaderHasRow, Reading
  <1> DEFINE h == sha[file]
  <1>9. up[file] = "done" /\ h \in Hashes /\ sha'[file] = h
    BY <1>1, <1>8 DEF SInv, ReaderHasRow, RowEffect
  <1>10. /\ status[file] = "deleted" => age[file] <= late
         /\ status[file] = "absent" =>
              \A f \in RowsOf(h) : status[f] = "deleted" => age[f] <= late
    BY <1>8 DEF SInv, RowsAreYoung
  <1>11. age \in [Files -> 0..Grace] /\ status \in [Files -> {"absent", "live", "deleted"}]
    BY <1>0 DEF STypeOK, HTypeOK, TypeOK
  <1>12. \A f \in Files : status'[f] # "absent" => up'[f] = "done"
    <2>1. OneInsert'
      BY <1>0, StepIInv, OpenThumbStep DEF StoreStep, IInv
    <2> QED
      BY <2>1 DEF OneInsert
  <1>13. ASSUME NEW f \in Files, status'[f] = "deleted",
                status[f] = "deleted" => age[f] <= late
         PROVE  age'[f] <= late'
    <2>1. age[f] \in 0..Grace
      BY <1>11
    <2>2. CASE age'[f] = 0
      BY <1>3, <2>2
    <2>3. CASE status[f] = "deleted" /\ age'[f] = age[f]
      BY <1>2, <1>3, <1>13, <2>1, <2>3
    <2>4. CASE status[f] = "deleted" /\ Tick /\ age'[f] <= age[f] + 1
      <3>1. late' = late + 1 /\ age[f] <= late
        BY <1>4, <1>7, <1>8, <1>13, <2>4
      <3>2. age'[f] \in 0..Grace
        BY <1>0, StepIInv, OpenThumbStep DEF StoreStep, IInv, HTypeOK, TypeOK
      <3> QED
        BY <1>2, <2>1, <2>4, <3>1, <3>2
    <2> QED
      BY <1>1, <1>13, <2>2, <2>3, <2>4 DEF RowEffect
  <1>14. RowsAreYoung'
    <2>1. status'[file] = "deleted" => age'[file] <= late'
      BY <1>8, <1>10, <1>13
    <2>2. ASSUME status'[file] = "absent", NEW f \in Files, status'[f] = "deleted", sha'[f] = h
          PROVE  age'[f] <= late'
      <3>1. status[file] = "absent"
        BY <1>1, <1>8, <1>9, <2>2 DEF RowEffect
      <3>2. status[f] = "deleted" => f \in RowsOf(h)
        BY <1>0, <1>1, <2>2 DEF IInv, OneInsert, RowEffect, RowsOf
      <3> QED
        BY <1>10, <1>13, <2>2, <3>1, <3>2
    <2> QED
      BY <1>2, <1>9, <2>1, <2>2 DEF RowsAreYoung, RowsOf
  <1>15. ASSUME NEW s \in Sweepers, h \in Listed(s)
         PROVE  h \in renewed[s]
    BY <1>8, <1>15 DEF SInv, ListedIsRenewed
  <1>16. ASSUME NEW s \in Sweepers, h \in Listed(s)'
         PROVE  h \in renewed'[s]
    <2>1. h \in Listed(s)
      <3>1. SUFFICES ASSUME HasRow(h),
                            \A f \in RowsOf(h) : status[f] = "deleted" /\ age[f] >= Grace
                     PROVE  FALSE
        BY <1>1, <1>9, <1>16 DEF ListEffect
      <3>2. PICK f \in RowsOf(h) : status[f] = "deleted" /\ age[f] >= Grace
        BY <3>1 DEF HasRow, RowsOf
      <3>3. status[file] # "absent" => file \in RowsOf(h)
        BY <1>8 DEF RowsOf
      <3>4. f \in Files /\ age[f] \in Nat /\ age[file] \in Nat
        BY <1>8, <1>11, <3>2 DEF RowsOf
      <3>5. CASE status[file] = "absent"
        BY <1>2, <1>8, <1>10, <3>2, <3>4, <3>5
      <3>6. CASE status[file] # "absent"
        BY <1>2, <1>8, <1>10, <3>1, <3>3, <3>4, <3>6
      <3> QED
        BY <3>5, <3>6
    <2> QED
      BY <1>9, <1>15, <1>16, <2>1 DEF Remember
  <1>17. ListedIsRenewed'
    BY <1>2, <1>9, <1>16 DEF ListedIsRenewed
  <1>18. FileIsThere'
    <2>1. SUFFICES ASSUME ~spoiled'
                   PROVE  /\ h \in blobs'
                          /\ path = "thumbs" /\ at # "image" => h \in thumbs'
      BY <1>2, <1>9 DEF FileIsThere
    <2>2. /\ h \in blobs
          /\ path = "thumbs" /\ at # "image" => h \in thumbs
      BY <1>3, <1>8, <2>1 DEF SInv, FileIsThere
    <2>3. ASSUME NEW s \in Sweepers, sw[s].cur = h,
                 <<sw[s].pc, sw'[s].pc>> \in {<<"unlink", "unthumb">>, <<"unthumb", "confirm">>}
          PROVE  FALSE
      <3>1. h \in renewed[s]
        BY <1>15, <2>3 DEF Listed
      <3> QED
        BY <1>4, <1>8, <2>1, <2>3, <3>1 DEF RemovedRenewed
    <2> QED
      BY <1>1, <2>2, <2>3 DEF DiskEffect
  <1> QED
    BY <1>14, <1>17, <1>18

(***************************************************************************)
(* And what holds of an audit: a hash gets its first row, and stops being  *)
(* a stray, only through an upload that was in its window.                 *)
(***************************************************************************)
LEMMA AuditSurvives ==
  ASSUME SInv, StoreStep, Remember, Observe
  PROVE  /\ StrayHasNoRow' /\ NewcomersMoved' /\ NothingReported' /\ OrphansAreReal'
         /\ SteadyIsListed' /\ OrphansAreFound'
  <1>1. DiskEffect
    BY DiskEffects DEF SInv
  <1>2. UNCHANGED <<at, known, listing, reported>> /\ Auditing' = Auditing
    BY DEF Observe, Auditing
  <1>3. /\ reported \subseteq Hashes /\ stray \subseteq Hashes
        /\ \A h \in stray : ~HasRow(h)
    BY DEF SInv, STypeOK, HTypeOK, StrayHasNoRow
  <1>4. StrayHasNoRow'
    BY DEF Remember, StrayHasNoRow
  <1>5. NewcomersMoved'
    <2>1. SUFFICES ASSUME Auditing, NEW h \in Hashes
                   PROVE  /\ InWindow(h)' => h \in moved'
                          /\ HasRow(h)' => h \in known \cup moved'
      BY <1>2 DEF NewcomersMoved
    <2>2. moved' = moved \cup {g \in Hashes : InWindow(g)'}
      BY <2>1 DEF Observe
    <2>3. HasRow(h)' => h \in known \cup moved
      BY <1>1, <2>1 DEF DiskEffect, SInv, NewcomersMoved
    <2> QED
      BY <2>2, <2>3
  <1>6. NothingReported'
    BY <1>2 DEF SInv, NothingReported
  <1>7. OrphansAreReal'
    <2>1. SUFFICES ASSUME NEW h \in reported, h \notin moved'
                   PROVE  h \in stray'
      BY <1>2 DEF OrphansAreReal
    <2>2. Auditing /\ h \in Hashes
      BY <1>3, <2>1 DEF SInv, NothingReported
    <2>3. h \notin moved
      BY <2>1, <2>2 DEF Observe
    <2>4. h \in stray
      BY <2>1, <2>3 DEF SInv, OrphansAreReal
    <2>5. ~InWindow(h)
      BY <2>2, <2>3 DEF SInv, NewcomersMoved
    <2>6. ~HasRow(h)'
      BY <1>1, <1>3, <2>2, <2>4, <2>5 DEF DiskEffect
    <2> QED
      BY <2>2, <2>4, <2>6 DEF Remember
  <1>8. Auditing => steady' = steady \cap stray' \cap blobs'
    BY DEF Observe
  <1>9. SteadyIsListed' /\ OrphansAreFound'
    BY <1>2, <1>8 DEF SInv, SteadyIsListed, OrphansAreFound, Auditing
  <1> QED
    BY <1>4, <1>5, <1>6, <1>7, <1>9

(***************************************************************************)
(* The types, when all but the thumbnails' variables are known to fit.     *)
(***************************************************************************)
LEMMA ObserveTypes ==
  ASSUME STypeOK, HTypeOK', Observe
  PROVE  /\ at' \in {"idle", "image", "chosen", "sending", "sent", "missing", "broken",
                    "listing", "checking", "crashed", "audited"}
         /\ file' \in Files \cup {NoFile} /\ path' \in {"blobs", "thumbs"} /\ late' \in 0..Grace
         /\ known' \cup listing' \cup reported' \cup moved' \cup steady' \subseteq Hashes
  <1>1. UNCHANGED <<at, file, path, known, listing, reported>> /\ late' \in 0..Grace
    BY ConstantsOK DEF Observe, STypeOK
  <1>2. moved' \cup steady' \subseteq Hashes
    BY DEF Observe, STypeOK
  <1> QED
    BY <1>1, <1>2 DEF STypeOK

(***************************************************************************)
(* An upload that ends fills its thumbnail or leaves it ruined; one whose  *)
(* thumbnail is still there goes on writing it.                            *)
(***************************************************************************)
LEMMA ThumbsStep ==
  ASSUME SInv, StoreStep, IInv', Thumbs, Observe
  PROVE  STypeOK' /\ TornHasCause'
  <1>1. DiskEffect
    BY DiskEffects DEF SInv
  <1>2. writing \subseteq {f \in Files : up[f] = "decoded"}
    BY DEF SInv, STypeOK
  <1>3. \A f \in writing : up'[f] \in {"decoded", "ready", "dead"} /\ sha'[f] = sha[f]
    BY <1>1, <1>2 DEF DiskEffect
  <1>4. /\ writing' = {f \in writing : up'[f] = "decoded"}
        /\ lost' = {f \in writing' : f \in lost \/ sha[f] \notin thumbs'}
    BY DEF Thumbs
  <1>5. PICK failed \in SUBSET (writing \ (writing' \cup lost)) :
          /\ \A f \in writing \ lost : up'[f] = "dead" => f \in failed
          /\ ruined' = thumbs' \cap (ruined \cup {sha[f] : f \in failed})
          /\ torn' = thumbs' \cap
               (torn \ {sha[f] : f \in {g \in writing \ (lost \cup failed) : WroteThumb(g)}})
    BY DEF Thumbs
  <1>6. STypeOK'
    <2>1. HTypeOK' /\ STypeOK
      BY DEF IInv, SInv
    <2>2. /\ writing' \subseteq {f \in Files : up'[f] = "decoded"} /\ lost' \subseteq writing'
          /\ torn' \subseteq thumbs' /\ ruined' \subseteq thumbs'
      BY <1>2, <1>4, <1>5
    <2> QED
      BY <2>1, <2>2, ObserveTypes DEF STypeOK
  <1>7. TornHasCause'
    <2>1. SUFFICES ASSUME NEW h \in torn'
                   PROVE  h \in ruined' \/ \E f \in writing' \ lost' : sha'[f] = h
      BY DEF TornHasCause
    <2>2. h \in torn /\ h \in thumbs'
      BY <1>5, <2>1
    <2>3. CASE h \in ruined
      BY <1>5, <2>2, <2>3
    <2>4. ASSUME NEW f \in writing \ lost, sha[f] = h
          PROVE  h \in ruined' \/ (f \in writing' \ lost' /\ sha'[f] = h)
      <3>1. CASE f \in failed
        BY <1>5, <2>2, <2>4, <3>1
      <3>2. CASE f \notin failed
        <4>1. ~WroteThumb(f)
          BY <1>5, <2>1, <2>4, <3>2
        <4>2. up'[f] = "decoded"
          BY <1>2, <1>3, <1>5, <2>4, <3>2, <4>1 DEF WroteThumb
        <4>3. f \in writing' /\ f \notin lost'
          BY <1>4, <2>2, <2>4, <4>2
        <4> QED
          BY <1>3, <2>4, <4>3
      <3> QED
        BY <3>1, <3>2
    <2> QED
      BY <2>2, <2>3, <2>4 DEF SInv, TornHasCause
  <1> QED
    BY <1>6, <1>7

LEMMA OpenThumbKeepsCause ==
  ASSUME SInv, NEW f \in Files, OpenThumb(f), IInv', Observe
  PROVE  STypeOK' /\ TornHasCause'
  <1>1. /\ writing' = writing \cup {f} /\ torn' = torn \cup {sha[f]}
        /\ thumbs' = thumbs \cup {sha[f]} /\ f \notin writing /\ up[f] = "decoded"
        /\ UNCHANGED <<sha, up, lost, ruined>>
    BY DEF OpenThumb
  <1>2. HTypeOK' /\ STypeOK
    BY DEF IInv, SInv
  <1>3. STypeOK'
    <2>1. /\ writing' \subseteq {g \in Files : up'[g] = "decoded"} /\ lost' \subseteq writing'
          /\ torn' \subseteq thumbs' /\ ruined' \subseteq thumbs'
      BY <1>1, <1>2 DEF STypeOK
    <2> QED
      BY <1>2, <2>1, ObserveTypes DEF STypeOK
  <1>4. TornHasCause'
    BY <1>1, <1>2 DEF SInv, STypeOK, TornHasCause
  <1> QED
    BY <1>3, <1>4

(***************************************************************************)
(* A step of a download sees the store as it is: what holds of the file    *)
(* when the row is read, or its path tested, is what it goes on with.      *)
(***************************************************************************)
LEMMA DownloadStep ==
  ASSUME SInv, UNCHANGED <<hvars, thumbVars>>,
         (\E f \in Files : ReadRow(f)) \/ ChoosePath \/ TestPath \/ OpenPath
  PROVE  SInv'
  <1> USE ConstantsOK, NoFileAssumption DEF hvars, vars, thumbVars
  <1>1. IInv'
    BY StutterStep DEF SInv
  <1>2. UNCHANGED auditVars /\ ~Auditing /\ ~Auditing'
    BY DEF ReadRow, ChoosePath, TestPath, OpenPath, Auditing, rowReader
  <1>3. /\ StrayHasNoRow' /\ NewcomersMoved' /\ NothingReported' /\ OrphansAreReal'
        /\ TornHasCause'
    BY <1>2 DEF SInv, StrayHasNoRow, HasRow, NewcomersMoved, NothingReported, OrphansAreReal,
                TornHasCause, auditVars
  <1>4. SteadyIsListed' /\ OrphansAreFound'
    BY <1>2 DEF SteadyIsListed, OrphansAreFound, Auditing
  <1>5. HTypeOK' /\ STypeOK
    BY <1>1 DEF IInv, SInv
  <1> DEFINE Rest == STypeOK' /\ ReaderHasRow' /\ RowsAreYoung' /\ ListedIsRenewed'
                     /\ FileIsThere' /\ FastReadersFindFiles'
  <1>6. ASSUME NEW f \in Files, ReadRow(f) PROVE Rest
    <2>1. /\ file' = f /\ late' = 0 /\ spoiled' = (f \in overlapped) /\ status[f] = "live"
          /\ \/ at' = "chosen" /\ path' = "blobs"
             \/ at' = "image" /\ path' = "thumbs"
      BY <1>6 DEF ReadRow
    <2>2. up[f] = "done" /\ sha[f] \in Hashes
      BY <2>1 DEF SInv, IInv, OneInsert, ShaChosen
    <2>3. STypeOK' /\ ReaderHasRow' /\ FastReadersFindFiles'
      BY <1>2, <1>5, <2>1, <2>2
      DEF STypeOK, auditVars, ReaderHasRow, FastReadersFindFiles, Reading
    <2>4. RowsAreYoung'
      BY <2>1 DEF RowsAreYoung
    <2>5. ASSUME NEW s \in Sweepers, sha[f] \in Listed(s) PROVE sha[f] \in renewed[s]
      BY <2>1, <2>2, <2>5 DEF SInv, IInv, ListedIsOld, RowsOf
    <2>6. ListedIsRenewed'
      BY <2>1, <2>5 DEF ListedIsRenewed, Listed
    <2>7. FileIsThere'
      BY <2>1 DEF FileIsThere, SInv, IInv, OnlyOverlapLosesBytes
    <2> QED
      BY <2>3, <2>4, <2>6, <2>7
  <1>7. ASSUME ChoosePath \/ TestPath \/ OpenPath PROVE Rest
    <2>1. Reading /\ file \in Files /\ UNCHANGED <<file, late, spoiled>>
      BY <1>7 DEF ChoosePath, TestPath, OpenPath, rowReader, Reading, SInv, ReaderHasRow
    <2>2. /\ at' \in {"chosen", "sending", "sent", "missing", "broken"}
          /\ path' \in {"blobs", "thumbs"}
      BY <1>5, <1>7 DEF ChoosePath, TestPath, OpenPath, rowReader, STypeOK
    <2>3. STypeOK' /\ ReaderHasRow'
      BY <1>2, <1>5, <2>1, <2>2 DEF STypeOK, auditVars, SInv, ReaderHasRow, Reading
    <2>4. RowsAreYoung'
      BY <2>1 DEF SInv, RowsAreYoung, RowsOf
    <2>5. ListedIsRenewed'
      BY <2>1 DEF SInv, ListedIsRenewed, Listed
    <2>6. FileIsThere'
      BY <1>7, <2>1 DEF ChoosePath, TestPath, OpenPath, rowReader, There, SInv, FileIsThere
    <2>7. late \in 0..Grace
      BY <1>5 DEF STypeOK
    <2>8. ASSUME at' \in {"missing", "broken"}, late # Grace, ~spoiled PROVE FALSE
      <3>1. ~There /\ at # "image"
        BY <1>7, <2>8 DEF ChoosePath, TestPath, OpenPath
      <3>2. late < Grace
        BY <2>7, <2>8
      <3>3. sha[file] \in blobs /\ (path = "thumbs" => sha[file] \in thumbs)
        BY <2>1, <2>8, <3>1, <3>2 DEF SInv, FileIsThere
      <3> QED
        BY <3>1, <3>3 DEF There
    <2>9. FastReadersFindFiles'
      BY <2>1, <2>8 DEF FastReadersFindFiles
    <2> QED
      BY <2>3, <2>4, <2>5, <2>6, <2>9
  <1> QED
    BY <1>1, <1>3, <1>4, <1>6, <1>7 DEF SInv

(***************************************************************************)
(* The audit: what it calls an orphan is on disk and not among the hashes  *)
(* it has read, so it is a stray or came after the reading.                *)
(***************************************************************************)
LEMMA AuditStep ==
  ASSUME SInv, UNCHANGED <<hvars, thumbVars>>,
         ReadHashes \/ ListBlobs \/ (\E h \in Hashes : CheckBlob(h)) \/ Audited
  PROVE  SInv'
  <1> USE DEF hvars, vars, thumbVars
  <1>1. IInv'
    BY StutterStep DEF SInv
  <1>2. UNCHANGED rowReader /\ at' \in {"listing", "checking", "crashed", "audited"}
    BY DEF ReadHashes, ListBlobs, CheckBlob, Audited
  <1>3. /\ ReaderHasRow' /\ RowsAreYoung' /\ ListedIsRenewed' /\ FileIsThere'
        /\ FastReadersFindFiles'
    BY <1>2 DEF SInv, ReaderHasRow, RowsAreYoung, ListedIsRenewed, FileIsThere,
                FastReadersFindFiles, Reading, rowReader
  <1>4. StrayHasNoRow' /\ TornHasCause' /\ NothingReported'
    BY <1>2 DEF SInv, StrayHasNoRow, HasRow, TornHasCause, NothingReported, Auditing
  <1>5. HTypeOK' /\ STypeOK /\ stray \subseteq Hashes /\ blobs \subseteq Hashes
    BY <1>1 DEF IInv, SInv, HTypeOK, TypeOK
  <1>6. STypeOK'
    <2>1. known' \cup listing' \cup reported' \cup moved' \cup steady' \subseteq Hashes
      BY <1>5 DEF ReadHashes, ListBlobs, CheckBlob, Audited, auditVars, STypeOK
    <2> QED
      BY <1>2, <1>5, <2>1 DEF STypeOK, rowReader
  <1>7. \A h \in Hashes : HasRow(h)' = HasRow(h) /\ InWindow(h)' = InWindow(h)
    BY DEF HasRow, InWindow
  <1> DEFINE Rest == NewcomersMoved' /\ OrphansAreReal' /\ SteadyIsListed' /\ OrphansAreFound'
  <1>8. ASSUME ReadHashes PROVE Rest
    <2>1. /\ known' = {h \in Hashes : HasRow(h)} /\ moved' = {h \in Hashes : InWindow(h)}
          /\ reported' = {} /\ steady' = stray \cap blobs /\ at' = "listing"
      BY <1>8 DEF ReadHashes
    <2>2. NewcomersMoved'
      BY <1>7, <2>1 DEF NewcomersMoved
    <2>3. SteadyIsListed'
      BY <2>1 DEF SteadyIsListed, SInv, StrayHasNoRow
    <2> QED
      BY <2>1, <2>2, <2>3 DEF OrphansAreReal, OrphansAreFound
  <1>9. ASSUME ListBlobs \/ Audited \/ \E h \in Hashes : CheckBlob(h) PROVE Rest
    <2>1. Auditing /\ UNCHANGED <<known, moved, steady>>
      BY <1>9 DEF ListBlobs, Audited, CheckBlob, Auditing, auditVars
    <2>2. /\ steady \subseteq (stray \cap blobs) \ known
          /\ at = "checking" => steady \subseteq listing \cup reported
      BY <2>1 DEF SInv, SteadyIsListed
    <2>3. NewcomersMoved'
      BY <1>7, <2>1 DEF SInv, NewcomersMoved
    <2>4. OrphansAreReal'
      <3>1. \A h \in reported' \ reported : h \in blobs \ known
        BY <1>9 DEF ListBlobs, Audited, CheckBlob, auditVars
      <3>2. \A h \in blobs \ known : h \in stray \cup moved
        BY <1>5, <2>1 DEF SInv, IInv, BytesAccountedFor, OnDisk, NewcomersMoved
      <3> QED
        BY <2>1, <3>1, <3>2 DEF SInv, OrphansAreReal
    <2>5. SteadyIsListed' /\ OrphansAreFound'
      BY <1>9, <2>1, <2>2
      DEF ListBlobs, Audited, CheckBlob, auditVars, SteadyIsListed, OrphansAreFound, Auditing
    <2> QED
      BY <2>3, <2>4, <2>5
  <1> QED
    BY <1>1, <1>3, <1>4, <1>6, <1>8, <1>9 DEF SInv

LEMMA LeaveStep == ASSUME SInv, UNCHANGED <<hvars, thumbVars>>, Leave PROVE SInv'
  <1> USE ConstantsOK, NoFileAssumption DEF hvars, vars, thumbVars
  <1>1. IInv'
    BY StutterStep DEF SInv
  <1>2. /\ at' = "idle" /\ file' = NoFile /\ path' = "blobs" /\ late' = 0
        /\ known' = {} /\ listing' = {} /\ reported' = {} /\ moved' = {} /\ steady' = {}
    BY DEF Leave
  <1>3. STypeOK'
    BY <1>1, <1>2 DEF SInv, IInv, STypeOK
  <1>4. /\ ReaderHasRow' /\ RowsAreYoung' /\ ListedIsRenewed' /\ FileIsThere'
        /\ FastReadersFindFiles' /\ NewcomersMoved' /\ NothingReported' /\ OrphansAreReal'
        /\ SteadyIsListed' /\ OrphansAreFound'
    BY <1>2 DEF ReaderHasRow, RowsAreYoung, ListedIsRenewed, FileIsThere, Reading,
                FastReadersFindFiles, NewcomersMoved, Auditing, NothingReported,
                OrphansAreReal, SteadyIsListed, OrphansAreFound
  <1>5. StrayHasNoRow' /\ TornHasCause'
    BY DEF SInv, StrayHasNoRow, HasRow, TornHasCause
  <1> QED
    BY <1>1, <1>3, <1>4, <1>5 DEF SInv

LEMMA ReaderStutter == ASSUME SInv, UNCHANGED svars PROVE SInv'
  <1> USE DEF svars, readVars, rowReader, auditVars, thumbVars, hvars, vars
  <1>1. IInv'
    BY StutterStep DEF SInv
  <1>2. STypeOK' /\ ReaderHasRow'
    BY <1>1 DEF SInv, IInv, STypeOK, ReaderHasRow, Reading
  <1>3. RowsAreYoung' /\ ListedIsRenewed' /\ FileIsThere' /\ FastReadersFindFiles'
    BY DEF SInv, RowsAreYoung, RowsOf, ListedIsRenewed, Listed, FileIsThere,
           FastReadersFindFiles, Reading
  <1>4. StrayHasNoRow' /\ NewcomersMoved' /\ NothingReported' /\ OrphansAreReal'
    BY DEF SInv, StrayHasNoRow, HasRow, NewcomersMoved, InWindow, NothingReported,
           OrphansAreReal, Auditing
  <1>5. SteadyIsListed' /\ OrphansAreFound' /\ TornHasCause'
    BY DEF SInv, SteadyIsListed, OrphansAreFound, TornHasCause, Auditing
  <1> QED
    BY <1>1, <1>2, <1>3, <1>4, <1>5 DEF SInv

LEMMA InitSInv == SInit => SInv
  <1> SUFFICES ASSUME SInit PROVE SInv
    OBVIOUS
  <1> USE ConstantsOK, NoFileAssumption DEF SInit
  <1>1. IInv
    BY InitIInv
  <1>2. STypeOK
    BY <1>1 DEF STypeOK, IInv
  <1>3. /\ ReaderHasRow /\ RowsAreYoung /\ ListedIsRenewed /\ FileIsThere
        /\ FastReadersFindFiles /\ NewcomersMoved /\ NothingReported /\ OrphansAreReal
        /\ SteadyIsListed /\ OrphansAreFound
    BY DEF ReaderHasRow, RowsAreYoung, ListedIsRenewed, FileIsThere, Reading,
           FastReadersFindFiles, NewcomersMoved, Auditing, NothingReported,
           OrphansAreReal, SteadyIsListed, OrphansAreFound
  <1>4. StrayHasNoRow /\ TornHasCause
    BY DEF StrayHasNoRow, TornHasCause, HInit
  <1> QED
    BY <1>1, <1>2, <1>3, <1>4 DEF SInv

(***************************************************************************)
(* Readers and the store, in any interleaving of their system calls, keep  *)
(* SInv.                                                                   *)
(***************************************************************************)
THEOREM ReaderInvariance == SSpec => []SInv
  <1>1. ASSUME SInv, [SNext]_svars PROVE SInv'
    <2>1. CASE HNext /\ Thumbs /\ Observe
      <3>1. StoreStep /\ Remember
        BY <2>1 DEF StoreStep, HNext
      <3>2. IInv'
        BY <1>1, <2>1, StepIInv DEF SInv
      <3> QED
        BY <1>1, <2>1, <3>1, <3>2, DownloadSurvives, AuditSurvives, ThumbsStep DEF SInv
    <2>2. ASSUME NEW f \in Files, OpenThumb(f), Remember, Observe PROVE SInv'
      <3>1. StoreStep
        BY <2>2 DEF StoreStep
      <3>2. IInv'
        BY <1>1, <2>2, OpenThumbStep DEF SInv
      <3> QED
        BY <1>1, <2>2, <3>1, <3>2, DownloadSurvives, AuditSurvives, OpenThumbKeepsCause DEF SInv
    <2>3. CASE Read /\ UNCHANGED <<hvars, thumbVars>>
      BY <1>1, <2>3, DownloadStep, AuditStep, LeaveStep DEF Read
    <2>4. CASE UNCHANGED svars
      BY <1>1, <2>4, ReaderStutter
    <2> QED
      BY <1>1, <2>1, <2>2, <2>3, <2>4 DEF SNext
  <1> QED
    BY InitSInv, <1>1, PTL DEF SSpec

(***************************************************************************)
(* A download, an image or a row of the audit that gets to its file within *)
(* Grace of reading the row finds it, whatever is deleted and swept in     *)
(* between, unless a sweep raced an upload of the same content             *)
(* (access.get_file, access.serve_image, cleanup.run_once).                *)
(***************************************************************************)
THEOREM FastReadersServed == SSpec => []FastReadersFindFiles
  <1>1. SInv => FastReadersFindFiles
    BY DEF SInv
  <1> QED
    BY <1>1, ReaderInvariance, PTL

(***************************************************************************)
(* An orphan the audit reports has no row, or an upload of it was in its   *)
(* window since the rows were read (verify_blobs.audit_orphans).           *)
(***************************************************************************)
THEOREM NoFalseOrphans == SSpec => []OrphansAreReal
  <1>1. SInv => OrphansAreReal
    BY DEF SInv
  <1> QED
    BY <1>1, ReaderInvariance, PTL

(***************************************************************************)
(* Bytes astray during all of an audit that ends are in its report         *)
(* (verify_blobs.audit_orphans).                                           *)
(***************************************************************************)
THEOREM NoOrphanMissed == SSpec => []OrphansAreFound
  <1>1. SInv => OrphansAreFound
    BY DEF SInv
  <1> QED
    BY <1>1, ReaderInvariance, PTL

(***************************************************************************)
(* A thumbnail that is not whole is being written, or was left so by an    *)
(* upload that died or found the disk full (images.make_thumbnail).        *)
(***************************************************************************)
THEOREM TornThumbsExplained == SSpec => []TornHasCause
  <1>1. SInv => TornHasCause
    BY DEF SInv
  <1> QED
    BY <1>1, ReaderInvariance, PTL
=============================================================================
