---------------------------- MODULE BlobLifecycle ----------------------------
(***************************************************************************)
(* The life of a stored file: the row in the `files` table, the blob and   *)
(* the thumbnail on disk, and the two kinds of process that change them.   *)
(*                                                                         *)
(*   - an upload (app/routers/files.py, upload_file) commits its bytes     *)
(*     under their SHA-256, checks the quota, reads the blob back, makes a *)
(*     thumbnail and only then inserts the row that refers to the blob;    *)
(*   - a sweep (app/cleanup.py, run_once) marks the expired rows, lists    *)
(*     the hashes nothing refers to, unlinks their files and drops their   *)
(*     rows.                                                               *)
(*                                                                         *)
(* Every access to SQLite is a transaction of its own and every file       *)
(* operation a system call, so each is one step; nothing in the code locks *)
(* the sequence.  An upload has no await between its commit and its        *)
(* insert, so a worker process has at most one upload between the two, and *)
(* interleaves there with the other worker and with the sweeps.            *)
(***************************************************************************)
EXTENDS Naturals, FiniteSets

CONSTANTS
  Files,       \* file ids; each is given out by one upload
  Hashes,      \* SHA-256 values of the contents that are uploaded
  NoSha,       \* the hash of an upload that has committed nothing yet
  Thumbable,   \* the hashes whose content make_thumbnail can turn into a thumbnail
  Sweepers,    \* the sweeps that may run at one time
  Workers,     \* number of uvicorn worker processes
  Grace,       \* GRACE_SECONDS, in ticks of the clock
  MayCrash     \* whether processes may die or a call may raise in mid-sequence

ASSUME ConstantsOK ==
  /\ NoSha \notin Hashes
  /\ Thumbable \subseteq Hashes
  /\ Workers \in Nat
  /\ Grace \in Nat
  /\ MayCrash \in BOOLEAN

VARIABLES
  status,   \* status[f]: the row of f is "absent", "live" or "deleted" (deleted_at set)
  expiry,   \* expiry[f]: expires_at is "never" (NULL), "later" or "past"
  age,      \* age[f]: ticks since deleted_at, counted up to Grace
  sha,      \* sha[f]: the content of f
  up,       \* up[f]: where the upload of f has got to
  sw,       \* sw[s]: where sweep s has got to, and its local variables
  blobs,    \* the hashes that have a file under blobs/
  thumbs    \* the hashes that have a file under thumbs/

rowVars == <<status, expiry, age>>
vars == <<status, expiry, age, sha, up, sw, blobs, thumbs>>

-----------------------------------------------------------------------------

\* Between the commit of the bytes and the insertion of the row.
Window == {"stored", "sniffed", "decoded", "ready"}

UploadState == {"idle", "done", "refused", "failed", "dead"} \cup Window

SweepPC == {"idle", "expire", "pick", "unlink", "unthumb", "confirm"}

SweepState ==
  [pc : SweepPC,
   todo : SUBSET Files,        \* expired ids still to be marked
   orphans : SUBSET Hashes,    \* orphans still to be handled
   cur : Hashes \cup {NoSha},  \* the orphan being handled
   gone : SUBSET Hashes]       \* hashes whose files were seen to be gone

IdleSweep ==
  [pc |-> "idle", todo |-> {}, orphans |-> {}, cur |-> NoSha, gone |-> {}]

RowsOf(h) == {f \in Files : status[f] # "absent" /\ sha[f] = h}

HasRow(h) == \E f \in Files : status[f] # "absent" /\ sha[f] = h

\* is_hash_referenced
Referenced(h) == \E f \in Files : status[f] = "live" /\ sha[f] = h

InWindow(h) == \E f \in Files : up[f] \in Window /\ sha[f] = h

OnDisk(h) == h \in blobs \cup thumbs

TypeOK ==
  /\ status \in [Files -> {"absent", "live", "deleted"}]
  /\ expiry \in [Files -> {"never", "later", "past"}]
  /\ age \in [Files -> 0..Grace]
  /\ sha \in [Files -> Hashes \cup {NoSha}]
  /\ up \in [Files -> UploadState]
  /\ sw \in [Sweepers -> SweepState]
  /\ blobs \subseteq Hashes
  /\ thumbs \subseteq Hashes

Init ==
  /\ status = [f \in Files |-> "absent"]
  /\ expiry = [f \in Files |-> "never"]
  /\ age = [f \in Files |-> 0]
  /\ sha = [f \in Files |-> NoSha]
  /\ up = [f \in Files |-> "idle"]
  /\ sw = [s \in Sweepers |-> IdleSweep]
  /\ blobs = {}
  /\ thumbs = {}

-----------------------------------------------------------------------------
(* Uploads *)

\* stream_to_blob ends: the bytes are under their hash, whether os.replace put
\* them there or an identical blob was found and reused.
Commit(f, h) ==
  /\ up[f] = "idle"
  /\ Cardinality({g \in Files : up[g] \in Window}) < Workers
  /\ up' = [up EXCEPT ![f] = "stored"]
  /\ sha' = [sha EXCEPT ![f] = h]
  /\ blobs' = blobs \cup {h}
  /\ UNCHANGED <<rowVars, sw, thumbs>>

\* enforce_quota raises 413, after the commit.
RefuseQuota(f) ==
  /\ up[f] = "stored"
  /\ up' = [up EXCEPT ![f] = "refused"]
  /\ UNCHANGED <<rowVars, sha, sw, blobs, thumbs>>

\* path.read_bytes() for the magic bytes; a missing blob is an uncaught
\* FileNotFoundError, a 500.
Sniff(f) ==
  /\ up[f] = "stored"
  /\ up' = [up EXCEPT ![f] = IF sha[f] \notin blobs THEN "failed"
                             ELSE IF sha[f] \in Thumbable THEN "sniffed"
                             ELSE "ready"]
  /\ UNCHANGED <<rowVars, sha, sw, blobs, thumbs>>

\* inspect_image, and make_thumbnail up to the decoded picture.  A blob that
\* cannot be opened is no error (NotAnImage, or no thumbnail), and an existing
\* thumbnail is kept.
OpenImage(f) ==
  /\ up[f] = "sniffed"
  /\ up' = [up EXCEPT ![f] = IF sha[f] \in blobs \ thumbs THEN "decoded" ELSE "ready"]
  /\ UNCHANGED <<rowVars, sha, sw, blobs, thumbs>>

\* dest.write_bytes in make_thumbnail, whose OSError is swallowed.
WriteThumb(f) ==
  /\ up[f] = "decoded"
  /\ up' = [up EXCEPT ![f] = "ready"]
  /\ thumbs' \in {thumbs, thumbs \cup {sha[f]}}
  /\ UNCHANGED <<rowVars, sha, sw, blobs>>

\* insert_file: it does not look at the disk again.
Insert(f) ==
  /\ up[f] = "ready"
  /\ up' = [up EXCEPT ![f] = "done"]
  /\ status' = [status EXCEPT ![f] = "live"]
  /\ \E e \in {"never", "later"} : expiry' = [expiry EXCEPT ![f] = e]
  /\ UNCHANGED <<age, sha, sw, blobs, thumbs>>

\* The worker dies, or SQLite raises, between the commit and the insert.
Abort(f) ==
  /\ MayCrash
  /\ up[f] \in Window
  /\ up' = [up EXCEPT ![f] = "dead"]
  /\ UNCHANGED <<rowVars, sha, sw, blobs, thumbs>>

-----------------------------------------------------------------------------
(* The client, and time *)

\* soft_delete; a row that is already deleted keeps its deleted_at.
SoftDelete(f) ==
  IF status[f] = "live"
    THEN /\ status' = [status EXCEPT ![f] = "deleted"]
         /\ age' = [age EXCEPT ![f] = 0]
    ELSE UNCHANGED <<status, age>>

\* The DELETE route.
Delete(f) ==
  /\ status[f] = "live"
  /\ SoftDelete(f)
  /\ UNCHANGED <<expiry, sha, up, sw, blobs, thumbs>>

\* The clock passes expires_at.
RetentionElapses(f) ==
  /\ expiry[f] = "later"
  /\ expiry' = [expiry EXCEPT ![f] = "past"]
  /\ UNCHANGED <<status, age, sha, up, sw, blobs, thumbs>>

\* The clock of the deleted rows; past Grace no test tells their ages apart.
Tick ==
  /\ age' = [f \in Files |-> IF status[f] = "deleted" /\ age[f] < Grace
                               THEN age[f] + 1 ELSE age[f]]
  /\ UNCHANGED <<status, expiry, sha, up, sw, blobs, thumbs>>

-----------------------------------------------------------------------------
(* The sweep with a slip in it, for the mutation runs; no specification uses these. *)

\* expired_file_ids with its comparison the wrong way round.
StartUnexpired(s) ==
  /\ sw[s].pc = "idle"
  /\ sw' = [sw EXCEPT ![s] =
       [IdleSweep EXCEPT !.pc = "expire",
                         !.todo = {f \in Files : status[f] = "live" /\ expiry[f] = "later"}]]
  /\ UNCHANGED <<rowVars, sha, up, blobs, thumbs>>

\* MIN(deleted_at) for MAX(deleted_at).
OrphansByOldestDeletion ==
  {h \in Hashes :
     /\ \A f \in RowsOf(h) : status[f] = "deleted"
     /\ \E f \in RowsOf(h) : age[f] >= Grace}

\* No is_hash_referenced before the unlink.
RecheckForgotten(s, h) ==
  /\ sw[s].pc = "pick"
  /\ h \in sw[s].orphans
  /\ sw' = [sw EXCEPT ![s] =
       [sw[s] EXCEPT !.orphans = sw[s].orphans \ {h}, !.pc = "unlink", !.cur = h]]
  /\ UNCHANGED <<rowVars, sha, up, blobs, thumbs>>

\* A hash whose blob was already gone is passed over.
UnlinkBlobIfExisted(s) ==
  /\ sw[s].pc = "unlink"
  /\ blobs' = blobs \ {sw[s].cur}
  /\ sw' = [sw EXCEPT ![s].pc = IF sw[s].cur \in blobs THEN "unthumb" ELSE "pick"]
  /\ UNCHANGED <<rowVars, sha, up, thumbs>>

\* delete_blob's return taken for success.
ConfirmUnseen(s) ==
  /\ sw[s].pc = "confirm"
  /\ sw' = [sw EXCEPT ![s] =
       [sw[s] EXCEPT !.pc = "pick", !.cur = NoSha, !.gone = sw[s].gone \cup {sw[s].cur}]]
  /\ UNCHANGED <<rowVars, sha, up, blobs, thumbs>>

\* purge_hashes without "deleted_at IS NOT NULL".
PurgeEveryRow(s) ==
  /\ sw[s].pc = "pick"
  /\ sw[s].orphans = {}
  /\ LET dropped == {f \in Files : status[f] # "absent" /\ sha[f] \in sw[s].gone}
     IN /\ status' = [f \in Files |-> IF f \in dropped THEN "absent" ELSE status[f]]
        /\ expiry' = [f \in Files |-> IF f \in dropped THEN "never" ELSE expiry[f]]
        /\ age' = [f \in Files |-> IF f \in dropped THEN 0 ELSE age[f]]
  /\ sw' = [sw EXCEPT ![s] = IdleSweep]
  /\ UNCHANGED <<sha, up, blobs, thumbs>>

-----------------------------------------------------------------------------
(* The sweep *)

\* expired_file_ids: the ids are read once, before any is marked.
Start(s) ==
  /\ sw[s].pc = "idle"
  /\ sw' = [sw EXCEPT ![s] =
       [IdleSweep EXCEPT !.pc = "expire",
                         !.todo = {f \in Files : status[f] = "live" /\ expiry[f] = "past"}]]
  /\ UNCHANGED <<rowVars, sha, up, blobs, thumbs>>

MarkExpired(s, f) ==
  /\ sw[s].pc = "expire"
  /\ f \in sw[s].todo
  /\ SoftDelete(f)
  /\ sw' = [sw EXCEPT ![s].todo = @ \ {f}]
  /\ UNCHANGED <<expiry, sha, up, blobs, thumbs>>

\* find_orphan_blobs: no live row, and the youngest deletion is Grace old.
OrphanBlobs ==
  {h \in Hashes :
     /\ HasRow(h)
     /\ \A f \in RowsOf(h) : status[f] = "deleted" /\ age[f] >= Grace}

FindOrphans(s) ==
  /\ sw[s].pc = "expire"
  /\ sw[s].todo = {}
  /\ sw' = [sw EXCEPT ![s] = [sw[s] EXCEPT !.pc = "pick", !.orphans = OrphanBlobs]]
  /\ UNCHANGED <<rowVars, sha, up, blobs, thumbs>>

\* The next orphan; a hash that is referenced again is skipped.
Recheck(s, h) ==
  /\ sw[s].pc = "pick"
  /\ h \in sw[s].orphans
  /\ sw' = [sw EXCEPT ![s] =
       [sw[s] EXCEPT !.orphans = sw[s].orphans \ {h},
                     !.pc  = IF Referenced(h) THEN "pick" ELSE "unlink",
                     !.cur = IF Referenced(h) THEN NoSha ELSE h]]
  /\ UNCHANGED <<rowVars, sha, up, blobs, thumbs>>

\* delete_blob: the blob, then the thumbnail.
UnlinkBlob(s) ==
  /\ sw[s].pc = "unlink"
  /\ blobs' = blobs \ {sw[s].cur}
  /\ sw' = [sw EXCEPT ![s].pc = "unthumb"]
  /\ UNCHANGED <<rowVars, sha, up, thumbs>>

UnlinkThumb(s) ==
  /\ sw[s].pc = "unthumb"
  /\ thumbs' = thumbs \ {sw[s].cur}
  /\ sw' = [sw EXCEPT ![s].pc = "confirm"]
  /\ UNCHANGED <<rowVars, sha, up, blobs>>

\* _discard swallows the failure of an unlink (a file held open elsewhere).
BlobLocked(s) ==
  /\ sw[s].pc = "unlink"
  /\ sw[s].cur \in blobs
  /\ sw' = [sw EXCEPT ![s].pc = "unthumb"]
  /\ UNCHANGED <<rowVars, sha, up, blobs, thumbs>>

ThumbLocked(s) ==
  /\ sw[s].pc = "unthumb"
  /\ sw[s].cur \in thumbs
  /\ sw' = [sw EXCEPT ![s].pc = "confirm"]
  /\ UNCHANGED <<rowVars, sha, up, blobs, thumbs>>

\* Only a hash with neither file left is to lose its rows.
Confirm(s) ==
  /\ sw[s].pc = "confirm"
  /\ sw' = [sw EXCEPT ![s] =
       [sw[s] EXCEPT !.pc = "pick",
                     !.cur = NoSha,
                     !.gone = IF OnDisk(sw[s].cur) THEN sw[s].gone
                              ELSE sw[s].gone \cup {sw[s].cur}]]
  /\ UNCHANGED <<rowVars, sha, up, blobs, thumbs>>

\* purge_hashes drops the deleted rows of these hashes, and the sweep ends.
Purge(s) ==
  /\ sw[s].pc = "pick"
  /\ sw[s].orphans = {}
  /\ LET dropped == {f \in Files : status[f] = "deleted" /\ sha[f] \in sw[s].gone}
     IN /\ status' = [f \in Files |-> IF f \in dropped THEN "absent" ELSE status[f]]
        /\ expiry' = [f \in Files |-> IF f \in dropped THEN "never" ELSE expiry[f]]
        /\ age' = [f \in Files |-> IF f \in dropped THEN 0 ELSE age[f]]
  /\ sw' = [sw EXCEPT ![s] = IdleSweep]
  /\ UNCHANGED <<sha, up, blobs, thumbs>>

\* The process is killed, or SQLite raises ("database is locked").
Crash(s) ==
  /\ MayCrash
  /\ sw[s].pc # "idle"
  /\ sw' = [sw EXCEPT ![s] = IdleSweep]
  /\ UNCHANGED <<rowVars, sha, up, blobs, thumbs>>

-----------------------------------------------------------------------------

Upload(f) ==
  \/ \E h \in Hashes : Commit(f, h)
  \/ RefuseQuota(f)
  \/ Sniff(f)
  \/ OpenImage(f)
  \/ WriteThumb(f)
  \/ Insert(f)
  \/ Abort(f)

SweepStep(s) ==
  \/ Start(s)
  \/ \E f \in Files : MarkExpired(s, f)
  \/ FindOrphans(s)
  \/ \E h \in Hashes : Recheck(s, h)
  \/ UnlinkBlob(s)
  \/ BlobLocked(s)
  \/ UnlinkThumb(s)
  \/ ThumbLocked(s)
  \/ Confirm(s)
  \/ Purge(s)

Sweep(s) == SweepStep(s) \/ Crash(s)

Next ==
  \/ \E f \in Files : Upload(f) \/ Delete(f) \/ RetentionElapses(f)
  \/ \E s \in Sweepers : Sweep(s)
  \/ Tick

Spec == Init /\ [][Next]_vars

(***************************************************************************)
(* What the schedule justifies: the clock advances; cron starts a sweep    *)
(* every hour and a sweep that has begun goes on; a file held open by      *)
(* another program is released now and then, so an unlink that is tried    *)
(* again and again succeeds; and processes do not die for ever, so that    *)
(* from some point on each sweep ends.  Nothing is assumed of the clients. *)
(***************************************************************************)
Fairness ==
  /\ WF_vars(Tick)
  /\ \A s \in Sweepers :
       /\ WF_vars(SweepStep(s))
       /\ \A h \in Hashes :
            /\ SF_vars(sw[s].cur = h /\ UnlinkBlob(s))
            /\ SF_vars(sw[s].cur = h /\ UnlinkThumb(s))

\* (A sweep that dies with nothing to purge is one that has ended.)
SweepsEnd == <>[][\A s \in Sweepers : Crash(s) => Purge(s)]_vars

FairSpec == Spec /\ Fairness /\ SweepsEnd

(***************************************************************************)
(* Content that nothing refers to any more loses its rows, whatever was    *)
(* locked or crashed on the way, unless it is uploaded again.  (With       *)
(* BytesAccountedFor of BlobHistory: and then its bytes are gone.)         *)
(***************************************************************************)
DeletedContentIsPurged ==
  \A h \in Hashes :
    (HasRow(h) /\ ~Referenced(h)) ~> (Referenced(h) \/ ~HasRow(h))

(***************************************************************************)
(* A file past its retention is deleted without any client asking.         *)
(***************************************************************************)
ExpiredFileIsDeleted ==
  \A f \in Files :
    (status[f] = "live" /\ expiry[f] = "past") ~> status[f] # "live"

-----------------------------------------------------------------------------
(* What the repository says, and the code does not do *)

(***************************************************************************)
(* A file the service has accepted and not deleted has its bytes.  The     *)
(* comments on find_orphan_blobs, on is_hash_referenced and on step 2b of  *)
(* the sweep say that a concurrent upload cannot lose its blob.  Both the  *)
(* recheck and the unlink of a sweep fit between the commit and the insert *)
(* of an upload, and an insert fits between the recheck and the unlink.    *)
(***************************************************************************)
LiveRowHasBlob == \A f \in Files : status[f] = "live" => sha[f] \in blobs
=============================================================================
