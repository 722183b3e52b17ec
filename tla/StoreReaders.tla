---------------------------- MODULE StoreReaders ----------------------------
(***************************************************************************)
(* Those who read the store while BlobHistory changes it: GET /d/ and      *)
(* GET /i/ (app/routers/access.py), and the audit (scripts/verify_blobs.py)*)
(* that compares the rows with the disk.  All of them read rows first and  *)
(* look at files later, one system call at a time, and lock nothing; the   *)
(* path of a download is opened by nginx or FileResponse after the handler *)
(* has returned.                                                           *)
(*                                                                         *)
(* A thumbnail, which is written in place, is also taken apart here into   *)
(* the open that empties the file and the write that fills it.             *)
(***************************************************************************)
EXTENDS BlobHistory

CONSTANT NoFile

ASSUME NoFileAssumption == NoFile \notin Files

VARIABLES
  writing,    \* uploads that have opened their thumbnail and not written it
  lost,       \* the ones of them whose thumbnail was unlinked meanwhile
  torn,       \* hashes whose thumbnail is not whole
  at,         \* where the reader has got to
  file,       \* the row it has read
  path,       \* the directory of the file it was told to send
  late,       \* ticks since it read its rows, counted up to Grace
  spoiled,    \* whether a sweep has removed its file in a race with an upload
  known,      \* the hashes the audit found rows for
  listing,    \* the blobs it has listed and not looked at
  reported,   \* the ones it has called orphaned
  moved,      \* hashes in the window of an upload at some time since `known`
  steady,     \* hashes that were strays on disk all the time since `known`
  ruined      \* hashes whose thumbnail some upload has failed to finish

thumbVars == <<writing, lost, torn, ruined>>
rowReader == <<file, path, late, spoiled>>
auditVars == <<known, listing, reported, moved, steady>>
readVars == <<at, rowReader, auditVars>>
svars == <<hvars, thumbVars, readVars>>

-----------------------------------------------------------------------------
(* Thumbnails *)

\* open(dest, "wb") in dest.write_bytes; the file is there, and empty.
OpenThumb(f) ==
  /\ up[f] = "decoded" /\ f \notin writing
  /\ writing' = writing \cup {f}
  /\ torn' = torn \cup {sha[f]}
  /\ thumbs' = thumbs \cup {sha[f]}
  /\ UNCHANGED <<rowVars, sha, up, sw, blobs, lost, ruined>>

WroteThumb(f) == up[f] = "decoded" /\ up'[f] = "ready"

\* ... Thumbs with a write that may come out short.
ThumbsShort ==
  /\ writing' = {f \in writing : up'[f] = "decoded"}
  /\ lost' = {f \in writing' : f \in lost \/ sha[f] \notin thumbs'}
  /\ \A f \in Files : WroteThumb(f) => thumbs' = thumbs
  /\ ruined' = ruined \cap thumbs'
  /\ torn' = torn \cap thumbs'

\* What a step of the store does to the content of thumbnails.  The write
\* follows an open and fills the file that was opened; a full disk, or a
\* death, leaves it as it is.
Thumbs ==
  /\ writing' = {f \in writing : up'[f] = "decoded"}
  /\ lost' = {f \in writing' : f \in lost \/ sha[f] \notin thumbs'}
  /\ \A f \in Files : WroteThumb(f) => thumbs' = thumbs
  /\ \E failed \in SUBSET (writing \ (writing' \cup lost)) :
       /\ \A f \in writing \ lost : up'[f] = "dead" => f \in failed
       /\ ruined' = thumbs' \cap (ruined \cup {sha[f] : f \in failed})
       /\ torn' = thumbs' \cap
            (torn \ {sha[f] : f \in {g \in writing \ (lost \cup failed) : WroteThumb(g)}})

-----------------------------------------------------------------------------
(* Readers *)

\* get_file, or a turn of audit_rows: the row is live, and its path is built.
ReadRow(f) ==
  /\ at = "idle" /\ status[f] = "live"
  /\ file' = f /\ late' = 0 /\ spoiled' = (f \in overlapped)
  /\ \/ at' = "chosen" /\ path' = "blobs"
     \/ at' = "image" /\ path' = "thumbs"
  /\ UNCHANGED auditVars

There == sha[file] \in (IF path = "thumbs" THEN thumbs ELSE blobs)

\* ... ChoosePath without the fallback.
ChooseThumb ==
  /\ at = "image"
  /\ at' = "chosen"
  /\ UNCHANGED <<rowReader, auditVars>>

\* serve_image: without a thumbnail the original is sent.
ChoosePath ==
  /\ at = "image"
  /\ at' = "chosen"
  /\ path' = IF There THEN path ELSE "blobs"
  /\ UNCHANGED <<file, late, spoiled, auditVars>>

\* path.exists(), before the answer.
TestPath ==
  /\ at = "chosen"
  /\ at' = IF There THEN "sending" ELSE "missing"
  /\ UNCHANGED <<rowReader, auditVars>>

\* The file is opened; in audit_rows, path.stat().
OpenPath ==
  /\ at = "sending"
  /\ at' = IF There THEN "sent" ELSE "broken"
  /\ UNCHANGED <<rowReader, auditVars>>

\* ... ReadHashes of the live rows only.
ReadLiveHashes ==
  /\ at = "idle"
  /\ at' = "listing"
  /\ known' = {h \in Hashes : Referenced(h)}
  /\ listing' = {} /\ reported' = {}
  /\ moved' = {h \in Hashes : InWindow(h)}
  /\ steady' = stray \cap blobs
  /\ UNCHANGED rowReader

\* audit_orphans: the hashes of all rows, live or deleted.
ReadHashes ==
  /\ at = "idle"
  /\ at' = "listing"
  /\ known' = {h \in Hashes : HasRow(h)}
  /\ listing' = {} /\ reported' = {}
  /\ moved' = {h \in Hashes : InWindow(h)}
  /\ steady' = stray \cap blobs
  /\ UNCHANGED rowReader

\* ... ListBlobs of the rows, as the sweep does it.
ListKnownBlobs ==
  /\ at = "listing"
  /\ at' = "checking"
  /\ listing' = blobs \cap known
  /\ UNCHANGED <<rowReader, known, reported, moved, steady>>

ListBlobs ==
  /\ at = "listing"
  /\ at' = "checking"
  /\ listing' = blobs
  /\ UNCHANGED <<rowReader, known, reported, moved, steady>>

\* An orphan's size is asked for; if it is gone the audit ends there.
CheckBlob(h) ==
  /\ at = "checking" /\ h \in listing
  /\ listing' = listing \ {h}
  /\ IF h \in known \/ h \in blobs THEN at' = at ELSE at' = "crashed"
  /\ reported' = IF h \in blobs \ known THEN reported \cup {h} ELSE reported
  /\ UNCHANGED <<rowReader, known, moved, steady>>

Audited ==
  /\ at = "checking" /\ listing = {}
  /\ at' = "audited"
  /\ UNCHANGED <<rowReader, auditVars>>

Leave ==
  /\ at \in {"sent", "missing", "broken", "crashed", "audited"}
  /\ at' = "idle"
  /\ file' = NoFile /\ path' = "blobs" /\ late' = 0 /\ spoiled' = FALSE
  /\ known' = {} /\ listing' = {} /\ reported' = {} /\ moved' = {} /\ steady' = {}

Read ==
  \/ \E f \in Files : ReadRow(f)
  \/ ChoosePath \/ TestPath \/ OpenPath
  \/ ReadHashes \/ ListBlobs \/ Audited
  \/ \E h \in Hashes : CheckBlob(h)
  \/ Leave

\* A sweep removes the blob or the thumbnail of h, which was live again after
\* the sweep had listed it.
RemovedRenewed(h) ==
  \E s \in Sweepers :
    /\ sw[s].cur = h /\ h \in renewed[s]
    /\ <<sw[s].pc, sw'[s].pc>> \in {<<"unlink", "unthumb">>, <<"unthumb", "confirm">>}

\* The audit has read its rows.
Auditing == at \in {"listing", "checking", "crashed", "audited"}

\* What the reader would have to know of a step of the store.
Observe ==
  /\ UNCHANGED <<at, file, path, known, listing, reported>>
  /\ IF file = NoFile THEN UNCHANGED <<late, spoiled>> ELSE
       /\ late' = IF Tick /\ late < Grace THEN late + 1 ELSE late
       /\ spoiled' = (spoiled \/ file \in overlapped' \/ RemovedRenewed(sha[file]))
  /\ IF ~Auditing THEN UNCHANGED <<moved, steady>> ELSE
       /\ moved' = moved \cup {h \in Hashes : InWindow(h)'}
       /\ steady' = steady \cap stray' \cap blobs'

-----------------------------------------------------------------------------

SInit ==
  /\ HInit
  /\ writing = {} /\ lost = {} /\ torn = {} /\ ruined = {}
  /\ at = "idle"
  /\ file = NoFile /\ path = "blobs" /\ late = 0 /\ spoiled = FALSE
  /\ known = {} /\ listing = {} /\ reported = {} /\ moved = {} /\ steady = {}

SNext ==
  \/ HNext /\ Thumbs /\ Observe
  \/ (\E f \in Files : OpenThumb(f)) /\ Remember /\ Observe
  \/ Read /\ UNCHANGED <<hvars, thumbVars>>

SSpec == SInit /\ [][SNext]_svars

-----------------------------------------------------------------------------

STypeOK ==
  /\ HTypeOK
  /\ writing \subseteq {f \in Files : up[f] = "decoded"}
  /\ lost \subseteq writing
  /\ torn \subseteq thumbs /\ ruined \subseteq thumbs
  /\ at \in {"idle", "image", "chosen", "sending", "sent", "missing", "broken",
             "listing", "checking", "crashed", "audited"}
  /\ file \in Files \cup {NoFile}
  /\ path \in {"blobs", "thumbs"}
  /\ late \in 0..Grace
  /\ known \cup listing \cup reported \cup moved \cup steady \subseteq Hashes

(***************************************************************************)
(* A download, an image and a row of the audit find their file, in spite   *)
(* of deletions and sweeps in between, if they get to it within Grace of   *)
(* reading the row: only a sweep that raced an upload of the same content  *)
(* takes it from under a reader that fast.  For an image this includes the *)
(* thumbnail that was there a moment ago.                                  *)
(***************************************************************************)
FastReadersFindFiles ==
  at \in {"missing", "broken"} => late = Grace \/ spoiled

(***************************************************************************)
(* What the audit reports as an orphan is one, or an upload was between    *)
(* commit and insert since it read the rows (a false alarm).               *)
(***************************************************************************)
OrphansAreReal == reported \subseteq stray \cup moved

(***************************************************************************)
(* And bytes that were astray all the while are reported: no other part of *)
(* the system would ever notice them.                                      *)
(***************************************************************************)
OrphansAreFound == at = "audited" => steady \subseteq reported

(***************************************************************************)
(* A thumbnail that is not whole is one an upload is just writing, or one  *)
(* that a death or a full disk left behind.                                *)
(***************************************************************************)
TornHasCause ==
  \A h \in torn : h \in ruined \/ \E f \in writing \ lost : sha[f] = h

-----------------------------------------------------------------------------
(* Why: the facts every step keeps *)

\* A reader between its row and its file.
Reading == at \in {"image", "chosen", "sending"}

ReaderHasRow ==
  /\ Reading \/ at \in {"sent", "missing", "broken"} => file \in Files
  /\ file \in Files => up[file] = "done" /\ sha[file] \in Hashes

\* No sweep will list the hash of a fast reader's file: the row is young, and
\* so is every other row of the hash if a purge has dropped it.
RowsAreYoung ==
  Reading /\ late < Grace =>
    /\ status[file] = "deleted" => age[file] <= late
    /\ status[file] = "absent" =>
         \A f \in RowsOf(sha[file]) : status[f] = "deleted" => age[f] <= late

\* Whoever has listed it did so before it was live.
ListedIsRenewed ==
  Reading /\ late < Grace => \A s \in Sweepers : sha[file] \in Listed(s) => sha[file] \in renewed[s]

FileIsThere ==
  Reading /\ late < Grace /\ ~spoiled =>
    /\ sha[file] \in blobs
    /\ path = "thumbs" /\ at # "image" => sha[file] \in thumbs

StrayHasNoRow == \A h \in stray : ~HasRow(h)

\* Rows and uploads the audit does not know of came after its reading.
NewcomersMoved ==
  Auditing => \A h \in Hashes :
    /\ InWindow(h) => h \in moved
    /\ HasRow(h) => h \in known \cup moved

NothingReported == ~Auditing => reported = {}

\* What was astray all the while is still to be looked at, or reported.
SteadyIsListed ==
  /\ Auditing => steady \subseteq (stray \cap blobs) \ known
  /\ at = "checking" => steady \subseteq listing \cup reported

SInv ==
  /\ IInv
  /\ STypeOK
  /\ ReaderHasRow
  /\ RowsAreYoung
  /\ ListedIsRenewed
  /\ FileIsThere
  /\ FastReadersFindFiles
  /\ StrayHasNoRow
  /\ NewcomersMoved
  /\ NothingReported
  /\ OrphansAreReal
  /\ SteadyIsListed
  /\ OrphansAreFound
  /\ TornHasCause
=============================================================================
