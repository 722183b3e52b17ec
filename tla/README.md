# Verification of the image and file hosting service

This directory holds TLA+ models of the service in this repository, the TLC
configurations that check them, and proofs that TLAPS checks. Every definition
is translated from the Python source; `PROJECT.json` maps each one to the lines
it stands for, and lists the runs, the hazards they are aimed at, the findings
and the theorems.

    tlc -workers 2 -config MCBlobHistory.cfg MCBlobHistory
    tlapm StoreProofs.tla

## 1. The system

The service stores uploads on disk under their SHA-256 and keeps one row per
upload in SQLite. In production (`deploy/host-service.service`) it is **two
uvicorn worker processes**, an **hourly cron sweep** (`scripts/cleanup.py`) that
is a process of its own, and **command-line tools** (`scripts/keys.py`,
`scripts/mintkey.py`, `scripts/verify_blobs.py`). They share the database file
and the data directory and nothing else: no lock spans two steps. Each `db.*`
call opens its own connection and is one transaction; each file operation is
one system call.

Inside a worker the handlers are `async def` with synchronous bodies, and the
only await that yields in an upload is `upload.read` inside `stream_to_blob`.
So within one worker everything after the bytes are received runs without
interruption, and it interleaves only with the other worker, the sweep and the
tools.

### Components

| Component | State | Operations | What makes it correct |
|---|---|---|---|
| Upload staging (`storage.py`, `images.py`) | `data/tmp/up_*.part`, a hasher per request | `stream_to_blob`, `strip_exif`, `_discard`, `sweep_tmp` | what is stored under a digest is what the client sent, or that encoded again without metadata; the limit holds while reading; fragments go away |
| Blobs and rows (`storage.py`, `db.py`, `routers/files.py`, `cleanup.py`) | `data/blobs`, `data/thumbs`, table `files` | upload, `delete_file`, expiry, `run_once` steps 1 to 3 | no live row loses its bytes; no bytes without a row; nothing goes before its grace; what is dead is reclaimed |
| Antivirus queue (`scanservice.py`, `scanner.py`, `access.py`) | `scan_status` of each row, the cached scanner of each process | `insert_file` with `initial_status`, `scan_and_apply`, `resolve_pending`, `release_stale_pending`, the gate of `download` | one verdict per file, never overwritten; malware is served only for a cause one can name; nothing is pending for ever |
| API keys (`auth.py`, `db.py`, `keys.py`, `mintkey.py`) | tables `api_keys`, `audit_log`; a `Principal` per request | authenticate, `enforce_quota`, `add_used_bytes`, `log`, mint, disable, enable, purge | quotas hold; `used_bytes` adds up; audit entries resolve to a key |
| Rate limiter (`auth.py`) | a bucket per key and worker | `check` | a bound on the requests that pass in any interval |
| Signed links (`signing.py`, `urls.py`, `access.py`) | the secret of each process | `sign`, `verify`, `clamp_ttl`, `download` | links live as long as promised and no longer; a final refusal is final |
| Readers of the store (`access.py`, `verify_blobs.py`) | none | `download`, `serve_image`, `audit_rows`, `audit_orphans` | who read a row finds its file; strays are reported, and only they |
| Scanner drivers (`scanner.py`) | a socket, or a child process | `available`, `scan` | a verdict is the truth about the whole file; a scan ends |
| Schema (`db.py`) | the tables and columns | `init`, `_migrate` | every start ends with the current schema, whoever else starts |
| Startup and configuration (`main.py`, `config.py`) | settings, the secret key | `lifespan`, `get_settings` | what a worker decides at its start holds later |
| Schemas, deployment, demos, tests | | | not part of the models (section 6) |

**How they interact.** An upload authenticates (API keys, rate limiter), is
staged and committed (staging), is tested against the quota (keys), makes a
thumbnail and inserts its row (blobs and rows) with the initial scan status
(queue), is scanned, is charged and logged (keys), and is answered with a link
(links). A sweep runs through the queue (0a, 0b), the rows (1), the blobs (2,
3) and `data/tmp` (4) in this order. A download verifies its link, reads its
row once, and opens the blob. The shared state is the database and the data
directory; there are no messages between the processes, and no callbacks.

**What is hard.** The order of an upload's commit and insert against a sweep's
list, recheck, unlink, confirmation and purge. A request and a sweep scanning
the same row. Readings that are used later: the orphan list, the quota, the
gate, the cached scanner. Deaths and exceptions between any two steps, and
file operations that fail silently. Two uploads of one content. Readers that
open a file long after they read its row. A scanner that answers late, in
pieces, or not at all. Workers that start together on an old database, or each
with a secret of its own; clocks that are stepped. Everything that must happen
in the end: reclaiming, expiry, verdicts, fragments, starts, scans.

## 2. Modules

| Module | Models | Extends / instantiates |
|---|---|---|
| `BlobLifecycle` | rows, blobs and thumbnails, changed by uploads and sweeps | |
| `BlobHistory` | the same with history variables: which upload and sweep overlapped | extends `BlobLifecycle` |
| `ScanGate` | the abstract specification of the antivirus gate | |
| `ScanQueue` | requests, sweeps, downloads and the scanner | implements `ScanGate` (`Gate == INSTANCE ScanGate WITH ...`) |
| `ScanHistory` | the same with what was scanned, by whom and how late | extends `ScanQueue` |
| `ApiKeys` | keys, quota, used bytes, audit log and the tools | |
| `KeyHistory` | the same with which requests overlapped a charge or a purge | extends `ApiKeys` |
| `StagedUpload` | an upload from its first chunk to its blob, and `sweep_tmp` | implements the commits of `BlobLifecycle` (`Store == INSTANCE BlobLifecycle WITH ...`) |
| `TokenBucket` | the abstract specification of the rate limiter | |
| `RateLimiter` | the lazily refilled buckets of each worker | implements `TokenBucket` (`INSTANCE ... WITH`) |
| `RateHistory` | the same with what passed since some moment, and who waits since when | extends `RateLimiter` |
| `SchemaMigration` | `Database.init` by several processes at once | |
| `ClamdScan` | one scan or probe, call by call, and the daemon it talks to | |
| `SignedLinks` | links, the workers that answer them, secrets and the clock | extends `ScanGate` |
| `StoreReaders` | downloads, images and the audit among uploads and sweeps; torn thumbnails | extends `BlobHistory` |
| `StoreProofs` | the theorems of `BlobHistory` and `StoreReaders` | extends `StoreReaders` and `TLAPS` |
| other `*Proofs` | the theorems of each component | extend its last module and `TLAPS` |
| `MC*` | instances for TLC | |

Definitions keep the names of the code where they can. Operators marked as a
slip or a bug (`RecheckForgotten`, `WriteAnyRow`, `UsedWithinQuota`, ...) are
not part of any specification: each replaces one definition, to see that the
property it is listed with in `PROJECT.json` notices.

### BlobLifecycle, BlobHistory

`status[f]`, `expiry[f]`, `age[f]` and `sha[f]` are the columns `deleted_at`,
`expires_at` and `sha256` of a row; `blobs` and `thumbs` are the two
directories; `up[f]` is the place of an upload and `sw[s]` the locals and place
of a sweep. `Commit` is `stream_to_blob` as a whole; `RefuseQuota`, `Sniff`,
`OpenImage`, `WriteThumb` and `Insert` follow `upload_file`; `Start`,
`MarkExpired`, `FindOrphans`, `Recheck`, `UnlinkBlob`, `UnlinkThumb`, `Confirm`
and `Purge` follow `run_once`. `BlobLocked` and `ThumbLocked` are unlinks that
`_discard` swallows; `Abort` and `Crash` end a process anywhere. At most
`Workers` uploads are between their commit and their insert, as there is no
await in between.

The system as it is loses bytes in one race (finding `blob_lost`), so the plain
invariant is false. `BlobHistory` remembers the overlaps, and states what is
true: bytes are lost **only** in that race, and bytes are left without a row
**only** by an upload that ended without an insert or by content that came back
between confirmation and purge.

### ScanGate, ScanQueue, ScanHistory

`ScanGate` has two variables, the status of each row and the files given out,
and three actions: a row is admitted, decided once, given out under `clean` or
`skipped`. `ScanQueue` has the workers with the scanner each found at its start,
the requests, the sweeps with their batches, the downloads in two steps, and
the ages of pending rows. `ImplementsGate` is the refinement, with the variables
of `ScanGate` being those of `ScanQueue` of the same name. The scanner has no
variable: it answers or not, each time anew. `ScanOutcomes` is what a scan can
return: a `ScanError`, which becomes `error`, or an answer, and `Answers` has what
`ClamdScan` shows the driver to make of clamd's replies: the truth, or `clean` for
malware with an "ok" in its signature's name (`OkNamed`), when the reply is cut
off there. `ProbeOutcomes` is what a probe can find: that there is no scanner, at
any time, or that there is one. `ScanHistory` remembers slow requests, scanned
files, late sweeps, and the files that a failed probe may have let through
(`missed`). From these, `MalwareHasCause` says how malware gets out: as `clean`,
after such an answer, or as `skipped`, after such a probe, and in no other way.

### ApiKeys, KeyHistory

`row`, `used` and `audit` are the tables; `key[r]` and `seen[r]` are what a
request read when it was authenticated; `purging[t]` is the key that a run of
`keys.py purge` has counted no audit rows for. A file row is only remembered as
its size under its uploader. `KeyHistory` remembers which requests were in
flight as another request charged their key (`raced`), or as it was purged
(`severed`).

### StagedUpload

A file is a short sequence of chunks, and SHA-256 an injective function. `Read`
is one turn of the loop of `stream_to_blob`, `Rewrite`, `LeaveAsIs` and
`TearRewrite` are what `strip_exif` may do, `Reuse`, `FindMissing` and `Replace`
are the commit, in which the test for the file and the rename are two steps.
What Pillow makes of a file is the constant function `Clean`. JPEGs encoded
again have no metadata; TIFFs are encoded again whenever they are uploaded, for
`getexif` finds tags in each of them; a JPEG of several pictures (`Mpo`) is of
neither format to Pillow, and keeps its metadata. `fate[u]` is what the
sanitizing of `u` meets: no error, one before the file is touched (it cannot be
read, decoded, encoded again, or opened to be written), or a disk that fills up
while it is being rewritten.

`ImplementsCommit` is the refinement of `BlobLifecycle`: with the digests as
hashes, and with rows, thumbnails and sweeps left out, the store sees each
upload as one `Commit`. This is why `BlobLifecycle` may have the commit as one
step. It has no insert, so that no upload leaves its window there; the bound on
the workers, which `BlobLifecycle` has for its windows, is the number of uploads.

### TokenBucket, RateLimiter, RateHistory

`tokens[b]` and `updated[b]` are the two fields of a bucket, one for each worker
and key, in integers: a token is `Minute` units, so that a tick adds `Limit`
units, and the division by 60 is exact. `TokenBucket` is refilled at every
tick; `ImplementsBucket` maps its content to what the code would find if it
looked now. A limit of 0 in a row means the default, as `or` does in
`auth.py:123`; a default of 0, with which nothing would ever pass,
is excluded by the assumption `Default >= 1`.
`Watch` of `RateHistory` begins an observation at any moment, so that its bound
is one over every interval.

### SchemaMigration

One step is one statement, for sqlite3 opens no transaction around DDL.
`objects` and `columns` are the schema on disk, `existing[p]` what process `p`
read with `PRAGMA table_info`, `fellOver[p]` (no program variable) the columns
whose `ALTER TABLE` failed a start of `p`. Workers are started again, tools are
not.

### ClamdScan

The bytes of the protocol are messages: a command, a chunk, an end, and a reply
in pieces (`Endings`), which the daemon may cut anywhere. `Take`, `Speak`,
`HangUp` and `Wedge` are the daemon; `Connect`, `SendChunk`, `SendEnd`,
`Receive`, `EndOfReply` and `TimeOut` the driver; `Parse` is what `scan` makes of
what was received. `sendall` blocks when the socket's buffer is full. The same
module has clamscan, a child that ends with an exit code or is timed out, and
`available`.

### SignedLinks

`Code(w, l)` is the whole of `download` up to the disk, in the order of its
checks. A link remembers, besides what it carries, the process that issued it
and when. `fixed` says whether there is a `SECRET_KEY`; without one every
process has a fresh secret. `now` is `time.time()` and `real` the time that has
passed: `StepClock` sets one against the other. The verdicts are those of
`ScanGate`, whose actions `Insert`, `Judge` and `Download` use; `Delete` is the
owner or the sweep. `AnswerUpload` builds its link without looking at the row
again, as `upload_file` does.

### StoreReaders

The reader takes three system calls to what looks like one: it reads a row,
tests for the file, and opens it (`FileResponse`, nginx, or the audit's
`path.stat()`); an image tests for its thumbnail first. `audit_orphans` reads
the hashes of all rows, lists the disk, and asks for the size of each orphan.
`Observe` keeps what the reader cannot see: how late it is, whether a sweep
raced an upload for its file, which uploads were in their window meanwhile.
Writing a thumbnail is two steps here, `OpenThumb` and the write (`Thumbs`);
`torn` are the thumbnails that are not whole, `lost` the writers whose file has
been unlinked under them. A listing is one step; the real one may also miss or
show what changes while it runs.

## 3. Runs

| Run | Checks | Instance | Distinct |
|---|---|---|---|
| `blob_safety` | `OnlyOverlapLosesBytes`, `BytesAccountedFor`, `UnlinkOnlyAfterGrace`, `PurgeOnlyAfterGrace` | 3 files, 2 hashes (one has thumbnails), 1 sweep, 2 workers, grace 1, crashes | 254,878 |
| `blob_two_sweeps` | `IInv`, `DeletedContentIsPurged`, `ExpiredFileIsDeleted` | 2 files, 1 hash, 2 sweeps at once, with fairness | 73,502 |
| `blob_lost` | `LiveRowHasBlob` is violated | no crash needed | |
| `readers` | `FastReadersFindFiles`, `OrphansAreReal`, `OrphansAreFound`, `TornHasCause` | 2 files, 1 hash, 2 sweeps, 1 reader | 1,466,711 |
| `scan_safety` | `ImplementsGate`, `MalwareHasCause`, `ResponseStands`, `FastVerdictStands`, `OnlyLateSweepsFailUnasked`, `PendingResolved`, `HInv` | 2 files (both malware, one `OkNamed`), 1 worker, 1 sweep, batch of 1, graces 1 and 2, deaths and exceptions, with fairness | 1,075,700 |
| `scanner_driver` | `TruthUnlessTorn`, `VerdictOnWholeFile`, `ScanTimeBounded`, `ScanReturns` | 5 files of up to 3 chunks, limit 2, buffer 2, timeout 2 | 10,679 |
| `scanner_probe` | `AnsweringDaemonIsAvailable` is violated | the same | |
| `keys_safety` | `OnlyRacesExceed`, `UsedAccountsForFiles`, `HistoryResolves` | 3 requests of sizes 1, 2, 2; 2 keys, one with a quota of 3; 1 purge at a time | 1,191,336 |
| `staged_safety` | `StoredAsPromised`, `MetadataOnlyIfLeftAlone`, `LimitKept`, `FragmentsReclaimed`, `ImplementsCommit` | 2 uploads, 8 files of up to 3 chunks, limit 2 | 406,109 |
| `rate_limit` | `ImplementsBucket`, `WindowBound`, `RetryAfterSuffices` | 2 workers, 2 keys, a minute of 2 ticks, default 2, intervals of up to 3 ticks | 268,827 |
| `schema` | `UpHasSchema`, `NeverFailsTwice`, `WorkersComeUp` | 2 workers and a tool, 2 of the 3 columns | 278,986 |
| `links` | `LivesItsTtl`, `DeadAfterLongestTtl`, `RefusalIsFinal`, `ForgedOnlyElsewhere` | 1 link, 1 file, 2 workers restarted up to twice each, and twice in all without a `SECRET_KEY` (4 secrets, 2 of them at the start), ttls below, inside and above the range, skew 1, 7 ticks, clock steps of up to 2 | 1,388,730 |

**Why the bounds are enough.** No action looks at more than two files, two
uploads or two requests of one hash or key at a time, so what can go wrong
between two needs two, and a third to come back after both. The blob run has
three: one that holds the content, one that is deleted, and one that uploads it
again while the sweep is at work. A grace of one tick separates "young" from
"old enough", and the graces of the queue (1 and 2) have a tick between them in
which a row is old enough for the pickup and not for the backstop. Of the two
files of the queue, a scan of one may say all that it may say of any, clean ones
included, and of the other nothing but the truth. A batch of
one is filled by one row and leaves another behind, which is what saturation is
about. Sizes 1, 2, 2 with a quota of 3 let any two requests fit and the third
not, one by one. Files of up to three chunks with a limit of two have a body at
the limit, one beyond it, an empty one, and a rewrite that grows; the same
sizes give the scanner an empty stream, one at clamd's limit and one beyond it,
and the name of one signature has an "ok" in it, at which a cut reply looks
clean. Two columns let one process be between them while another is at either.
No step of `SignedLinks` reads two links, and 7 ticks are more than the largest
ttl, the skew and the largest step together. One reader is enough, as readers
change nothing. Counters that are only compared with a bound stop at it (`age`,
`late`). Symmetry is used in the blob, reader and link runs, and never with
liveness.

The proofs remove these bounds for every safety property in section 5. The
inductive invariants are among the checked properties only where they say more
than the others of the run (`IInv` with two sweeps, `HInv`); the rest were
checked on the same instances before they were proved, and section 5 has them
for every value of the constants.

**Deadlock** is checked except in the key, staging and scanner runs, in which
the requests come to an end, and in the link run, in which time does.

### Fairness

* *Blobs* (`FairHSpec` of `BlobHistory`): the clock advances; cron starts
  sweep after sweep and a running one goes on (weak fairness of `SweepStep`); a
  locked file is released now and then, so an unlink that is tried again and
  again succeeds in the end (strong fairness of `UnlinkBlob` and `UnlinkThumb`
  for each hash); and from some time on sweeps do not die any more. Clients are
  not assumed to do anything.
* *Queue* (`FairHSpec` of `ScanHistory`): the clock and the sweeps, as above. No
  request, worker or scanner is assumed to do anything: requests may die for
  ever, every pickup may raise, and the scanner may never answer.
* *Staging* (`FairSpec` of `StagedUpload`): a day passes, and a sweep gets at
  each fragment it can remove.
* *Schema* (`FairSpec` of `SchemaMigration`): a worker that is down is started
  (`Restart=` in the unit file, and uvicorn's supervisor) and goes on; from some
  time on nobody kills it. Failed `ALTER TABLE`s are not assumed to stop: that
  they do is what `WorkersComeUp` shows.
* *Scanner* (`FairSpec` of `ClamdScan`): the driver goes on when it can; a
  blocked call counts as going on when its timeout is up. Nothing is assumed of
  the daemon.

The hourly schedule is in README.md ("Schedule this hourly") and the timeouts of
scanner and SQLite make every step of a sweep return. Links, keys, the rate
limiter and the readers have no liveness: nothing in the code promises any.

## 4. Findings

Two places in which the code does not do what the repository says of it, each
with a run whose counterexample shows it.

1. **A sweep can unlink the bytes of a file that was just accepted**
   (`blob_lost`; `app/cleanup.py:103`). The recheck and the unlink are two
   steps, and an upload commits its blob long before it inserts its row.
   `db.py:379-381` and README.md:1020-1023 say that this cannot happen.
2. **A running clamd is taken for unreachable** (`scanner_probe`;
   `app/scanner.py:144`). A `z` command is answered with a NUL at the end, which
   `scan` expects and `available` does not: `"PONG\0"` is not `"PONG"`. Scanning
   is then off for the life of the worker, and uploads are `skipped`.

Other disagreements, seen while modelling; the named property says exactly how
far the promise holds:

* An upload refused by the quota leaves its bytes without a row
  (`routers/files.py:109`; `BytesAccountedFor`). `verify_blobs.py:25-28` lists the
  ways in which orphans appear, and this, the ordinary one, is not among them.
* The purge drops the last trace of bytes that came back after they were
  confirmed gone (`BytesAccountedFor`).
* A sweep that cannot reach the scanner releases pending files as `skipped`,
  which is servable (`scanservice.py:161`; `MalwareHasCause`). README.md:467
  says that job 2, which writes `error`, is the fallback.
* Overlapping uploads exceed the quota, each tested against the `used_bytes` of
  its own start (`auth.py:144`; `OnlyRacesExceed`).
* A rewrite that fails half way is stored under the digest of the original
  (`images.py:157`; `StoredAsPromised`), although README.md:981-982 says that
  names are digests "without exception".
* `error` is answered with 409 because it is "transient" (README.md:527,
  `access.py:72`), but no operation leaves it (`ImplementsGate`): a client that
  retries, retries for ever.
* `get_scanner` promises a retry after a failed probe that the cached `None`
  prevents (`scanservice.py:42-45`).
* A reply that is cut off after an "OK" in the name of a signature reads as
  clean (`scanner.py:176`; `TruthUnlessTorn`), and the malware is given out
  (`MalwareHasCause`), although a scanner failure is never to look clean
  (`scanner.py:47-48`, README.md:530).
* A JPEG of several pictures, whose format is MPO to Pillow, keeps its
  metadata (`images.py:142`; `MetadataOnlyIfLeftAlone`), although `strip_exif` is
  "Applied to JPEG/TIFF only" (`images.py:113`); so does one that fails to be read,
  decoded or encoded.
* The scanner's timeout is one for each call (`ScanTimeBounded`), so that 60 s is
  not "longer than any in-request scan" (`cleanup.py:27`); and a sweep whose batch
  is out of date when it comes to release may fail rows that nobody scanned
  (`OnlyLateSweepsFailUnasked`).
* Two workers that start on an old database: one of them fails on the column
  the other has added, and comes up only when it is started again
  (`NeverFailsTwice`, `WorkersComeUp`).
* Without `SECRET_KEY` links are said to die on a restart (`config.py:115`,
  `main.py:37-41`); with the two workers of the unit file every link is also
  answered with 403, "never retry" (`access.py:33`), by the worker that did not
  issue it (`ForgedOnlyElsewhere`).
* `default_ttl` is not clamped (`signing.py:90`): with a default above `max_ttl`
  that is how long links live (`DeadAfterLongestTtl`).
* The audit calls the bytes of an upload in progress an orphan
  (`OrphansAreReal`), and ends with a `FileNotFoundError` when a file it lists
  is unlinked before its size is read (`CheckBlob`, `OpenPath`).
* A torn thumbnail is kept and served as "immutable", for `make_thumbnail` takes
  any file of that name for finished (`images.py:85`; `TornHasCause`).

## 5. Proofs

All are for any values of the constants, from the assumptions named in the
modules (`ConstantsOK`, `KeysAssumption`, `FilesAssumption`, `LinksAssumption`,
...), which TLC evaluates on every instance. That the uploads of a run are
finitely many (`UploadsAssumption`) is used by `Refinement` alone.

| Module | Theorems |
|---|---|
| `StoreProofs` | `Invariance` ([]IInv), `NoOtherLoss`, `NothingForgotten`, `GraceHonoured`, `PurgeHonoursGrace`; of readers `ReaderInvariance` ([]SInv), `FastReadersServed`, `NoFalseOrphans`, `NoOrphanMissed`, `TornThumbsExplained` |
| `ScanQueueProofs` | `Invariance`, `ResponseIsFinal`, `QueueImplementsGate` (refinement), `HistoryInvariance` ([]HInv), `MalwareExplained`, `FastScansStand`, `UnaskedFailOnlyLate` |
| `KeyHistoryProofs` | `Invariance`, `QuotaUnlessRaced`, `HistoryAttributable`, `NoChargeLost` |
| `StagedUploadProofs` | `Invariance`, `Promise`, `MetadataRemoved`, `SizeLimit`, `Refinement` |
| `RateLimiterProofs` | `LimiterImplementsBucket` (refinement), `Invariance`, `PassesBounded`, `WaitingIsEnough` |
| `SchemaMigrationProofs` | `Invariance`, `StartedHasSchema`, `NoSecondFall` |
| `ClamdScanProofs` | `Invariance`, `VerdictsAreTrue`, `VerdictsAreComplete`, `TimeIsBounded` |
| `SignedLinksProofs` | `Invariance`, `TtlIsKept`, `TtlIsBounded`, `RefusalsAreFinal`, `OursIsNotForged` |

*Blobs.* "A live file has its blob" is not inductive: one has to know it of the
uploads that have not inserted yet (`WindowHasBytes`), that a sweep about to
unlink faces nobody but uploads that overlapped its recheck
(`UnlinkFacesOverlap`), that what was confirmed gone stays gone unless stirred
(`GoneStaysGone`), and that what is on a sweep's list is still old unless
renewed (`ListedIsOld`). The proof goes conjunct by conjunct, from a lemma
(`SweepEffects`) that says what each step of a sweep does to whom.

*Readers.* A download is safe for as long as its hash cannot get on a sweep's
list: every deleted row of the hash is no older than the reading
(`RowsAreYoung`), even when a purge has dropped the row that was read. A sweep
that had listed the hash before sees it renewed (`ListedIsRenewed`), and if it
then removes the file, that is the race. So the file is there when the path is
tested (`FileIsThere`). For the audit, a hash that has a row or an upload and
was not read has been in a window since (`NewcomersMoved`); what is on disk and
was not read is then a stray or a newcomer, by `BytesAccountedFor`, and strays
stay on its list until they are reported (`SteadyIsListed`). The steps of the
store are not taken apart again for this: three lemmas (`RowEffects`,
`ListEffects`, `DiskEffects`) say what a reader can tell of any of them.

*Queue.* Each step of the queue is a step of the gate because a row has a
verdict only if a scan of the file may give it, or it is `error` or `skipped`
(`AnsweredStatus`, `AnsweredVerdicts`, `AnsweredScans`), and whoever passed the
gate found a final status (`GatePassed`). For the causes of malware, a verdict of
the scanner is that of a scan that was made (`VerdictsWereAsked`), and each row
that is skipped, or is pending and about to be, was missed by a failed probe
(`SkippedWereMissed`); the latter needs that a sweep holds no young rows. That a fast request keeps its verdict needs that a sweep only
ever holds rows that were old (`HeldAreOld`) and that a fast request's row is
young (`RequestsAreYoung`); that only late sweeps fail unscanned files needs that
a batch that was not full holds every row old enough to fail (`BatchCovers`).

*Keys.* A request that nobody raced has an up-to-date reading of `used_bytes`
(`FreshUnlessRaced`), and one that was accepted fits that reading
(`AcceptedFit`); so a charge either stays within the quota or is counted as
excess. A request that may still log has its key or was cut off from it
(`InFlightHaveKeys`). That `used_bytes` is the sum of the charged files
(`UsedIsSum`) needs the sum to grow by the size of the request that joins it.
The library defines the sum by recursion over a set, which invites an induction
over data. Instead, each request stands for as many bytes as its size says, and
`SumIsBytes` shows the sum to be the cardinality of the set of these bytes, by a
least counterexample among the sizes of the partial sets; cardinalities of
disjoint sets then add up.

*Staging.* Up to sanitizing, the fragment is what was hashed, a prefix of the
body (`StagedIsRead`); after it, the fragment is what was hashed or a torn
rewrite (`HashedIsSanitized`); and every blob comes from an upload that was
answered (`BlobsHaveUploads`). So the blob under a sanitized digest is right: had
it been torn, the digest would be that of a file strip_exif encodes again. For
the refinement, `Reuse` and `Replace` are commits of the digest, which is one of
a file that may be sent (`BodiesSent`), and every other step leaves what the
store sees unchanged; after `FindMissing`, it does not matter whether another
upload has stored the digest meanwhile.

*Rate limiter.* A bucket that is refilled when it is looked at holds what one
refilled at every tick would, because capping is the same once or often; the
bound over an interval follows from an account of units: what has passed and
what is left came from the fill at the start of the interval and its ticks.

*Schema.* What a process read is still there, as nothing is ever dropped; so a
start that gets to its end has seen, added or created each column, and one that
fell over a column finds it when it reads again.

*Scanner.* What the driver has sent is what the daemon has read and what is on
the way, in order, and what it received is a beginning of the daemon's reply;
so what it parses is the reply, or a torn one, to the whole file or to none.
Each call costs at most a timeout, and the calls are counted.

*Links.* A refusal that was given still has its reason (`RefusalHolds`): the row
stays deleted, the verdict stays, and the link stays expired while the clock
does not go back. A link has the secret of its process (`LinkKeys`), and with a
`SECRET_KEY` of every process (`KeysKnown`), through all restarts.

**Only model-checked**: the liveness properties (`DeletedContentIsPurged`,
`ExpiredFileIsDeleted`, `PendingResolved`, `FragmentsReclaimed`,
`WorkersComeUp`, `ScanReturns`), as the prover does not handle fairness. Every
other property of a passing run is stated by a theorem. `SInv`, `CountInv` and
`BodiesSent` were checked by TLC on the instances of their runs first.

## 6. What is not modelled

* **Pure input and output**: Pillow's decoding and encoding, SQLite itself (each
  call is a transaction, with `busy_timeout`; a "database is locked" is an
  exception like any other), nginx, the printing of reports, HMAC.
* **No state**: `schemas.py`, the headers of answers, the health endpoint, and
  `audit_store`, which hashes every file: that names are digests is what
  `StagedUpload` is about.
* `StubScanner`, a test double. Demo and test scripts, and the deployment
  files, except for what they say of workers, restarts and the schedule.

Abstractions to keep in mind: file ids and key ids are never used twice; a hash
stands for its content; the two directories of a data dir are sets; clocks do
not step back, except in `SignedLinks`; the limiter may refuse any request in
`ApiKeys`; in `BlobLifecycle` the commit is one step and bytes are whole, which
`StagedUpload` takes apart, and so is the writing of a thumbnail, which
`StoreReaders` takes apart; a link's 500 for a missing blob is in `StoreReaders`
and not in `SignedLinks`; the two tests of `Confirm` for a file and its thumbnail
(`cleanup.py:120`) are one step; what clamd says of a file does not change with
its signatures, or with what becomes of the blob; a default rate limit of 0 is
excluded, and so are negative limits, which `mintkey.py:29` accepts; tokens are
integers, where the code's are floats and rounded.

## 7. Plan

Done: all components of section 1, each with its history where it needs one,
its run and its proofs, and three refinements. What would come next: a
composition of `BlobLifecycle` and `ScanQueue`, for a scan of a blob that a
sweep has removed is a `ScanError`, which fails a clean file.
