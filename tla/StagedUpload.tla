---------------------------- MODULE StagedUpload ----------------------------
(***************************************************************************)
(* How an upload becomes a blob: stream_to_blob reads it into data/tmp in  *)
(* chunks, within a size limit; strip_exif rewrites the staged file of a   *)
(* JPEG or TIFF with metadata; the result is hashed and moved to the place *)
(* its digest names, unless something is there already.  sweep_tmp removes *)
(* what an upload left in data/tmp.                                        *)
(*                                                                         *)
(* A file is a sequence of chunks.  SHA-256 is taken to be injective, and  *)
(* is written Sha.  Blobs are not deleted here (BlobLifecycle does that).  *)
(***************************************************************************)
EXTENDS Naturals, Sequences, FiniteSets

CONSTANTS
  Uploads,
  Chunks,
  Bodies,    \* what the clients may send
  Exif,      \* the JPEG files with metadata
  Mpo,       \* those with several pictures, whose format is MPO to Pillow
  Tiff,      \* the TIFF files: getexif finds tags in any of them
  Clean,     \* Clean[b]: file b encoded again, without metadata
  Limit,     \* max_file_size
  NoFile

\* The files strip_exif encodes again: of format JPEG or TIFF, with metadata.
Rewritable == (Exif \ Mpo) \cup Tiff

\* What source.write_bytes has written of the new file b when it stops early.
TornRewrites(b) == {SubSeq(Clean[b], 1, n) : n \in 0..(Len(Clean[b]) - 1)}

\* A JPEG encoded again has no metadata, and neither has any first part of it.
ASSUME FilesAssumption ==
  /\ Mpo \subseteq Exif
  /\ Mpo \cap Tiff = {}
  /\ Bodies \subseteq Seq(Chunks)
  /\ Rewritable \subseteq Seq(Chunks)
  /\ Clean \in [Rewritable -> Seq(Chunks)]
  /\ \A b \in Rewritable : Clean[b] \notin Exif /\ TornRewrites(b) \cap Exif = {}
  /\ \A b \in Exif \ Mpo : Clean[b] \notin Tiff
  /\ Limit \in Nat \ {0}
  /\ NoFile \notin Seq(Chunks)

ASSUME UploadsAssumption == IsFiniteSet(Uploads)

VARIABLES
  pc,      \* pc[u]: how far upload u has come
  body,    \* body[u]: what its client sends
  fate,    \* fate[u]: what its sanitizing meets
  tmp,     \* tmp[u]: its file in data/tmp
  hashed,  \* hashed[u]: what its hasher has been given; total is its length
  stale,   \* the fragments in data/tmp that are older than a day
  blobs    \* blobs[h]: the contents of data/blobs/../h

vars == <<pc, body, fate, tmp, hashed, stale, blobs>>

Sha(b) == [sha256 |-> b]

\* strip_exif meets no error; one before it touches the file, which it cannot
\* read, decode (bad data, or a picture too large), encode again or open to write;
\* or one as it writes, once the file is empty: the disk fills up.
Fates == {"fine", "gaveup", "diskfull"}

Ended == {"stored", "refused", "failed", "dead"}
Active == {"reading", "staged", "hashed", "missing"}

TypeOK ==
  /\ pc \in [Uploads -> {"new"} \cup Active \cup Ended]
  /\ body \in [Uploads -> Seq(Chunks)]
  /\ fate \in [Uploads -> Fates]
  /\ tmp \in [Uploads -> Seq(Chunks) \cup {NoFile}]
  /\ hashed \in [Uploads -> Seq(Chunks)]
  /\ stale \subseteq Uploads
  /\ blobs \in [DOMAIN blobs -> Seq(Chunks)]

Init ==
  /\ pc = [u \in Uploads |-> "new"]
  /\ body = [u \in Uploads |-> <<>>]
  /\ fate = [u \in Uploads |-> "fine"]
  /\ tmp = [u \in Uploads |-> NoFile]
  /\ hashed = [u \in Uploads |-> <<>>]
  /\ stale = {}
  /\ blobs = [h \in {} |-> <<>>]

-----------------------------------------------------------------------------

Goto(u, place) == pc' = [pc EXCEPT ![u] = place]

\* _discard removes the fragment, or cannot, which nobody notices.
Discard(u) == \E left \in {tmp[u], NoFile} : tmp' = [tmp EXCEPT ![u] = left]

Start(u) ==
  /\ pc[u] = "new"
  /\ Goto(u, "reading")
  /\ body' \in {[body EXCEPT ![u] = b] : b \in Bodies}
  /\ fate' \in {[fate EXCEPT ![u] = t] : t \in Fates}
  /\ tmp' = [tmp EXCEPT ![u] = <<>>]
  /\ hashed' = [hashed EXCEPT ![u] = <<>>]
  /\ UNCHANGED <<stale, blobs>>

\* A bug: the limit is tested when the whole body is on disk.
ReadUnlimited(u) ==
  /\ pc[u] = "reading"
  /\ Len(hashed[u]) < Len(body[u])
  /\ LET chunk == body[u][Len(hashed[u]) + 1]
     IN /\ hashed' = [hashed EXCEPT ![u] = Append(@, chunk)]
        /\ tmp' = [tmp EXCEPT ![u] = Append(@, chunk)]
  /\ UNCHANGED <<pc, body, fate, stale, blobs>>

\* The next chunk is counted, hashed and written.
Read(u) ==
  /\ pc[u] = "reading"
  /\ Len(hashed[u]) < Len(body[u])
  /\ Len(hashed[u]) < Limit
  /\ LET chunk == body[u][Len(hashed[u]) + 1]
     IN /\ hashed' = [hashed EXCEPT ![u] = Append(@, chunk)]
        /\ tmp' = [tmp EXCEPT ![u] = Append(@, chunk)]
  /\ UNCHANGED <<pc, body, fate, stale, blobs>>

\* FileTooLarge: one chunk more than the limit, or no chunk at all.
Refuse(u) ==
  /\ pc[u] = "reading"
  /\ \/ Len(hashed[u]) = Limit /\ Limit < Len(body[u])
     \/ Len(body[u]) = 0
  /\ Goto(u, "refused")
  /\ Discard(u)
  /\ UNCHANGED <<body, fate, hashed, stale, blobs>>

EndOfBody(u) ==
  /\ pc[u] = "reading"
  /\ Len(hashed[u]) = Len(body[u])
  /\ Len(body[u]) > 0
  /\ Goto(u, "staged")
  /\ UNCHANGED <<body, fate, tmp, hashed, stale, blobs>>

-----------------------------------------------------------------------------
(* The sanitize hook, and the commit *)

\* strip_exif returns False and leaves the file as it is: it is none that is
\* encoded again (an MPO is one with metadata), or something failed before the
\* file was opened to be written.
LeaveAsIs(u) ==
  /\ pc[u] = "staged"
  /\ body[u] \in Rewritable => fate[u] = "gaveup"
  /\ Goto(u, "hashed")
  /\ UNCHANGED <<body, fate, tmp, hashed, stale, blobs>>

\* A bug: the digest of the bytes as they came in is kept.
RewriteUnhashed(u) ==
  /\ pc[u] = "staged"
  /\ body[u] \in Rewritable /\ fate[u] = "fine"
  /\ Goto(u, "hashed")
  /\ tmp' = [tmp EXCEPT ![u] = Clean[body[u]]]
  /\ UNCHANGED <<body, fate, hashed, stale, blobs>>

\* A bug: the picture is saved in a format that is no longer known, which
\* raises, and strip_exif gives up.
RewriteGivesUp(u) ==
  /\ pc[u] = "staged"
  /\ body[u] \in Rewritable /\ fate[u] = "fine"
  /\ Goto(u, "hashed")
  /\ UNCHANGED <<body, fate, tmp, hashed, stale, blobs>>

\* strip_exif rewrites the file and returns True; it is hashed again from disk.
Rewrite(u) ==
  /\ pc[u] = "staged"
  /\ body[u] \in Rewritable /\ fate[u] = "fine"
  /\ Goto(u, "hashed")
  /\ tmp' = [tmp EXCEPT ![u] = Clean[body[u]]]
  /\ hashed' = [hashed EXCEPT ![u] = Clean[body[u]]]
  /\ UNCHANGED <<body, fate, stale, blobs>>

\* source.write_bytes has opened and so emptied the file when an OSError stops
\* it, and strip_exif returns False: the digest stays that of the original bytes.
TearRewrite(u) ==
  /\ pc[u] = "staged"
  /\ body[u] \in Rewritable /\ fate[u] = "diskfull"
  /\ Goto(u, "hashed")
  /\ tmp' \in {[tmp EXCEPT ![u] = part] : part \in TornRewrites(body[u])}
  /\ UNCHANGED <<body, fate, hashed, stale, blobs>>

Name(u) == Sha(hashed[u])

\* A bug: every upload is taken for a duplicate of what is stored.
ReuseUnseen(u) ==
  /\ pc[u] = "hashed"
  /\ Goto(u, "stored")
  /\ Discard(u)
  /\ UNCHANGED <<body, fate, hashed, stale, blobs>>

\* final.exists(): the same digest is stored already, and the duplicate goes.
Reuse(u) ==
  /\ pc[u] = "hashed"
  /\ Name(u) \in DOMAIN blobs
  /\ Goto(u, "stored")
  /\ Discard(u)
  /\ UNCHANGED <<body, fate, hashed, stale, blobs>>

FindMissing(u) ==
  /\ pc[u] = "hashed"
  /\ Name(u) \notin DOMAIN blobs
  /\ Goto(u, "missing")
  /\ UNCHANGED <<body, fate, tmp, hashed, stale, blobs>>

\* os.replace, whatever has been stored under the name since.
Replace(u) ==
  /\ pc[u] = "missing"
  /\ Goto(u, "stored")
  /\ blobs' = [h \in DOMAIN blobs \cup {Name(u)} |-> IF h = Name(u) THEN tmp[u] ELSE blobs[h]]
  /\ tmp' = [tmp EXCEPT ![u] = NoFile]
  /\ UNCHANGED <<body, fate, hashed, stale>>

\* Reading, writing, hashing or replacing raises.
Fail(u) ==
  /\ pc[u] \in Active
  /\ Goto(u, "failed")
  /\ Discard(u)
  /\ UNCHANGED <<body, fate, hashed, stale, blobs>>

\* The worker dies, maybe in the middle of a rewrite, or the request is
\* cancelled, which is no Exception.
Crash(u) ==
  /\ pc[u] \in Active
  /\ Goto(u, "dead")
  /\ \/ UNCHANGED tmp
     \/ /\ pc[u] = "staged" /\ body[u] \in Rewritable
        /\ tmp' \in {[tmp EXCEPT ![u] = part] : part \in TornRewrites(body[u])}
  /\ UNCHANGED <<body, fate, hashed, stale, blobs>>

-----------------------------------------------------------------------------
(* sweep_tmp *)

\* A day passes.  The form is parsed before upload_file runs, so no upload
\* waits for its client, and none is running a day later.
Age(u) ==
  /\ pc[u] \in Ended
  /\ tmp[u] # NoFile
  /\ stale' = stale \cup {u}
  /\ UNCHANGED <<pc, body, fate, tmp, hashed, blobs>>

\* A bug: the comparison with the cutoff is the wrong way round.  (What it does
\* to an upload that is still running is left out.)
SweepFresh(u) ==
  /\ pc[u] \in Ended
  /\ tmp[u] # NoFile
  /\ u \notin stale
  /\ tmp' = [tmp EXCEPT ![u] = NoFile]
  /\ UNCHANGED <<pc, body, fate, hashed, stale, blobs>>

SweepTmp(u) ==
  /\ tmp[u] # NoFile
  /\ u \in stale
  /\ tmp' = [tmp EXCEPT ![u] = NoFile]
  /\ stale' = stale \ {u}
  /\ UNCHANGED <<pc, body, fate, hashed, blobs>>

Upload(u) ==
  \/ Start(u)
  \/ Read(u)
  \/ Refuse(u)
  \/ EndOfBody(u)
  \/ LeaveAsIs(u)
  \/ Rewrite(u)
  \/ TearRewrite(u)
  \/ Reuse(u)
  \/ FindMissing(u)
  \/ Replace(u)
  \/ Fail(u)
  \/ Crash(u)

Next == \E u \in Uploads : Upload(u) \/ Age(u) \/ SweepTmp(u)

Spec == Init /\ [][Next]_vars

\* Time passes, and one of the hourly sweeps gets at the file.
Fairness == \A u \in Uploads : WF_vars(Age(u)) /\ WF_vars(SweepTmp(u))

FairSpec == Spec /\ Fairness

-----------------------------------------------------------------------------

\* What an upload with these bytes should be stored as.
Expected(u) == IF body[u] \in Rewritable THEN Clean[body[u]] ELSE body[u]

(***************************************************************************)
(* An upload that is answered, and whose sanitizing met no error, gets the *)
(* digest of what its client sent, without metadata if it is a file that   *)
(* strip_exif encodes again, and those bytes are stored under it, whoever  *)
(* stored them, whoever else stores the same digest at the same time, and  *)
(* whatever goes wrong with other uploads.  The one exception is a TIFF    *)
(* encoded again, which strip_exif would encode again when it is uploaded  *)
(* itself, and may tear.                                                   *)
(***************************************************************************)
StoredAsPromised ==
  \A u \in Uploads : pc[u] = "stored" /\ fate[u] = "fine" =>
    /\ hashed[u] = Expected(u)
    /\ Name(u) \in DOMAIN blobs
    /\ \/ blobs[Name(u)] = Expected(u)
       \/ /\ Expected(u) \in Tiff
          /\ \E v \in Uploads : fate[v] = "diskfull" /\ body[v] = Expected(u)

(***************************************************************************)
(* A JPEG is stored with its metadata only as it was uploaded, under the   *)
(* digest that client was told, and only if it is an MPO or strip_exif met *)
(* an error before it touched the file: a rewrite that another upload of   *)
(* the same picture tears never leaves metadata behind.                    *)
(***************************************************************************)
MetadataOnlyIfLeftAlone ==
  \A h \in DOMAIN blobs : blobs[h] \in Exif =>
    \E u \in Uploads :
      /\ pc[u] = "stored"
      /\ h = Name(u)
      /\ body[u] = blobs[h]
      /\ body[u] \in Mpo \/ fate[u] = "gaveup"

(***************************************************************************)
(* The size limit holds while the body is read, and for every blob but     *)
(* those that grew when they were encoded again.                           *)
(***************************************************************************)
LimitKept ==
  /\ \A u \in Uploads : pc[u] = "reading" => Len(tmp[u]) <= Limit
  /\ \A h \in DOMAIN blobs : Len(blobs[h]) > Limit =>
       \E b \in Rewritable : blobs[h] \in {Clean[b]} \cup TornRewrites(b)

(***************************************************************************)
(* What a failed or dead upload leaves in data/tmp is removed.             *)
(***************************************************************************)
FragmentsReclaimed ==
  \A u \in Uploads : (pc[u] \in Ended /\ tmp[u] # NoFile) ~> tmp[u] = NoFile

-----------------------------------------------------------------------------
(* What BlobLifecycle makes of it: each upload is one Commit *)

Digests == {Sha(b) : b \in Bodies \cup {Clean[b] : b \in Rewritable}}

\* No row, no thumbnail and no sweep is in sight.  The workers do not bound
\* the uploads here: there is no insert, so the window of none of them closes.
Store == INSTANCE BlobLifecycle WITH
  Files <- Uploads,
  Hashes <- Digests,
  NoSha <- Sha(NoFile),
  Thumbable <- {},
  Sweepers <- {},
  Workers <- Cardinality(Uploads),
  Grace <- 0,
  MayCrash <- FALSE,
  status <- [u \in Uploads |-> "absent"],
  expiry <- [u \in Uploads |-> "never"],
  age <- [u \in Uploads |-> 0],
  sha <- [u \in Uploads |-> IF pc[u] = "stored" THEN Name(u) ELSE Sha(NoFile)],
  up <- [u \in Uploads |-> IF pc[u] = "stored" THEN "stored" ELSE "idle"],
  sw <- [s \in {} |-> s],
  blobs <- DOMAIN blobs,
  thumbs <- {}

(***************************************************************************)
(* Seen from the store, an upload is nothing and then, in one step, its    *)
(* digest is there and known: whether it replaces a file or finds one,     *)
(* whatever another upload stores between its test and its os.replace, and *)
(* whatever fails.  No other step adds a blob, and none removes one.       *)
(***************************************************************************)
ImplementsCommit == Store!Spec

-----------------------------------------------------------------------------
(* Why: the facts every step keeps *)

\* Until it is sanitized, the fragment is what was hashed, a part of the body.
StagedIsRead ==
  \A u \in Uploads : pc[u] \in {"reading", "staged"} =>
    /\ tmp[u] = hashed[u]
    /\ Len(hashed[u]) <= Limit
    /\ Len(hashed[u]) <= Len(body[u])
    /\ \A i \in 1..Len(hashed[u]) : hashed[u][i] = body[u][i]
    /\ pc[u] = "staged" => hashed[u] = body[u]

Sanitized(u) == IF fate[u] = "fine" THEN Expected(u) ELSE body[u]

\* From then on it is what was hashed, or a torn rewrite.
HashedIsSanitized ==
  \A u \in Uploads :
    /\ pc[u] \in {"hashed", "missing", "stored"} =>
         hashed[u] = Sanitized(u) /\ Len(body[u]) <= Limit
    /\ pc[u] \in {"hashed", "missing"} =>
         \/ tmp[u] = hashed[u] /\ (tmp[u] \in Exif \ Mpo => fate[u] = "gaveup")
         \/ body[u] \in Rewritable /\ fate[u] = "diskfull" /\ tmp[u] \in TornRewrites(body[u])
    /\ pc[u] = "stored" => Name(u) \in DOMAIN blobs

\* Every blob comes from an upload, and is what was hashed or a torn rewrite.
BlobsHaveUploads ==
  \A h \in DOMAIN blobs : \E u \in Uploads :
    /\ pc[u] = "stored"
    /\ h = Name(u)
    /\ \/ blobs[h] = hashed[u] /\ (blobs[h] \in Exif \ Mpo => fate[u] = "gaveup")
       \/ body[u] \in Rewritable /\ fate[u] = "diskfull" /\ blobs[h] \in TornRewrites(body[u])

\* Only an ended upload leaves a fragment for so long.
StaleHaveEnded == \A u \in stale : pc[u] \in Ended

\* An upload is of a file that a client may send.
BodiesSent == \A u \in Uploads : pc[u] # "new" => body[u] \in Bodies

IInv ==
  /\ TypeOK
  /\ StaleHaveEnded
  /\ StagedIsRead
  /\ HashedIsSanitized
  /\ BlobsHaveUploads
=============================================================================
