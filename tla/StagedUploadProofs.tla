------------------------- MODULE StagedUploadProofs -------------------------
(***************************************************************************)
(* IInv is inductive, and implies the safety properties of StagedUpload:   *)
(* proofs for any uploads, files and limit.                                *)
(***************************************************************************)
EXTENDS StagedUpload, FiniteSetTheorems, TLAPS

USE FilesAssumption

\* A part of a sequence that is as long as it is the sequence.
LEMMA WholePart ==
  ASSUME NEW s \in Seq(Chunks), NEW t \in Seq(Chunks), Len(s) = Len(t),
         \A i \in 1..Len(s) : s[i] = t[i]
  PROVE  s = t
OBVIOUS

\* Uploads other than u stay as they are.
Others(u) ==
  \A v \in Uploads \ {u} :
    /\ pc'[v] = pc[v] /\ body'[v] = body[v] /\ fate'[v] = fate[v]
    /\ tmp'[v] = tmp[v] /\ hashed'[v] = hashed[v]

LEMMA InitInv == Init => IInv
BY DEF Init, IInv, TypeOK, Fates, Active, Ended, StagedIsRead, HashedIsSanitized,
       BlobsHaveUploads, StaleHaveEnded

LEMMA ReadKeepsInv ==
  ASSUME IInv, NEW u \in Uploads, Read(u)
  PROVE  IInv'
<1>1. TypeOK /\ StagedIsRead
  BY DEF IInv
<1> DEFINE n == Len(hashed[u])
           chunk == body[u][n + 1]
<1>2. /\ n \in Nat /\ Len(body[u]) \in Nat /\ n < Len(body[u]) /\ n < Limit
      /\ chunk \in Chunks
      /\ hashed[u] \in Seq(Chunks)
  BY <1>1 DEF TypeOK, Read
<1>3. /\ hashed' = [hashed EXCEPT ![u] = Append(hashed[u], chunk)]
      /\ tmp' = [tmp EXCEPT ![u] = Append(hashed[u], chunk)]
      /\ pc[u] = "reading"
      /\ UNCHANGED <<pc, body, fate, stale, blobs>>
  BY <1>1 DEF Read, StagedIsRead, TypeOK
<1>4. /\ Append(hashed[u], chunk) \in Seq(Chunks)
      /\ Len(Append(hashed[u], chunk)) = n + 1
      /\ \A i \in 1..n : Append(hashed[u], chunk)[i] = hashed[u][i]
      /\ Append(hashed[u], chunk)[n + 1] = chunk
  BY <1>2
<1> HIDE DEF n, chunk
<1>5. TypeOK'
  BY <1>1, <1>3, <1>4 DEF TypeOK
<1>6. hashed'[u] = Append(hashed[u], chunk) /\ tmp'[u] = Append(hashed[u], chunk)
  BY <1>1, <1>3 DEF TypeOK
<1>7. \A v \in Uploads \ {u} : hashed'[v] = hashed[v] /\ tmp'[v] = tmp[v]
  BY <1>1, <1>3 DEF TypeOK
<1>8. \A i \in 1..(n + 1) : hashed'[u][i] = body[u][i]
  <2>1. \A i \in 1..n : hashed[u][i] = body[u][i]
    BY <1>1, <1>3 DEF StagedIsRead, n
  <2>2. \A i \in 1..(n + 1) : i \in 1..n \/ i = n + 1
    BY <1>2
  <2>3. QED
    BY <1>4, <1>6, <2>1, <2>2 DEF chunk
<1>9. StagedIsRead'
  BY <1>1, <1>2, <1>3, <1>4, <1>6, <1>7, <1>8 DEF StagedIsRead
<1>10. HashedIsSanitized'
  BY <1>3, <1>7 DEF IInv, HashedIsSanitized, Sanitized, Expected, Name
<1>11. BlobsHaveUploads'
  BY <1>3, <1>7 DEF IInv, BlobsHaveUploads, Name
<1>12. StaleHaveEnded'
  BY <1>3 DEF IInv, StaleHaveEnded
<1>13. QED
  BY <1>5, <1>9, <1>10, <1>11, <1>12 DEF IInv

-----------------------------------------------------------------------------
(* Steps of one upload that leave the blobs alone *)

\* What StagedIsRead and HashedIsSanitized say of u.
Local(u) ==
  /\ pc[u] \in {"reading", "staged"} =>
       /\ tmp[u] = hashed[u]
       /\ Len(hashed[u]) <= Limit
       /\ Len(hashed[u]) <= Len(body[u])
       /\ \A i \in 1..Len(hashed[u]) : hashed[u][i] = body[u][i]
       /\ pc[u] = "staged" => hashed[u] = body[u]
  /\ pc[u] \in {"hashed", "missing", "stored"} =>
       hashed[u] = Sanitized(u) /\ Len(body[u]) <= Limit
  /\ pc[u] \in {"hashed", "missing"} =>
       \/ tmp[u] = hashed[u] /\ (tmp[u] \in Exif \ Mpo => fate[u] = "gaveup")
       \/ body[u] \in Rewritable /\ fate[u] = "diskfull" /\ tmp[u] \in TornRewrites(body[u])
  /\ pc[u] = "stored" => Name(u) \in DOMAIN blobs

LEMMA LocalIsAll ==
  (\A u \in Uploads : Local(u)) <=> StagedIsRead /\ HashedIsSanitized
BY DEF Local, StagedIsRead, HashedIsSanitized

LEMMA Frame ==
  ASSUME IInv, NEW u \in Uploads, Others(u), UNCHANGED <<stale, blobs>>,
         pc[u] \in {"new"} \cup Active, TypeOK', Local(u)'
  PROVE  IInv'
<1>1. \A v \in Uploads : Local(v)
  BY LocalIsAll DEF IInv
<1>2. ASSUME NEW v \in Uploads \ {u} PROVE Local(v)'
  <2>1. /\ pc'[v] = pc[v] /\ body'[v] = body[v] /\ fate'[v] = fate[v]
        /\ tmp'[v] = tmp[v] /\ hashed'[v] = hashed[v]
    BY DEF Others
  <2>2. Sanitized(v)' = Sanitized(v) /\ Name(v)' = Name(v)
    BY <2>1 DEF Sanitized, Expected, Name
  <2>3. Local(v)
    BY <1>1
  <2>4. QED
    BY <2>1, <2>2, <2>3, Zenon DEF Local
<1>3. \A v \in Uploads : Local(v)'
  BY <1>2
<1>4. StagedIsRead' /\ HashedIsSanitized'
  BY <1>3 DEF Local, StagedIsRead, HashedIsSanitized
<1>5. BlobsHaveUploads'
  <2> SUFFICES ASSUME NEW h \in DOMAIN blobs
               PROVE  \E v \in Uploads :
                        /\ pc'[v] = "stored"
                        /\ h = Name(v)'
                        /\ \/ /\ blobs[h] = hashed'[v]
                              /\ blobs[h] \in Exif \ Mpo => fate'[v] = "gaveup"
                           \/ /\ body'[v] \in Rewritable /\ fate'[v] = "diskfull"
                              /\ blobs[h] \in TornRewrites(body'[v])
    BY DEF BlobsHaveUploads
  <2>1. PICK v \in Uploads :
          /\ pc[v] = "stored"
          /\ h = Name(v)
          /\ \/ blobs[h] = hashed[v] /\ (blobs[h] \in Exif \ Mpo => fate[v] = "gaveup")
             \/ body[v] \in Rewritable /\ fate[v] = "diskfull" /\ blobs[h] \in TornRewrites(body[v])
    BY DEF IInv, BlobsHaveUploads
  <2>2. v # u
    BY <2>1 DEF Active
  <2>3. QED
    BY <2>1, <2>2 DEF Others, Name
<1>6. StaleHaveEnded'
  <2>1. u \notin stale
    BY DEF IInv, StaleHaveEnded, Active, Ended
  <2>2. QED
    BY <2>1 DEF IInv, StaleHaveEnded, Others, TypeOK
<1>7. QED
  BY <1>4, <1>5, <1>6 DEF IInv

LEMMA StartKeepsInv ==
  ASSUME IInv, NEW u \in Uploads, Start(u)
  PROVE  IInv'
<1>1. TypeOK /\ pc[u] = "new"
  BY DEF IInv, Start
<1>2. PICK b \in Bodies, t \in Fates :
        body' = [body EXCEPT ![u] = b] /\ fate' = [fate EXCEPT ![u] = t]
  BY DEF Start
<1>3. TypeOK' /\ Others(u)
  BY <1>1, <1>2 DEF Start, Goto, TypeOK, Others, Active
<1>4. Local(u)'
  <2>1. pc'[u] = "reading" /\ tmp'[u] = <<>> /\ hashed'[u] = <<>>
    BY <1>1 DEF Start, Goto, TypeOK
  <2>2. body'[u] \in Seq(Chunks)
    BY <1>3 DEF TypeOK
  <2>3. QED
    BY <2>1, <2>2 DEF Local
<1>5. QED
  BY <1>1, <1>3, <1>4, Frame DEF Start

LEMMA EndKeepsInv ==
  ASSUME IInv, NEW u \in Uploads, Refuse(u) \/ Fail(u) \/ Crash(u)
  PROVE  IInv'
<1>1. /\ TypeOK /\ pc[u] \in Active /\ pc'[u] \in {"refused", "failed", "dead"}
      /\ UNCHANGED <<stale, blobs>>
  BY DEF IInv, Refuse, Fail, Crash, Goto, TypeOK, Active
<1>2. TypeOK' /\ Others(u)
  <2>1. \A b \in Rewritable : TornRewrites(b) \subseteq Seq(Chunks)
    BY DEF TornRewrites
  <2>2. CASE Refuse(u) \/ Fail(u)
    BY <1>1, <2>2 DEF Refuse, Fail, Goto, Discard, TypeOK, Others, Ended
  <2>3. CASE Crash(u)
    <3>1. PICK left \in Seq(Chunks) \cup {NoFile} : tmp' = [tmp EXCEPT ![u] = left]
      <4>1. tmp[u] \in Seq(Chunks) \cup {NoFile} /\ tmp = [tmp EXCEPT ![u] = tmp[u]]
        BY <1>1 DEF TypeOK
      <4>2. QED
        BY <2>1, <2>3, <4>1, Zenon DEF Crash
    <3>2. QED
      BY <1>1, <2>3, <3>1 DEF Crash, Goto, TypeOK, Others, Ended
  <2>4. QED
    BY <2>2, <2>3
<1>3. Local(u)'
  BY <1>1 DEF Local
<1>4. QED
  BY <1>1, <1>2, <1>3, Frame DEF Active

LEMMA EndOfBodyKeepsInv ==
  ASSUME IInv, NEW u \in Uploads, EndOfBody(u)
  PROVE  IInv'
<1>1. TypeOK /\ Local(u)
  BY LocalIsAll DEF IInv
<1>2. TypeOK' /\ Others(u)
  BY <1>1 DEF EndOfBody, Goto, TypeOK, Others, Active
<1>3. hashed[u] = body[u]
  BY <1>1, WholePart DEF EndOfBody, Local, TypeOK
<1>4. Local(u)'
  BY <1>1, <1>3 DEF EndOfBody, Goto, TypeOK, Local
<1>5. QED
  BY <1>2, <1>4, Frame DEF EndOfBody, Active

LEMMA SanitizeKeepsInv ==
  ASSUME IInv, NEW u \in Uploads, LeaveAsIs(u) \/ Rewrite(u) \/ TearRewrite(u)
  PROVE  IInv'
<1>1. TypeOK /\ Local(u) /\ pc[u] = "staged" /\ UNCHANGED <<stale, blobs>>
  BY LocalIsAll DEF IInv, LeaveAsIs, Rewrite, TearRewrite
<1>2. hashed[u] = body[u] /\ tmp[u] = body[u] /\ Len(body[u]) <= Limit
  BY <1>1 DEF Local
<1>3. \A b \in Rewritable : TornRewrites(b) \subseteq Seq(Chunks)
  BY DEF TornRewrites
<1>4. CASE LeaveAsIs(u)
  <2>1. TypeOK' /\ Others(u)
    BY <1>1, <1>4 DEF LeaveAsIs, Goto, TypeOK, Others, Active
  <2>2. Local(u)'
    BY <1>1, <1>2, <1>4 DEF LeaveAsIs, Goto, TypeOK, Local, Sanitized, Expected, Rewritable
  <2>3. QED
    BY <1>1, <2>1, <2>2, Frame DEF Active
<1>5. CASE Rewrite(u)
  <2>1. TypeOK' /\ Others(u)
    BY <1>1, <1>5 DEF Rewrite, Goto, TypeOK, Others, Active
  <2>2. Local(u)'
    BY <1>1, <1>2, <1>5 DEF Rewrite, Goto, TypeOK, Local, Sanitized, Expected
  <2>3. QED
    BY <1>1, <2>1, <2>2, Frame DEF Active
<1>6. CASE TearRewrite(u)
  <2> PICK part \in TornRewrites(body[u]) : tmp' = [tmp EXCEPT ![u] = part]
    BY <1>6 DEF TearRewrite
  <2>0. part \in Seq(Chunks)
    BY <1>3, <1>6 DEF TearRewrite
  <2>1. TypeOK' /\ Others(u)
    BY <1>1, <1>6, <2>0 DEF TearRewrite, Goto, TypeOK, Others, Active
  <2>2. Local(u)'
    BY <1>1, <1>2, <1>6 DEF TearRewrite, Goto, TypeOK, Local, Sanitized
  <2>3. QED
    BY <1>1, <2>1, <2>2, Frame DEF Active
<1>7. QED
  BY <1>4, <1>5, <1>6

LEMMA CheckKeepsInv ==
  ASSUME IInv, NEW u \in Uploads, Reuse(u) \/ FindMissing(u)
  PROVE  IInv'
<1>1. TypeOK /\ Local(u) /\ pc[u] = "hashed" /\ UNCHANGED <<stale, blobs>>
  BY LocalIsAll DEF IInv, Reuse, FindMissing
<1>2. TypeOK' /\ Others(u)
  BY <1>1 DEF Reuse, FindMissing, Discard, Goto, TypeOK, Others, Active, Ended
<1>3. Local(u)'
  BY <1>1 DEF Reuse, FindMissing, Goto, TypeOK, Local, Sanitized, Expected, Name
<1>4. QED
  BY <1>1, <1>2, <1>3, Frame DEF Active

-----------------------------------------------------------------------------
(* The other steps *)

LEMMA ReplaceKeepsInv ==
  ASSUME IInv, NEW u \in Uploads, Replace(u)
  PROVE  IInv'
<1>1. TypeOK /\ pc[u] = "missing"
  BY DEF IInv, Replace
<1>2. \A v \in Uploads : Local(v)
  BY LocalIsAll DEF IInv
<1>3. \/ tmp[u] = hashed[u] /\ (tmp[u] \in Exif \ Mpo => fate[u] = "gaveup")
      \/ body[u] \in Rewritable /\ fate[u] = "diskfull" /\ tmp[u] \in TornRewrites(body[u])
  BY <1>1, <1>2 DEF Local
<1>4. tmp[u] \in Seq(Chunks)
  <2>1. \A b \in Rewritable : TornRewrites(b) \subseteq Seq(Chunks)
    BY DEF TornRewrites
  <2>2. QED
    BY <1>1, <1>3, <2>1 DEF TypeOK
<1>5. /\ blobs' = [h \in DOMAIN blobs \cup {Name(u)} |->
                    IF h = Name(u) THEN tmp[u] ELSE blobs[h]]
      /\ pc' = [pc EXCEPT ![u] = "stored"]
      /\ tmp' = [tmp EXCEPT ![u] = NoFile]
      /\ UNCHANGED <<body, fate, hashed, stale>>
  BY DEF Replace, Goto
<1>6. /\ DOMAIN blobs' = DOMAIN blobs \cup {Name(u)}
      /\ blobs'[Name(u)] = tmp[u]
      /\ \A h \in DOMAIN blobs \ {Name(u)} : blobs'[h] = blobs[h]
  BY <1>5
<1>7. blobs' \in [DOMAIN blobs' -> Seq(Chunks)]
  BY <1>1, <1>4, <1>5, <1>6 DEF TypeOK
<1>8. TypeOK'
  BY <1>1, <1>5, <1>7 DEF TypeOK, Ended
<1>9. Others(u) /\ pc'[u] = "stored"
  BY <1>1, <1>5 DEF TypeOK, Others
<1>10. \A v \in Uploads : Name(v)' = Name(v) /\ Sanitized(v)' = Sanitized(v)
  BY <1>5 DEF Name, Sanitized, Expected
<1>11. Local(u)'
  BY <1>1, <1>2, <1>5, <1>6, <1>9, <1>10 DEF Local
<1>12. ASSUME NEW v \in Uploads \ {u} PROVE Local(v)'
  <2>1. /\ pc'[v] = pc[v] /\ body'[v] = body[v] /\ fate'[v] = fate[v]
        /\ tmp'[v] = tmp[v] /\ hashed'[v] = hashed[v]
    BY <1>9 DEF Others
  <2>2. Name(v) \in DOMAIN blobs => Name(v)' \in DOMAIN blobs'
    BY <1>6, <1>10
  <2>3. Sanitized(v)' = Sanitized(v) /\ Local(v)
    BY <1>2, <1>10
  <2>4. QED
    BY <2>1, <2>2, <2>3, Zenon DEF Local
<1>13. StagedIsRead' /\ HashedIsSanitized'
  <2>1. \A v \in Uploads : Local(v)'
    BY <1>11, <1>12
  <2>2. QED
    BY <2>1 DEF Local, StagedIsRead, HashedIsSanitized
<1>14. ASSUME NEW h \in DOMAIN blobs'
       PROVE  \E v \in Uploads :
                /\ pc'[v] = "stored"
                /\ h = Name(v)'
                /\ \/ /\ blobs'[h] = hashed'[v]
                      /\ blobs'[h] \in Exif \ Mpo => fate'[v] = "gaveup"
                   \/ /\ body'[v] \in Rewritable /\ fate'[v] = "diskfull"
                      /\ blobs'[h] \in TornRewrites(body'[v])
  <2>1. CASE h = Name(u)
    <3>1. blobs'[h] = tmp[u]
      BY <1>6, <2>1
    <3>2. h = Name(u)'
      BY <1>10, <2>1
    <3>3. \/ blobs'[h] = hashed'[u] /\ (blobs'[h] \in Exif \ Mpo => fate'[u] = "gaveup")
          \/ /\ body'[u] \in Rewritable /\ fate'[u] = "diskfull"
             /\ blobs'[h] \in TornRewrites(body'[u])
      BY <1>3, <1>5, <3>1
    <3>4. QED
      BY <1>9, <3>2, <3>3
  <2>2. CASE h # Name(u)
    <3>1. h \in DOMAIN blobs /\ blobs'[h] = blobs[h]
      BY <1>6, <2>2
    <3>2. PICK v \in Uploads :
            /\ pc[v] = "stored"
            /\ h = Name(v)
            /\ \/ blobs[h] = hashed[v] /\ (blobs[h] \in Exif \ Mpo => fate[v] = "gaveup")
               \/ /\ body[v] \in Rewritable /\ fate[v] = "diskfull"
                  /\ blobs[h] \in TornRewrites(body[v])
      BY <3>1 DEF IInv, BlobsHaveUploads
    <3>3. v # u
      BY <1>1, <3>2
    <3>4. /\ pc'[v] = pc[v] /\ body'[v] = body[v] /\ fate'[v] = fate[v]
          /\ hashed'[v] = hashed[v] /\ Name(v)' = Name(v)
      BY <1>9, <1>10, <3>3 DEF Others
    <3>5. QED
      BY <3>1, <3>2, <3>4
  <2>3. QED
    BY <2>1, <2>2
<1>15. BlobsHaveUploads'
  BY <1>14 DEF BlobsHaveUploads
<1>16. StaleHaveEnded'
  BY <1>1, <1>5 DEF IInv, StaleHaveEnded, TypeOK, Ended
<1>17. QED
  BY <1>8, <1>13, <1>15, <1>16 DEF IInv

\* A fragment that has aged belongs to an upload that has ended.
LEMMA SweepKeepsInv ==
  ASSUME IInv, NEW u \in Uploads, Age(u) \/ SweepTmp(u)
  PROVE  IInv'
<1>1. TypeOK /\ pc[u] \in Ended /\ UNCHANGED <<pc, body, fate, hashed, blobs>>
  BY DEF IInv, StaleHaveEnded, Age, SweepTmp
<1>2. TypeOK' /\ \A v \in Uploads \ {u} : tmp'[v] = tmp[v]
  BY <1>1 DEF Age, SweepTmp, TypeOK
<1>3. StagedIsRead'
  BY <1>1, <1>2 DEF IInv, StagedIsRead, Ended
<1>4. HashedIsSanitized'
  BY <1>1, <1>2 DEF IInv, HashedIsSanitized, Ended, Sanitized, Expected, Name
<1>5. BlobsHaveUploads'
  BY <1>1 DEF IInv, BlobsHaveUploads, Name
<1>6. StaleHaveEnded'
  BY <1>1 DEF IInv, StaleHaveEnded, Age, SweepTmp
<1>7. QED
  BY <1>2, <1>3, <1>4, <1>5, <1>6 DEF IInv

-----------------------------------------------------------------------------

LEMMA StepInv == IInv /\ [Next]_vars => IInv'
<1> SUFFICES ASSUME IInv, [Next]_vars PROVE IInv'
  OBVIOUS
<1>1. CASE UNCHANGED vars
  BY <1>1 DEF vars, IInv, TypeOK, StagedIsRead, HashedIsSanitized, BlobsHaveUploads,
              StaleHaveEnded, Sanitized, Expected, Name
<1>2. ASSUME NEW u \in Uploads, Upload(u) PROVE IInv'
  BY <1>2, StartKeepsInv, ReadKeepsInv, EndKeepsInv, EndOfBodyKeepsInv, SanitizeKeepsInv,
     CheckKeepsInv, ReplaceKeepsInv DEF Upload
<1>3. QED
  BY <1>1, <1>2, SweepKeepsInv DEF Next

\* The facts in IInv hold in every reachable state.
THEOREM Invariance == Spec => []IInv
BY InitInv, StepInv, PTL DEF Spec

\* Every upload that is answered, its sanitizing in order, has what its client
\* sent, encoded again if strip_exif does that, stored under the digest of that.  The blob under its
\* digest may be another upload's; had that one been torn, the digest would be
\* that of a file strip_exif encodes again, and only a TIFF is still one when it
\* has been sanitized.
THEOREM Promise == Spec => []StoredAsPromised
<1>1. IInv => StoredAsPromised
  <2> SUFFICES ASSUME IInv, NEW u \in Uploads, pc[u] = "stored", fate[u] = "fine"
               PROVE  /\ hashed[u] = Expected(u)
                      /\ Name(u) \in DOMAIN blobs
                      /\ \/ blobs[Name(u)] = Expected(u)
                         \/ /\ Expected(u) \in Tiff
                            /\ \E v \in Uploads :
                                 fate[v] = "diskfull" /\ body[v] = Expected(u)
    BY DEF StoredAsPromised
  <2>1. hashed[u] = Expected(u) /\ Name(u) \in DOMAIN blobs
    BY DEF IInv, HashedIsSanitized, Sanitized
  <2>2. hashed[u] \notin Exif \ Mpo
    BY <2>1 DEF Expected, Rewritable
  <2>3. PICK v \in Uploads :
          /\ pc[v] = "stored"
          /\ Name(u) = Name(v)
          /\ \/ blobs[Name(u)] = hashed[v]
             \/ body[v] \in Rewritable /\ fate[v] = "diskfull"
    BY <2>1 DEF IInv, BlobsHaveUploads
  <2>4. hashed[u] = hashed[v]
    BY <2>3 DEF Name, Sha
  <2>5. CASE body[v] \in Rewritable /\ fate[v] = "diskfull"
    <3>1. hashed[v] = body[v]
      BY <2>3, <2>5 DEF IInv, HashedIsSanitized, Sanitized
    <3>2. QED
      BY <2>1, <2>2, <2>4, <2>5, <3>1 DEF Rewritable
  <2>6. QED
    BY <2>1, <2>3, <2>4, <2>5
<1>2. QED
  BY <1>1, Invariance, PTL

\* Metadata of a JPEG reaches the store only in a file that strip_exif left
\* alone, because it is an MPO or because of an error before the rewrite
\* (images.strip_exif).
THEOREM MetadataRemoved == Spec => []MetadataOnlyIfLeftAlone
<1>1. IInv => MetadataOnlyIfLeftAlone
  <2> SUFFICES ASSUME IInv, NEW h \in DOMAIN blobs, blobs[h] \in Exif
               PROVE  \E u \in Uploads :
                        /\ pc[u] = "stored"
                        /\ h = Name(u)
                        /\ body[u] = blobs[h]
                        /\ body[u] \in Mpo \/ fate[u] = "gaveup"
    BY DEF MetadataOnlyIfLeftAlone
  <2>1. PICK v \in Uploads :
          /\ pc[v] = "stored"
          /\ h = Name(v)
          /\ \/ blobs[h] = hashed[v] /\ (blobs[h] \in Exif \ Mpo => fate[v] = "gaveup")
             \/ body[v] \in Rewritable /\ blobs[h] \in TornRewrites(body[v])
    BY DEF IInv, BlobsHaveUploads
  <2>2. blobs[h] = hashed[v] /\ (blobs[h] \in Mpo \/ fate[v] = "gaveup")
    BY <2>1
  <2>3. hashed[v] \in {body[v], Expected(v)}
    BY <2>1 DEF IInv, HashedIsSanitized, Sanitized
  <2>4. hashed[v] = body[v]
    BY <2>2, <2>3 DEF Expected
  <2>5. QED
    BY <2>1, <2>2, <2>4
<1>2. QED
  BY <1>1, Invariance, PTL

\* No upload grows beyond the limit, in data/tmp or in the store, other than by
\* being encoded again.
THEOREM SizeLimit == Spec => []LimitKept
<1>1. IInv => LimitKept
  <2> SUFFICES ASSUME IInv PROVE LimitKept
    OBVIOUS
  <2>1. \A u \in Uploads : pc[u] = "reading" => Len(tmp[u]) <= Limit
    BY DEF IInv, StagedIsRead
  <2>2. ASSUME NEW h \in DOMAIN blobs, Len(blobs[h]) > Limit
        PROVE  \E b \in Rewritable : blobs[h] \in {Clean[b]} \cup TornRewrites(b)
    <3>1. PICK v \in Uploads :
            /\ pc[v] = "stored"
            /\ \/ blobs[h] = hashed[v]
               \/ body[v] \in Rewritable /\ blobs[h] \in TornRewrites(body[v])
      BY DEF IInv, BlobsHaveUploads
    <3>2. CASE body[v] \in Rewritable /\ blobs[h] \in TornRewrites(body[v])
      BY <3>2
    <3>3. CASE blobs[h] = hashed[v]
      <4>1. hashed[v] = Sanitized(v) /\ Len(body[v]) <= Limit
        BY <3>1 DEF IInv, HashedIsSanitized
      <4>2. hashed[v] # body[v]
        BY <2>2, <3>3, <4>1 DEF IInv, TypeOK
      <4>3. body[v] \in Rewritable /\ hashed[v] = Clean[body[v]]
        BY <4>1, <4>2 DEF Sanitized, Expected
      <4>4. QED
        BY <3>3, <4>3
    <3>4. QED
      BY <3>1, <3>2, <3>3
  <2>3. QED
    BY <2>1, <2>2 DEF LimitKept
<1>2. QED
  BY <1>1, Invariance, PTL

-----------------------------------------------------------------------------
(* The refinement of BlobLifecycle *)

LEMMA Sent == Spec => []BodiesSent
<1>1. Init => BodiesSent
  BY DEF Init, BodiesSent
<1>2. ASSUME TypeOK, BodiesSent, [Next]_vars PROVE BodiesSent'
  <2>1. ASSUME NEW u \in Uploads, Start(u) PROVE BodiesSent'
    BY <1>2, <2>1 DEF Start, Goto, TypeOK, BodiesSent
  <2>2. ASSUME NEW u \in Uploads, Upload(u), ~Start(u) PROVE BodiesSent'
    <3>1. pc[u] # "new" /\ UNCHANGED body /\ \A v \in Uploads \ {u} : pc'[v] = pc[v]
      BY <1>2, <2>2 DEF Upload, Read, Refuse, EndOfBody, LeaveAsIs, Rewrite, TearRewrite, Reuse,
                        FindMissing, Replace, Fail, Crash, Goto, Active, TypeOK
    <3>2. QED
      BY <1>2, <3>1 DEF BodiesSent
  <2>3. ASSUME NEW u \in Uploads, Age(u) \/ SweepTmp(u) PROVE BodiesSent'
    BY <1>2, <2>3 DEF Age, SweepTmp, BodiesSent
  <2>4. CASE UNCHANGED vars
    BY <1>2, <2>4 DEF vars, BodiesSent
  <2>5. QED
    BY <1>2, <2>1, <2>2, <2>3, <2>4 DEF Next
<1>3. IInv => TypeOK
  BY DEF IInv
<1>4. QED
  BY <1>1, <1>2, <1>3, Invariance, PTL DEF Spec

\* What the store sees of the uploads.
CommittedSha == [u \in Uploads |-> IF pc[u] = "stored" THEN Name(u) ELSE Sha(NoFile)]
Committed == [u \in Uploads |-> IF pc[u] = "stored" THEN "stored" ELSE "idle"]

\* Testing for the file and moving the fragment end in a commit.
LEMMA CommitStep ==
  ASSUME IInv, BodiesSent, NEW u \in Uploads, Reuse(u) \/ Replace(u)
  PROVE  Store!Next
<1>1. TypeOK /\ pc[u] \in {"hashed", "missing"}
  BY DEF IInv, Reuse, Replace
<1>2. Name(u) \in Digests
  <2>1. body[u] \in Bodies
    BY <1>1 DEF BodiesSent
  <2>2. hashed[u] = Sanitized(u)
    BY <1>1 DEF IInv, HashedIsSanitized
  <2>3. QED
    BY <2>1, <2>2 DEF Sanitized, Expected, Digests, Name
<1>3. /\ pc' = [pc EXCEPT ![u] = "stored"] /\ UNCHANGED hashed
      /\ DOMAIN blobs' = DOMAIN blobs \cup {Name(u)}
  BY DEF Reuse, Replace, Goto
<1>4. /\ Committed' = [Committed EXCEPT ![u] = "stored"]
      /\ CommittedSha' = [CommittedSha EXCEPT ![u] = Name(u)]
  BY <1>1, <1>3 DEF TypeOK, Committed, CommittedSha, Name
<1>5. Cardinality({v \in Uploads : Committed[v] \in Store!Window}) < Cardinality(Uploads)
  <2> DEFINE W == {v \in Uploads : Committed[v] \in Store!Window}
  <2>1. W \subseteq Uploads /\ u \notin W
    BY <1>1 DEF Committed, Store!Window
  <2>2. Cardinality(W) \in Nat /\ Cardinality(Uploads) \in Nat
        /\ Cardinality(W) <= Cardinality(Uploads)
        /\ (Cardinality(W) = Cardinality(Uploads) => W = Uploads)
    BY <2>1, UploadsAssumption, FS_Subset, FS_CardinalityType
  <2>3. QED
    BY <2>1, <2>2
<1> PICK h \in Digests : h = Name(u)
  BY <1>2
<1>6. Store!Commit(u, h)
  <2>1. Committed[u] = "idle"
    BY <1>1 DEF Committed
  <2>2. \A S : Store!Cardinality(S) = Cardinality(S)
    BY Zenon DEF Store!Cardinality, Cardinality
  <2>3. QED
    BY <1>3, <1>4, <1>5, <2>1, <2>2 DEF Store!Commit, Store!rowVars, Committed, CommittedSha
<1>7. Store!Upload(u)
  BY <1>6 DEF Store!Upload
<1>8. QED
  BY <1>7 DEF Store!Next

\* In every other step the store sees nothing happen.
LEMMA QuietStep ==
  ASSUME IInv, NEW u \in Uploads,
         (Upload(u) /\ ~Reuse(u) /\ ~Replace(u)) \/ Age(u) \/ SweepTmp(u)
  PROVE  UNCHANGED Store!vars
<1>1. TypeOK
  BY DEF IInv
<1>2. /\ UNCHANGED blobs
      /\ \A v \in Uploads :
           \/ pc'[v] = pc[v] /\ (pc[v] = "stored" => hashed'[v] = hashed[v])
           \/ pc[v] # "stored" /\ pc'[v] # "stored"
  <2>1. CASE Start(u)
    BY <1>1, <2>1 DEF Start, Goto, TypeOK
  <2>2. CASE Rewrite(u)
    BY <1>1, <2>2 DEF Rewrite, Goto, TypeOK
  <2>3. CASE Read(u) \/ Age(u) \/ SweepTmp(u)
    BY <1>1, <2>3 DEF Read, Age, SweepTmp, TypeOK
  <2>4. CASE Refuse(u) \/ EndOfBody(u) \/ LeaveAsIs(u) \/ TearRewrite(u) \/ FindMissing(u)
             \/ Fail(u) \/ Crash(u)
    BY <1>1, <2>4 DEF Refuse, EndOfBody, LeaveAsIs, TearRewrite, FindMissing, Fail, Crash,
                      Goto, Active, TypeOK
  <2>5. QED
    BY <2>1, <2>2, <2>3, <2>4 DEF Upload
<1>3. CommittedSha' = CommittedSha /\ Committed' = Committed
  BY <1>2 DEF CommittedSha, Committed, Name
<1>4. QED
  BY <1>2, <1>3 DEF Store!vars, CommittedSha, Committed

\* The staging of uploads, with its test, its os.replace and its failures,
\* implements the commits of BlobLifecycle (storage.stream_to_blob).
THEOREM Refinement == Spec => ImplementsCommit
<1>1. Init => Store!Init
  BY DEF Init, Store!Init, Store!IdleSweep
<1>2. ASSUME IInv, BodiesSent, [Next]_vars PROVE [Store!Next]_(Store!vars)
  <2>1. CASE UNCHANGED vars
    BY <2>1 DEF vars, Store!vars, Name
  <2>2. QED
    BY <1>2, <2>1, CommitStep, QuietStep DEF Next
<1>3. QED
  BY <1>1, <1>2, Invariance, Sent, PTL DEF Spec, ImplementsCommit, Store!Spec
=============================================================================
