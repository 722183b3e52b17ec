----------------------------- MODULE BlobHistory -----------------------------
(***************************************************************************)
(* BlobLifecycle with history variables, which remember how an upload and  *)
(* a sweep of the same content overlapped.  They say exactly what the      *)
(* rechecks of the sweep achieve: which overlaps can lose bytes, or leave  *)
(* bytes behind, and that nothing else does.  None of them is in the code, *)
(* and none of them restricts a step.                                      *)
(***************************************************************************)
EXTENDS BlobLifecycle

VARIABLES
  overlapped,   \* uploads that were between commit and insert while a sweep
                \* was between the recheck and the unlink of the same hash
  stirred,      \* stirred[s]: hashes sweep s has confirmed gone that had an
                \* upload between commit and insert at some time since
  renewed,      \* renewed[s]: hashes on the list of sweep s that had a live
                \* row at some time since they were listed
  stray         \* hashes without a row, since an upload ended without an
                \* insert or a stirred hash was purged

hvars == <<vars, overlapped, stirred, renewed, stray>>

-----------------------------------------------------------------------------

Collides(f) ==
  /\ up[f] \in Window
  /\ \E s \in Sweepers : sw[s].pc = "unlink" /\ sw[s].cur = sha[f]

\* The hashes sweep s has listed and may still unlink or purge.
Listed(s) == sw[s].orphans \cup {sw[s].cur} \cup sw[s].gone

\* The upload of f ends in this step, with bytes committed and no row.
GivenUp(f) == up[f] \in Window /\ up'[f] \in {"refused", "failed", "dead"}

Remember ==
  /\ overlapped' = overlapped \cup {f \in Files : Collides(f)'}
  /\ stirred' = [s \in Sweepers |->
       {h \in Hashes : h \in sw'[s].gone /\ (h \in stirred[s] \/ InWindow(h)')}]
  /\ renewed' = [s \in Sweepers |->
       {h \in Hashes : h \in Listed(s)' /\ (h \in renewed[s] \/ Referenced(h)')}]
  /\ stray' = {h \in Hashes :
       /\ ~HasRow(h)'
       /\ \/ h \in stray
          \/ \E f \in Files : sha[f] = h /\ GivenUp(f)
          \/ \E s \in Sweepers : h \in stirred[s]}

HInit ==
  /\ Init
  /\ overlapped = {}
  /\ stirred = [s \in Sweepers |-> {}]
  /\ renewed = [s \in Sweepers |-> {}]
  /\ stray = {}

HNext == Next /\ Remember

HSpec == HInit /\ [][HNext]_hvars

\* With the fairness of BlobLifecycle, which says why it is justified.
FairHSpec == HSpec /\ Fairness /\ SweepsEnd

-----------------------------------------------------------------------------

HTypeOK ==
  /\ TypeOK
  /\ overlapped \subseteq Files
  /\ stirred \in [Sweepers -> SUBSET Hashes]
  /\ renewed \in [Sweepers -> SUBSET Hashes]
  /\ stray \subseteq Hashes

(***************************************************************************)
(* No file loses its bytes but by the one race the recheck leaves open: if *)
(* the upload of f, from commit to insert, did not overlap the recheck and *)
(* unlink of the same hash, then f has its blob for as long as its row is  *)
(* live, through every deletion, sweep, crash and purge around it.         *)
(***************************************************************************)
OnlyOverlapLosesBytes ==
  \A f \in Files : status[f] = "live" /\ f \notin overlapped => sha[f] \in blobs

(***************************************************************************)
(* Bytes that no upload owns have a row for a later sweep to find, or are  *)
(* one of two kinds of stray: an upload ended between commit and insert,   *)
(* or the content came back between being confirmed gone and purged.  In   *)
(* particular a locked file, and a sweep that dies anywhere, leave nothing *)
(* that the next sweep would not see.                                      *)
(***************************************************************************)
BytesAccountedFor ==
  \A h \in Hashes : OnDisk(h) => HasRow(h) \/ InWindow(h) \/ h \in stray

(***************************************************************************)
(* A blob is unlinked only by a sweep that has rechecked it, and only when *)
(* every row of the hash was deleted at least Grace ago, unless the hash   *)
(* had a live row since the sweep listed it.                               *)
(***************************************************************************)
UnlinkOnlyAfterGrace ==
  [][\A h \in blobs \ blobs' :
       \E s \in Sweepers :
         /\ sw[s].pc = "unlink" /\ sw[s].cur = h
         /\ \/ h \in renewed[s]
            \/ \A f \in RowsOf(h) : status[f] = "deleted" /\ age[f] >= Grace]_hvars

(***************************************************************************)
(* The same for the rows: a row is dropped only once it is deleted, with   *)
(* its hash confirmed gone, and Grace after its deletion unless the hash   *)
(* had a live row since it was listed.  So a live row survives a purge of  *)
(* its hash, whenever it was inserted.                                     *)
(***************************************************************************)
PurgeOnlyAfterGrace ==
  [][\A f \in Files :
       status[f] # "absent" /\ status'[f] = "absent" =>
         /\ status[f] = "deleted"
         /\ \E s \in Sweepers :
              /\ sw[s].pc = "pick" /\ sha[f] \in sw[s].gone
              /\ age[f] >= Grace \/ sha[f] \in renewed[s]]_hvars

(***************************************************************************)
(* The inductive invariant behind the three.                               *)
(***************************************************************************)
\* An upload in its window has its bytes, unless it overlapped an unlink.
WindowHasBytes ==
  \A f \in Files : up[f] \in Window /\ f \notin overlapped => sha[f] \in blobs

\* A sweep about to unlink h faces no reference to h but overlapped ones.
UnlinkFacesOverlap ==
  \A s \in Sweepers, f \in Files :
    /\ sw[s].pc = "unlink" /\ sw[s].cur = sha[f]
    /\ status[f] = "live" \/ up[f] \in Window
    => f \in overlapped

\* A row, and an upload in its window, have a hash.
ShaChosen ==
  \A f \in Files : status[f] # "absent" \/ up[f] \in Window => sha[f] \in Hashes

\* A sweep that handles a hash has chosen one.
CurChosen ==
  \A s \in Sweepers : sw[s].pc \in {"unlink", "unthumb", "confirm"} => sw[s].cur \in Hashes

\* An upload that may still insert its row has none yet.
OneInsert ==
  \A f \in Files : status[f] # "absent" => up[f] = "done"

\* Since it was confirmed gone, a hash that was not stirred stayed gone.
GoneStaysGone ==
  \A s \in Sweepers : \A h \in sw[s].gone :
    h \notin stirred[s] => ~OnDisk(h) /\ ~InWindow(h)

\* A hash on a sweep's list is still old, or was live since it was listed.
ListedIsOld ==
  \A s \in Sweepers : \A h \in Hashes :
    h \in Listed(s) /\ h \notin renewed[s] =>
      \A f \in RowsOf(h) : status[f] = "deleted" /\ age[f] >= Grace

IInv ==
  /\ HTypeOK
  /\ ShaChosen
  /\ CurChosen
  /\ OneInsert
  /\ OnlyOverlapLosesBytes
  /\ WindowHasBytes
  /\ UnlinkFacesOverlap
  /\ GoneStaysGone
  /\ BytesAccountedFor
  /\ ListedIsOld
=============================================================================
