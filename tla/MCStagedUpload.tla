-------------------------- MODULE MCStagedUpload --------------------------
(* Instances of StagedUpload for TLC. *)
EXTENDS StagedUpload, TLC

CONSTANTS a, b, x, t

\* Two JPEGs with metadata: one becomes a file that is also uploaded as it is,
\* the other grows past the limit.  A third is an MPO.  A TIFF, and the TIFF it
\* becomes.  One file is too large, and one is empty.
MCBodies == {<<>>, <<a, b>>, <<a, b, a>>, <<x, a>>, <<x>>, <<t, x>>, <<t, a>>,
             <<x, b>>}
MCExif == {<<x, a>>, <<x>>, <<x, b>>}
MCMpo == {<<x, b>>}
MCTiff == {<<t, x>>, <<t, a>>}
MCClean == (<<x, a>> :> <<a, b>>) @@ (<<x>> :> <<a, b, b>>)
           @@ (<<t, x>> :> <<t, a>>) @@ (<<t, a>> :> <<t, a>>)
=============================================================================
