---------------------------- MODULE MCDownloader ----------------------------
(***************************************************************************)
(* Small instances of Downloader for TLC.                                  *)
(***************************************************************************)
EXTENDS Downloader, TLC

CONSTANTS d1, d2, asset, library, twin, artifact, mod

\* Two names of the asset index often have the same hash, hence one file.
MCPathOf == [e \in Elements |-> IF e = twin THEN asset ELSE e]
TwoChunkMod == [e \in Elements |-> IF e = mod THEN 2 ELSE 1]
OneChunk == [e \in Elements |-> 1]

Symmetry == Permutations(Downloaders)

\* An asset is listed with size and hash, a Maven library with neither, an
\* artifact of a Forge version JSON without URL, a CurseForge mod with nothing.
MCListing == [e \in Elements |->
    CASE e \in {asset, twin} -> [acquire |-> FALSE, library |-> FALSE,
                          url |-> TRUE, sized |-> TRUE, hashed |-> TRUE]
      [] e = library  -> [acquire |-> FALSE, library |-> TRUE,
                          url |-> TRUE, sized |-> FALSE, hashed |-> FALSE]
      [] e = artifact -> [acquire |-> FALSE, library |-> TRUE,
                          url |-> FALSE, sized |-> TRUE, hashed |-> TRUE]
      [] e = mod      -> [acquire |-> TRUE, library |-> FALSE,
                          url |-> FALSE, sized |-> FALSE, hashed |-> TRUE]]

\* What a failed download may have left: nothing, or one or two chunks of
\* other contents than published.
Leftovers == {Absent, [exists |-> TRUE, data |-> <<FALSE>>]}
LookAlikes == Leftovers \cup {[exists |-> TRUE, data |-> <<FALSE, FALSE>>]}
FreshInstall == {Absent}
=============================================================================
