--------------------------- MODULE MCGistListing ---------------------------
(* Small instances of GistListing for TLC.                                  *)
EXTENDS GistListing

(* The default, half of it, and too long.                                   *)
MCTtlArg == {NoTtl, 1, MAX_GIST_TTL_HOURS + 1}

MCExpireBatches == {<<1, 2>>}
=============================================================================
