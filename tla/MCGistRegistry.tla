--------------------------- MODULE MCGistRegistry ---------------------------
(* Small instances of GistRegistry for TLC.                                 *)
EXTENDS GistRegistry, TLC

CONSTANTS ann, ben, mod

(* None, hours from 0 to one too many, and absolute expiries on and off the *)
(* hour, in the past and too far away.                                      *)
MCTtlArg == {NoTtl} \cup 0 .. MAX_GIST_TTL_HOURS + 1 \cup {Genesis + 5, Genesis + 13}

MCExpireBatches == {<<1, 2>>, <<2, 2>>, <<1, 2, 3>>}

MCSymmetry == Permutations({ann, ben})
=============================================================================
