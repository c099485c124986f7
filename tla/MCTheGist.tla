----------------------------- MODULE MCTheGist -----------------------------
(* Small instances of TheGist for TLC.                                      *)
EXTENDS TheGist, TLC

CONSTANTS ann, ben, tia, dao, k1, k2

(* The default, the longest, and an absolute expiry off the hour.           *)
MCTtlArg == {NoTtl, MAX_GIST_TTL_HOURS, Genesis + 5}

MCExpireBatches == {<<1, 2>>}

(* Both gists of one author, or one gist of each of two.                    *)
MCBatches == {
    <<[recipient |-> x, gist_id |-> 1, amount |-> 5],
      [recipient |-> y, gist_id |-> 2, amount |-> 12]>> : x, y \in {ann, ben} }

MCBalance == [a \in Account \cup {Vault} |-> IF a = tia THEN 29 ELSE 0]

MCSymmetry == Permutations({ann, ben})
=============================================================================
