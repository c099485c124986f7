---------------------------- MODULE MCGistVault ----------------------------
(* Small instances of GistVault for TLC.                                    *)
EXTENDS GistVault, TLC

CONSTANTS alice, bob, carol, dao, g1, g2, k1, k2

item(a, g, x) == [recipient |-> a, gist_id |-> g, amount |-> x]

(* A batch over two gists, one that pays a gist twice, and one too long.    *)
MCBatches == {
    <<item(bob, g1, 12), item(carol, g2, 5)>>,
    <<item(bob, g1, 5), item(bob, g1, 12)>>,
    <<item(bob, g1, 5), item(bob, g1, 5), item(bob, g1, 5)>> }

(* The batches over one gist.                                               *)
OneGistBatches == {b \in MCBatches : \A i \in DOMAIN b : b[i].gist_id = g1}

SmallBalance == [a \in Account \cup {Vault} |-> IF a = alice THEN 21 ELSE 0]

MCBalance == [a \in Account \cup {Vault} |-> IF a = alice THEN 34 ELSE 0]

MCSymmetry == Permutations({k1, k2})
=============================================================================
