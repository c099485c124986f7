--------------------------- MODULE MCAuditedVault ---------------------------
(* A small instance of AuditedVault for TLC.                                *)
EXTENDS AuditedVault

CONSTANTS alice, bob, dao, g1, k1

(* A batch that pays a gist twice.                                          *)
MCBatches ==
    {<<[recipient |-> bob, gist_id |-> g1, amount |-> 5],
       [recipient |-> bob, gist_id |-> g1, amount |-> 12]>>}

MCBalance == [a \in Account \cup {Vault} |-> IF a = alice THEN 34 ELSE 0]

(* Data the tool reads, and data it drops.                                  *)
MCData == {[text |-> kind, length |-> 0, split |-> FALSE] : kind \in {"json", "ascii"}}

(* The first ledger, and all of them.                                       *)
MCRanges == {[first |-> 0, last |-> 0], [first |-> 0, last |-> 9]}
=============================================================================
