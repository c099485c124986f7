---------------------------- MODULE MCReconcile ----------------------------
(* Small instances of Reconcile for TLC.                                    *)
EXTENDS Reconcile

CONSTANTS ann, g1

(* A tip that adds up, one that does not, and both in one transaction.      *)
Good == [recipient |-> ann, gist_id |-> g1, amount |-> 10, fee |-> 1, net |-> 9]

Bad == [recipient |-> ann, gist_id |-> g1, amount |-> 5, fee |-> 0, net |-> 4]

MCBatches == {<<Good>>, <<Bad>>, <<Good, Bad>>}

Text(kind) == [text |-> kind, length |-> 0, split |-> FALSE]

Base64(length) == [text |-> "base64", length |-> length, split |-> FALSE]

(* Text whose 80th byte is within a character, after one no base64 has.     *)
SplitText == [Text("ascii") EXCEPT !.split = TRUE]

(* The bytes of the layout in the comment of decode_tipped_xdr, where       *)
(* gist_id takes 4: enough for a claim to be read, not for a tip.           *)
Documented == Base64(4 + 32 + 16 + 16 + 16)

MCData == {Text("json"), Text("ascii"), Text("other"), SplitText, Documented}

(* No more than the layouts of both comments.                               *)
DocumentedData == {Documented, Base64(32 + 16)}

(* The first ledger, all but the first, and the wrong way round.            *)
MCRange == {[first |-> 0, last |-> 0], [first |-> 1, last |-> 9],
            [first |-> 1, last |-> 0]}
=============================================================================
