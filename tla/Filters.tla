------------------------------- MODULE Filters -------------------------------
(* The loop that walks a list and keeps the entries that pass a test.       *)
EXTENDS Integers, Sequences

(* The entries of s that are in S, in their order.                          *)
Filter(s, S) ==
    LET kept[n \in 0 .. Len(s)] ==
            IF n = 0 THEN <<>>
            ELSE IF s[n] \in S THEN Append(kept[n - 1], s[n]) ELSE kept[n - 1]
    IN  kept[Len(s)]
=============================================================================
