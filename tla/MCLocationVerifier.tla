------------------------- MODULE MCLocationVerifier -------------------------
(* Small instances of LocationVerifier for TLC: geohashes of 3 characters.  *)
EXTENDS LocationVerifier

(* Nested, disjoint, empty and overlong prefixes; "a" is not in the         *)
(* alphabet.                                                                *)
MCPrefix == {<<>>, <<"u">>, <<"u", "4">>, <<"s">>, <<"a">>, <<"u", "4", "p">>}

MCBoundary == {<<>>, <<"u", "4">>, <<"u", "4", "p", "4">>}

MCGeohash == {<<"u", "4", "p">>, <<"u", "p", "p">>, <<"s", "4", "p">>,
              <<"a", "4", "p">>, <<"u", "4">>, <<"u", "4", "p", "4">>}
=============================================================================
