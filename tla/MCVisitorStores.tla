--------------------------- MODULE MCVisitorStores ---------------------------
(* Small instances of VisitorStores for TLC. *)
EXTENDS VisitorStores, TLC

CONSTANTS c1, c2, c3, home, cafe, p1, none

ThreeCalls == {c1, c2, c3}
TwoLevels  == {1, 2}
TwoIps     == {home, cafe}
OnePrint   == {p1}

\* Calls are interchangeable, and so are the two addresses.
CallSymmetry == Permutations(ThreeCalls) \union Permutations({home, cafe})
=============================================================================
