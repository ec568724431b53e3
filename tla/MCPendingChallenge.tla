------------------------- MODULE MCPendingChallenge -------------------------
(* Small instances of PendingChallenge for TLC. *)
EXTENDS PendingChallenge, TLC

CONSTANTS g1, g2, g3, c1, none

OneChallenge == {c1}
TwoGuesses   == {g1, g2}
ThreeGuesses == {g1, g2, g3}

\* Guesses are interchangeable.
GuessSymmetry == Permutations(ThreeGuesses)
=============================================================================
