-------------------------- MODULE MCChallengeApi --------------------------
(* Small instances of ChallengeApi for TLC. *)
EXTENDS ChallengeApi, TLC

CONSTANTS c1, c2, c3, math, text, fallback, none

TwoClients   == {c1, c2}
ThreeClients == {c1, c2, c3}

\* The first child is dropped.
DropsMath == << <<math, text>>, <<text>> >>
OnlyText == {text}

ClientSymmetry == Permutations(ThreeClients)
=============================================================================
