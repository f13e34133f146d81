----------------------------- MODULE MCAutomaton -----------------------------
(* Up to three patterns of up to three tokens of two, in every order, with *)
(* equal and empty ones among them, and a third token that is in none; the *)
(* words of sparse tables have two bits.                                   *)
EXTENDS Automaton

Pattern == UNION {[1..k -> {1, 3}] : k \in 0..3}
MCPatternSets == UNION {[0..(count - 1) -> Pattern] : count \in 0..3}
=============================================================================
