------------------------------- MODULE MCRank -------------------------------
(* TLC instance of Rank. *)
EXTENDS Rank

=============================================================================
