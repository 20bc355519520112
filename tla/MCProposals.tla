----------------------------- MODULE MCProposals ----------------------------
(***************************************************************************)
(* Proposals for TLC.                                                      *)
(***************************************************************************)
EXTENDS Proposals

=============================================================================
