--------------------------- MODULE MCCertificates ----------------------------
(* Model-checking instances of Certificates. *)
EXTENDS Certificates, TLC

CONSTANTS d1, r1, old, new

SanLists == Permutations(SanList)
=============================================================================
