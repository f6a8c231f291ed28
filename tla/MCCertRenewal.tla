--------------------------- MODULE MCCertRenewal ---------------------------
(* CertRenewal for TLC: short intervals in the code's proportions. *)
EXTENDS CertRenewal

MCBackoff == <<1, 2>>
MCDue == [k \in 0..2 |-> <<3, 5, 8>>[k + 1]]
=============================================================================
