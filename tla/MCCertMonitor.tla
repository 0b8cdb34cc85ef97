--------------------------- MODULE MCCertMonitor ---------------------------
(* Instances of CertMonitor for TLC. *)
EXTENDS CertMonitor, TLC

CONSTANTS c1, c2, slack

ToSlack == <<slack>>

(* The first certificate is renewed by the second, two days later. *)
Renewal == (c1 :> 3) @@ (c2 :> 7)
=============================================================================
