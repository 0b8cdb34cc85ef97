------------------------------- MODULE Expiry -------------------------------
(***************************************************************************)
(* The decisions of internal/alerting about expiry dates: the threshold    *)
(* band of a number of days, and what a certificate's result raises given  *)
(* what alert_log already holds.                                           *)
(***************************************************************************)
EXTENDS Integers

(* What the engine hands to the dispatcher: Alert.Type, and the fields of  *)
(* the log's rows that the dedup compares.                                 *)
NoAlert == [kind |-> "none", band |-> 0, cert |-> "none"]

(* currentThresholdBand: the smallest threshold the days are at or below,  *)
(* and 0 if there is none.                                                 *)
Crossed(days, thresholds) == {t \in thresholds : days <= t}

Smallest(S) == CHOOSE t \in S : \A u \in S : t <= u

Band(days, thresholds) ==
  IF Crossed(days, thresholds) = {} THEN 0 ELSE Smallest(Crossed(days, thresholds))

(* int(time.Until(t).Hours() / 24): whole days, rounded towards zero, of a *)
(* time that is `left` ticks away.                                         *)
WholeDays(left, dayLength) ==
  IF left >= 0 THEN left \div dayLength ELSE -((-left) \div dayLength)

(* decideSSL.  A result without a certificate, its dial having failed,     *)
(* raises nothing.  Of an untrusted certificate the site's untrusted rows  *)
(* of either status count; of an expiring one only those marked "sent",    *)
(* for this band and this certificate: they make up toldBands.             *)
DecideSSL(r, thresholds, untrustedLogged, toldBands) ==
  LET band == Band(r.days, thresholds)
  IN IF ~r.dialed THEN NoAlert
     ELSE IF r.untrusted
       THEN IF untrustedLogged THEN NoAlert
            ELSE [kind |-> "untrusted", band |-> 0, cert |-> r.cert]
     ELSE IF band = 0 \/ band \in toldBands THEN NoAlert
     ELSE [kind |-> "expiring", band |-> band, cert |-> r.cert]
=============================================================================
