-------------------------- MODULE MCUptimeMonitor --------------------------
(* Instances of UptimeMonitor for TLC. *)
EXTENDS UptimeMonitor, TLC

CONSTANTS s1, s2, slack

NoneRouted == << >>
ToSlack    == <<slack>>

(* Only recovered pages have a route of their own. *)
RecoveredOnly == [k \in {"recovered"} |-> <<slack>>]
NoPerType     == [k \in {} |-> << >>]
=============================================================================
