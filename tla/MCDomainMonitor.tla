-------------------------- MODULE MCDomainMonitor --------------------------
(* Instances of DomainMonitor for TLC. *)
EXTENDS DomainMonitor

(* One registration and its renewal, seen through one source. *)
Renewed == << [rdap |-> 4], [rdap |-> 9] >>

(* WHOIS gives the day, RDAP the time of day too. *)
DayOnly == << [rdap |-> 6, whois |-> 5] >>
=============================================================================
