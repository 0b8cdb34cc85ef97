----------------------------- MODULE MCStartup -----------------------------
(* Instances of Startup for TLC: one configuration that says everything,   *)
(* one that leaves everything to the defaults, and some that differ from   *)
(* them by one mistake.  Durations are in half seconds.                    *)
EXTENDS Startup

CONSTANTS p1, p2

\* The one migration of the repository, 0001_init.sql, has four statements.
Embedded == <<4>>

Site(name) == [name |-> name, scheme |-> "https", interval |-> 60, timeout |-> 20,
               expect |-> {200, 204}, retries |-> 3, checkSSL |-> TRUE]
Slack == [name |-> "slack", type |-> "slack", complete |-> TRUE]
Mail  == [name |-> "mail",  type |-> "smtp",  complete |-> TRUE]

Full == [readable |-> TRUE, interval |-> 30, sslInterval |-> 0, domainInterval |-> 7200,
         sites |-> <<Site("a"), Site("b")>>, notifiers |-> <<Slack, Mail>>,
         default |-> <<"slack">>, perType |-> [k \in {"down"} |-> <<"slack", "mail">>],
         sslWarnDays |-> {30, 7}, domainWarnDays |-> {60}, listen |-> "address"]

Blank == [name |-> "a", scheme |-> "http", interval |-> 0, timeout |-> 0,
          expect |-> {}, retries |-> 0, checkSSL |-> FALSE]
Bare == [Full EXCEPT !.interval = 0, !.domainInterval = 0, !.sites = <<Blank>>,
                     !.notifiers = <<>>, !.default = <<>>, !.perType = <<>>,
                     !.sslWarnDays = {}, !.domainWarnDays = {}, !.listen = "off"]

WithSite(s) == [Full EXCEPT !.sites = <<s, Site("b")>>]

FileSet ==
  {Full, Bare,
   [Bare EXCEPT !.interval = 1],                       \* half a second, for every site
   [Full EXCEPT !.readable = FALSE],
   [Full EXCEPT !.sites = <<>>],
   [Full EXCEPT !.default = <<>>],                     \* a route for one type only
   [Full EXCEPT !.default = <<>>, !.perType = <<>>],
   [Full EXCEPT !.default = <<"slack", "pager">>],
   [Full EXCEPT !.perType = [k \in {"down"} |-> <<"pager">>]],
   [Full EXCEPT !.notifiers = <<Slack, Slack, Mail>>],
   [Full EXCEPT !.notifiers = <<Slack, [Mail EXCEPT !.complete = FALSE]>>],
   [Full EXCEPT !.notifiers = <<Slack, [Mail EXCEPT !.type = "pager"]>>],
   [Full EXCEPT !.sslWarnDays = {0, 7}],
   [Full EXCEPT !.listen = "malformed"],
   WithSite(Site("b")), WithSite(Site("")),
   WithSite([Site("a") EXCEPT !.scheme = "http"]),
   WithSite([Site("a") EXCEPT !.retries = -1]),
   WithSite([Site("a") EXCEPT !.timeout = 1])}
=============================================================================
