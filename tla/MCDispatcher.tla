---------------------------- MODULE MCDispatcher ----------------------------
(* Instances of Dispatcher for TLC. *)
EXTENDS Dispatcher

CONSTANTS a1, slack, mail

(* Both kinds of notifier, and Slack alone. *)
SlackFirst == {<<slack, mail>>, <<slack>>}

(* Slack twice, as a list may have it, behind mail. *)
SlackTwice == {<<mail, slack, slack>>, <<slack>>}
=============================================================================
