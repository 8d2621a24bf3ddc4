---------------------------- MODULE MCMessages ----------------------------
(* The parts that pass messages on to clients through bounded queues: the    *)
(* inference pipeline and the notification feed.  They share no state, so    *)
(* one run checks both: which tells whose steps a behaviour consists of.     *)
(* Three packets from two addresses, one of them protected.                  *)
EXTENDS InferencePipeline, NotificationFeed

VARIABLE which

MCPackets == <<"x", "p", "x">>

MessagesInit == which \in {"inference", "feed"} /\ Init /\ FeedInit
MessagesNext == \/ which = "inference" /\ Next /\ UNCHANGED <<which, feedVars>>
                \/ which = "feed" /\ FeedNext /\ UNCHANGED <<which, vars>>
MessagesSpec == MessagesInit /\ [][MessagesNext]_<<which, vars, feedVars>> /\ Fairness
===========================================================================
