------------------------------ MODULE EventBus ------------------------------
(***************************************************************************)
(* The in-process publish/subscribe bus (control-plane/pkg/events/bus.go): *)
(* publishers copy the subscriber list under the lock and send without it, *)
(* while subscribers come, read, and leave.  One topic; an event is the    *)
(* number of its publication.                                              *)
(***************************************************************************)
EXTENDS Naturals, Sequences, SequencesExt, FiniteSets

CONSTANTS Publishers, Subs,
          BufSize,    \* capacity of Subscriber.Ch
          MaxEvents   \* bound: publications

VARIABLES list,      \* Bus.subscribers[topic]
          ch,        \* subscriber -> buffered events
          state,     \* subscriber -> "new", "on", then the steps of Unsubscribe, "off"
          closed,    \* subscribers whose closed flag is set
          pub,       \* publisher -> [ev, todo, step]
          busDropped, \* Bus.dropped
          published, \* events published so far
          sent,      \* history: successful sends
          skipped,   \* history: subscribers passed over because they were closed
          owed,      \* history: subscribers of all snapshots taken
          raced      \* history: subscribers that read while they were being drained

busVars == <<list, ch, state, closed, pub, busDropped, published, sent, skipped, owed, raced>>

NoPub == [ev |-> 0, todo |-> <<>>, step |-> "idle"]

BusInit ==
  /\ list = <<>> /\ ch = [s \in Subs |-> <<>>] /\ state = [s \in Subs |-> "new"] /\ closed = {}
  /\ pub = [p \in Publishers |-> NoPub]
  /\ busDropped = 0 /\ published = 0 /\ sent = 0 /\ skipped = 0 /\ owed = 0 /\ raced = {}

Counters == <<busDropped, sent, skipped>>
History == <<owed, raced>>
Publishing == <<pub, busDropped, published, sent, skipped, owed>>

Subscribe(s) ==
  /\ state[s] = "new"
  /\ state' = [state EXCEPT ![s] = "on"] /\ list' = Append(list, s)
  /\ UNCHANGED <<ch, closed, Publishing, raced>>

----------------------------------------------------------------------------
(* Publish                                                                 *)

\* The copy of the list.
Snapshot(p) ==
  /\ pub[p].step = "idle" /\ published < MaxEvents
  /\ published' = published + 1
  /\ pub' = [pub EXCEPT ![p] = [ev |-> published + 1, todo |-> list, step |-> "check"]]
  /\ owed' = owed + Len(list)
  /\ UNCHANGED <<list, ch, state, closed, Counters, raced>>

NextSub(p) == pub' = [pub EXCEPT ![p].todo = Tail(@), ![p].step = "check"]

CheckClosed(p) ==
  /\ pub[p].step = "check" /\ pub[p].todo # <<>>
  /\ IF Head(pub[p].todo) \in closed THEN NextSub(p) /\ skipped' = skipped + 1
     ELSE pub' = [pub EXCEPT ![p].step = "send"] /\ UNCHANGED skipped
  /\ UNCHANGED <<list, ch, state, closed, busDropped, published, sent, History>>

\* safelySend: neither full nor closed; the panic of a closed channel is
\* recovered and counts as not sent.
CanSend(s) == Len(ch[s]) < BufSize /\ state[s] # "off"

CountDrop == busDropped' = busDropped + 1

Send(p) ==
  LET s == Head(pub[p].todo)
  IN  /\ pub[p].step = "send"
      /\ \/ CanSend(s) /\ ch' = [ch EXCEPT ![s] = Append(@, pub[p].ev)] /\ sent' = sent + 1 /\ UNCHANGED busDropped
         \/ ~CanSend(s) /\ CountDrop /\ UNCHANGED <<ch, sent>>
      /\ NextSub(p)
      /\ UNCHANGED <<list, state, closed, skipped, published, History>>

PublishDone(p) ==
  /\ pub[p].step = "check" /\ pub[p].todo = <<>>
  /\ pub' = [pub EXCEPT ![p] = NoPub]
  /\ UNCHANGED <<list, ch, state, closed, Counters, published, History>>

----------------------------------------------------------------------------
(* The reader, and Unsubscribe                                             *)

Receive(s) ==
  /\ ch[s] # <<>> /\ ch' = [ch EXCEPT ![s] = Tail(@)]
  /\ raced' = IF state[s] \in {"drain", "take"} THEN raced \union {s} ELSE raced
  /\ UNCHANGED <<list, state, closed, Publishing>>

Goto(s, pc) == state' = [state EXCEPT ![s] = pc]

\* The flag is set before the subscriber leaves the list.
Unsubscribe(s) ==
  /\ state[s] = "on" /\ Goto(s, "remove") /\ closed' = closed \union {s}
  /\ UNCHANGED <<list, ch, Publishing, raced>>

\* append(subs[:i], subs[i+1:]...)
Without(l, s) == Remove(l, s)

LeaveList(s) ==
  /\ state[s] = "remove" /\ Goto(s, "drain") /\ list' = Without(list, s)
  /\ UNCHANGED <<ch, closed, Publishing, raced>>

\* The drain loop tests the length and then receives; it does not close
\* while the channel is not empty.
DrainTest_Skips(s) == state[s] = "drain" /\ Goto(s, "take")
DrainTest(s) == state[s] = "drain" /\ Goto(s, IF ch[s] # <<>> THEN "take" ELSE "close")

Drain(s) == DrainTest(s) /\ UNCHANGED <<list, ch, closed, Publishing, raced>>

DrainTake(s) ==
  /\ state[s] = "take" /\ ch[s] # <<>>
  /\ ch' = [ch EXCEPT ![s] = Tail(@)] /\ Goto(s, "drain")
  /\ UNCHANGED <<list, closed, Publishing, raced>>

Close(s) == state[s] = "close" /\ Goto(s, "off") /\ UNCHANGED <<list, ch, closed, Publishing, raced>>

----------------------------------------------------------------------------
BusNext ==
  \/ \E p \in Publishers : Snapshot(p) \/ CheckClosed(p) \/ Send(p) \/ PublishDone(p)
  \/ \E s \in Subs : \/ Subscribe(s) \/ Receive(s) \/ Unsubscribe(s) \/ LeaveList(s)
                     \/ Drain(s) \/ DrainTake(s) \/ Close(s)

Leave(s) == LeaveList(s) \/ Drain(s) \/ DrainTake(s) \/ Close(s)
BusFairness == \A s \in Subs : WF_busVars(Leave(s))
BusSpec == BusInit /\ [][BusNext]_busVars /\ BusFairness

----------------------------------------------------------------------------
(* Properties                                                              *)

\* Every channel respects its capacity and events are published numbers.
BusTypeOK ==
  /\ Range(list) \subseteq Subs /\ closed \subseteq Subs
  /\ \A s \in Subs : Len(ch[s]) <= BufSize /\ Range(ch[s]) \subseteq 1..MaxEvents

\* Every subscriber of every snapshot was sent the event, was passed over as
\* closed, is counted in DropCount, or is still to come: no event is lost
\* without a count, whoever unsubscribes meanwhile.
NoSilentLoss ==
  owed = sent + skipped + busDropped + SumFunction([p \in Publishers |-> Len(pub[p].todo)])

\* The list holds exactly the subscribers that have not left: one's leaving
\* never removes another.
ListExact == {s \in Subs : state[s] \in {"on", "remove"}} = Range(list)

\* Unsubscribe returns, unless the subscriber's own reader took an event
\* while its channel was being drained.
UnsubscribeReturns == \A s \in Subs : state[s] = "remove" ~> (state[s] = "off" \/ s \in raced)

\* bus.go, "Drain buffered events so readers waiting on Ch.close() don't
\* block": the channel is closed, whatever its reader does.
AlwaysClosed == \A s \in Subs : state[s] = "remove" ~> state[s] = "off"
=============================================================================
