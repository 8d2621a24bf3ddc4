------------------------------ MODULE Honeypot ------------------------------
(***************************************************************************)
(* The honeypot subsystem: the target pool and its rotation (control-plane *)
(* /internal/honeypot/manager.go), the two BPF maps the kernel reads on    *)
(* every redirected packet (ebpf-kern/src/honeypot.rs), and the session    *)
(* tracker that reads packet metadata (tracker.go).                        *)
(*                                                                         *)
(* A target is its slot; addresses, MACs and names are left out.  A write  *)
(* to a map may fail.  A flow stands for its source.  Five minutes without *)
(* a packet are the step Idle.                                             *)
(***************************************************************************)
EXTENDS Naturals, Sequences, FiniteSets, SequencesExt

CONSTANTS Flows,        \* flows, one source each
          MaxTargets,   \* cfg.MaxTargets
          MaxSessions,  \* Tracker.maxSessions
          UpdateEvery,  \* 100: packets between two session_update events
          EventCap,     \* capacity of EventCh
          MetaCap,      \* capacity of the bridge's metadata channel
          MaxAdmin      \* bound: administrative calls

VARIABLES pool,       \* slot -> [on, active]: Target.Active and Active
          activeIdx,  \* Manager.activeIdx
          activeMap,  \* HONEYPOT_ACTIVE[0]
          targets,    \* HONEYPOT_TARGETS: slots whose active byte is set
          run,        \* Manager.Run: "new", "single", "rotating"
          blocklist,  \* flows whose source is marked for redirect
          cpu,        \* <<flow, slot>> after the kernel read HONEYPOT_ACTIVE
          meta,       \* metadata on its way to the tracker
          sessions,   \* flow -> [count, idle]
          events,     \* EventCh; nothing in the repository reads it
          admin

mgrVars == <<pool, activeIdx, activeMap, targets, run, admin>>
trackerVars == <<meta, sessions, events>>
potVars == <<mgrVars, blocklist, cpu, trackerVars>>

\* Slots are 0-based, sequences 1-based.
Slots == 0..(MaxTargets - 1)
Registered == 0..(Len(pool) - 1)

PotInit ==
  /\ pool = <<>> /\ activeIdx = 0 /\ activeMap = 0 /\ targets = {} /\ run = "new"
  /\ blocklist = {} /\ cpu = <<>>
  /\ meta = <<>> /\ sessions = <<>> /\ events = <<>>
  /\ admin = 0

----------------------------------------------------------------------------
(* Manager                                                                 *)

\* activateTarget, "Deactivate old".
Deactivated(p) == IF activeIdx < Len(p) THEN [p EXCEPT ![activeIdx + 1].active = FALSE] ELSE p

\* activateTarget(id) on pool p: the old target is already deactivated when
\* the map update fails.
activateTarget(p, id) ==
  \/ /\ activeMap' = id /\ activeIdx' = id
     /\ pool' = [Deactivated(p) EXCEPT ![id + 1].active = TRUE]
  \/ pool' = Deactivated(p) /\ UNCHANGED <<activeMap, activeIdx>>

Admin == admin < MaxAdmin /\ admin' = admin + 1

WriteFails == UNCHANGED <<pool, targets, activeIdx, activeMap>>

PoolFull == Len(pool) >= MaxTargets

\* A full pool is refused; the slot is written before the pool grows; the
\* first target is activated.
RegisterTarget ==
  LET id == Len(pool)
      p  == Append(pool, [on |-> TRUE, active |-> FALSE])
  IN  /\ Admin /\ ~PoolFull
      /\ \/ WriteFails
         \/ /\ targets' = targets \union {id}
            /\ IF id = 0 THEN activateTarget(p, 0)
                         ELSE pool' = p /\ UNCHANGED <<activeIdx, activeMap>>
      /\ UNCHANGED <<run, blocklist, cpu, trackerVars>>

SetActiveTarget(id) ==
  /\ Admin /\ id \in Registered
  /\ activateTarget(pool, id)
  /\ UNCHANGED <<targets, run, blocklist, cpu, trackerVars>>

\* The pool entry changes even if the map write fails.
DisableTarget(id) ==
  /\ Admin /\ id \in Registered
  /\ pool' = [pool EXCEPT ![id + 1] = [on |-> FALSE, active |-> FALSE]]
  /\ targets' \in {targets, targets \ {id}}
  /\ UNCHANGED <<activeIdx, activeMap, run, blocklist, cpu, trackerVars>>

\* Run reads the pool size once.
StartRun ==
  /\ run = "new"
  /\ run' = IF Len(pool) <= 1 THEN "single" ELSE "rotating"
  /\ UNCHANGED <<pool, activeIdx, activeMap, targets, admin, blocklist, cpu, trackerVars>>

NextIdx_NoWrap == IF activeIdx + 1 < Len(pool) THEN activeIdx + 1 ELSE activeIdx
NextIdx == (activeIdx + 1) % Len(pool)

rotate ==
  /\ run = "rotating"
  /\ activateTarget(pool, NextIdx)
  /\ UNCHANGED <<targets, run, admin, blocklist, cpu, trackerVars>>

\* The tick whose map update succeeds.
RotateOk == rotate /\ activeIdx' = NextIdx /\ activeMap' = NextIdx

\* RedirectIPv4; and an unblock or the expiry of the entry.
RedirectIPv4(f) ==
  /\ Admin /\ blocklist' = blocklist \union {f}
  /\ UNCHANGED <<pool, activeIdx, activeMap, targets, run, cpu, trackerVars>>

EntryGone(f) ==
  /\ f \in blocklist /\ blocklist' = blocklist \ {f}
  /\ UNCHANGED <<mgrVars, cpu, trackerVars>>

----------------------------------------------------------------------------
(* Kernel: a marked source is redirected and never reaches the bridge.     *)

PacketArrives(f) ==
  /\ cpu = <<>>
  /\ IF f \in blocklist THEN cpu' = <<f, activeMap>> /\ UNCHANGED meta
     ELSE Len(meta) < MetaCap /\ meta' = Append(meta, f) /\ UNCHANGED cpu
  /\ UNCHANGED <<mgrVars, blocklist, sessions, events>>

\* try_redirect: XDP_TX to an enabled target, XDP_DROP otherwise; either way
\* the packet is done.
try_redirect ==
  /\ cpu # <<>> /\ cpu' = <<>>
  /\ UNCHANGED <<mgrVars, blocklist, trackerVars>>

----------------------------------------------------------------------------
(* Tracker                                                                 *)

emit(evs) == events' = SubSeq(events \o evs, 1, IF Len(events \o evs) < EventCap
                                                THEN Len(events \o evs) ELSE EventCap)

AtCapacity == Cardinality(DOMAIN sessions) >= MaxSessions

\* processMeta: the capacity check comes before the lookup, so that at
\* capacity known sessions are not updated either.
processMeta ==
  LET f   == Head(meta)
      new == f \notin DOMAIN sessions
      n   == IF new THEN 1 ELSE sessions[f].count + 1
  IN  /\ meta # <<>> /\ meta' = Tail(meta)
      /\ IF f \notin blocklist \/ AtCapacity THEN UNCHANGED <<sessions, events>>
         ELSE /\ sessions' = [g \in DOMAIN sessions \union {f} |->
                                IF g = f THEN [count |-> n % UpdateEvery, idle |-> FALSE] ELSE sessions[g]]
              /\ emit((IF new THEN <<<<"new_session", f>>>> ELSE <<>>)
                      \o (IF n % UpdateEvery = 0 THEN <<<<"session_update", f>>>> ELSE <<>>))
      /\ UNCHANGED <<mgrVars, blocklist, cpu>>

\* Five minutes pass for one session.
Idle(f) ==
  /\ f \in DOMAIN sessions /\ ~sessions[f].idle
  /\ sessions' = [sessions EXCEPT ![f].idle = TRUE]
  /\ UNCHANGED <<mgrVars, blocklist, cpu, meta, events>>

Expired == {f \in DOMAIN sessions : sessions[f].idle}
ExpiredEvents_Silent == <<>>
ExpiredEvents == [i \in 1..Cardinality(Expired) |-> <<"session_expired", SetToSeq(Expired)[i]>>]

cleanupExpiredSessions ==
  /\ Expired # {}
  /\ sessions' = [g \in DOMAIN sessions \ Expired |-> sessions[g]]
  /\ emit(ExpiredEvents)
  /\ UNCHANGED <<mgrVars, blocklist, cpu, meta>>

----------------------------------------------------------------------------
PotNext ==
  \/ RegisterTarget \/ StartRun \/ rotate \/ try_redirect \/ processMeta \/ cleanupExpiredSessions
  \/ \E id \in Slots : SetActiveTarget(id) \/ DisableTarget(id)
  \/ \E f \in Flows : RedirectIPv4(f) \/ EntryGone(f) \/ PacketArrives(f) \/ Idle(f)

\* The ticker keeps firing and a map update does not fail for ever.
PotFairness == SF_potVars(RotateOk)
PotSpec == PotInit /\ [][PotNext]_potVars /\ PotFairness

----------------------------------------------------------------------------
(* Properties                                                              *)

\* The session table and the event channel stay within their limits.
PotTypeOK ==
  /\ Len(pool) <= MaxTargets /\ activeIdx \in Slots /\ activeMap \in Slots /\ targets \subseteq Slots
  /\ Cardinality(DOMAIN sessions) <= MaxSessions /\ Len(events) <= EventCap /\ Len(meta) <= MetaCap

\* At most one pool entry is shown as active, and it is the one whose index
\* the kernel reads: Status never names a honeypot that gets no packets.
OneActive == \A i \in DOMAIN pool : pool[i].active => i - 1 = activeIdx /\ activeMap = activeIdx

\* An enabled pool entry is enabled in HONEYPOT_TARGETS, whichever writes
\* failed: a rotation onto it does not make the kernel drop.
EnabledIsWritten == \A i \in DOMAIN pool : pool[i].on => i - 1 \in targets

\* The event stream of every flow is new_session, updates, session_expired,
\* and over again, although sessions come and go at the capacity limit.
EventsAlternate ==
  \A f \in Flows :
    LET ev == SelectSeq(events, LAMBDA e : e[2] = f)
    IN  \A i \in DOMAIN ev :
          (ev[i][1] = "new_session") <=> (i = 1 \/ ev[i - 1][1] = "session_expired")

\* Once the scheduler rotates, every registered target gets its turn again
\* and again.
RotationVisitsAll ==
  \A id \in Slots : run = "rotating" /\ id \in Registered ~> activeMap = id

\* types.go, "Disable marks the target as inactive (XDP will skip it)": while
\* an enabled target exists the kernel's index is not a disabled one.
DisabledSkipped == \A i \in DOMAIN pool : pool[i].on => activeMap \in targets
=============================================================================
