--------------------------- MODULE SubsysManager ---------------------------
(***************************************************************************)
(* The ordered start and stop of subsystems (subsys.Manager) over the      *)
(* adapters of wrappers.go.  Start makes a child context and a goroutine;  *)
(* Stop cancels the context, and for the first two subsystems also closes  *)
(* what the later ones use: the map handles and the bridge.  One mutex     *)
(* covers StartAll, StopAll and HealthAll.                                 *)
(***************************************************************************)
EXTENDS Naturals, Sequences, SequencesExt

CONSTANT Order   \* the registered subsystems, in the order of Register

Registered == Range(Order)
Pos(s) == CHOOSE i \in DOMAIN Order : Order[i] = s

VARIABLES mu,       \* holder of the mutex: "none", "start", "stop" or "health"
          next,     \* position StartAll is at
          started,  \* m.started
          ctx,      \* subsystems with a context that is not cancelled
          running,  \* subsystems whose goroutines run
          closed,   \* subsystems whose resource was closed by Stop
          result    \* of StartAll: "none", "ok" or "error"

subsysVars == <<mu, next, started, ctx, running, closed, result>>

SubsysInit == /\ mu = "none" /\ next = 1 /\ started = <<>> /\ ctx = {} /\ running = {}
              /\ closed = {} /\ result = "none"

\* StartAll is called once, by whoever built the manager.
StartAll == /\ mu = "none" /\ result = "none" /\ next = 1
            /\ mu' = "start"
            /\ UNCHANGED <<next, started, ctx, running, closed, result>>

Advance == next + 1

\* s.Start succeeds.
StartOne == /\ mu = "start" /\ result = "none" /\ next <= Len(Order)
            /\ LET s == Order[next] IN
                 /\ ctx' = ctx \cup {s} /\ running' = running \cup {s}
                 /\ started' = Append(started, s)
            /\ next' = Advance
            /\ UNCHANGED <<mu, closed, result>>

\* Start returns an error: nothing of that subsystem runs, and what was
\* started before it is stopped, still under the mutex.
StartError_Leaves == result' = "error" /\ mu' = "none"

StartError == result' = "error" /\ mu' = mu

StartFails == /\ mu = "start" /\ result = "none" /\ next <= Len(Order)
              /\ StartError
              /\ UNCHANGED <<next, started, ctx, running, closed>>

StartDone == /\ mu = "start" /\ result = "none" /\ next > Len(Order)
             /\ result' = "ok" /\ mu' = "none"
             /\ UNCHANGED <<next, started, ctx, running, closed>>

StopAll == /\ mu = "none" /\ mu' = "stop"
           /\ UNCHANGED <<next, started, ctx, running, closed, result>>

Stopping == mu = "stop" \/ (mu = "start" /\ result = "error")

\* stopStarted goes from the last to the first.
StopIndex == Len(started)

\* Stop of an adapter: cancel, then close for the maps and the bridge.  The
\* bridge's Close waits for its goroutines, the others return at once.
Waits(s) == s = "afxdp-bridge"

\* s.cancel()
Uncancelled(s) == ctx \ {s}

StopOne == /\ Stopping /\ started # <<>>
           /\ LET s == started[StopIndex] IN
                /\ ctx' = Uncancelled(s)
                /\ running' = IF Waits(s) THEN running \ {s} ELSE running
                /\ closed' = closed \cup {s}
                /\ started' = RemoveAt(started, StopIndex)
           /\ UNCHANGED <<mu, next, result>>

StopDone == /\ Stopping /\ started = <<>>
            /\ mu' = "none"
            /\ UNCHANGED <<next, started, ctx, running, closed, result>>

\* A goroutine sees its context done.
GoroutineEnds(s) == /\ s \in running \ ctx
                    /\ running' = running \ {s}
                    /\ UNCHANGED <<mu, next, started, ctx, closed, result>>

\* m.mu.Lock()
HealthLock == mu = "none"

\* HealthAll asks the started subsystems, under the mutex.
HealthAll == /\ HealthLock /\ mu' = "health"
             /\ UNCHANGED <<next, started, ctx, running, closed, result>>

HealthDone == /\ mu = "health" /\ mu' = "none"
              /\ UNCHANGED <<next, started, ctx, running, closed, result>>

SubsysNext == \/ StartAll \/ StartOne \/ StartFails \/ StartDone
              \/ StopAll \/ StopOne \/ StopDone \/ HealthAll \/ HealthDone
              \/ \E s \in Registered : GoroutineEnds(s)

\* Whoever holds the mutex goes on, and goroutines look at their context.
SubsysFairness == /\ WF_subsysVars(StartOne \/ StartFails \/ StartDone) /\ WF_subsysVars(StopOne \/ StopDone)
                  /\ WF_subsysVars(HealthDone) /\ \A s \in Registered : WF_subsysVars(GoroutineEnds(s))

SubsysSpec == SubsysInit /\ [][SubsysNext]_subsysVars /\ SubsysFairness

---------------------------------------------------------------------------
SubsysTypeOK == /\ mu \in {"none", "start", "stop", "health"} /\ next \in 1..Len(Order) + 1
                /\ started \in Seq(Registered) /\ ctx \subseteq Registered /\ running \subseteq Registered
                /\ closed \subseteq Registered /\ result \in {"none", "ok", "error"}
                /\ IsInjective(started)

(* What a started subsystem uses is open: at every moment of a start, of a *)
(* stop and of the stop that follows a failed start, the subsystems        *)
(* registered before a started one are started too and not yet closed.     *)
DependenciesOpen ==
  \A i \in DOMAIN started : /\ started[i] = Order[i]
                            /\ \A j \in 1..i : Order[j] \notin closed

(* A health check sees all subsystems or none: the mutex keeps it out of a *)
(* start and a stop under way.                                             *)
HealthOfRunning ==
  mu = "health" => (started = <<>> \/ (started = Order /\ result = "ok" /\ closed = {}))

(* A failed StartAll leaves nothing behind: once it has returned, every    *)
(* context made is cancelled.                                              *)
FailedStartCleans == result = "error" /\ mu # "start" => ctx = {} /\ started = <<>>

(* After a failed start, or a stop, everything that ran ends.              *)
StoppedEnds == (mu = "stop" \/ result = "error") ~> running = {}

(* The handles of the maps are closed when no goroutine uses them any      *)
(* more: not so, since only the bridge's Stop waits.                       *)
ClosedUnused == "bpf-maps" \in closed => running \subseteq {"bpf-maps"}
=============================================================================
