------------------------------- MODULE Daemon -------------------------------
(***************************************************************************)
(* falxd from main to exit: the five initialisers of FalxDaemon.Run in     *)
(* order, the signal that may arrive during any of them, the cancellation  *)
(* of every context by that of their parent, the drain timer, and the      *)
(* deferred closes.                                                        *)
(*                                                                         *)
(* Time is counted from the cancellation.  A goroutine leaves at its next  *)
(* look at ctx.Done(), when the work in its hands (a poll, a sweep, a      *)
(* scrape) is over, and that takes at most WorkMax.                        *)
(***************************************************************************)
EXTENDS Naturals, Sequences, SequencesExt

CONSTANTS Drain,    \* shutdownDrainTimeout
          WorkMax,  \* longest work in flight of a goroutine, shorter than Drain
          MaxSignals \* bound: signals sent

Subsystems == {"expiry", "bridge", "failsafe", "honeypot", "tracker", "metrics"}

VARIABLES runPC,      \* where Run is
          cancelled,  \* the root context is done
          elapsed,    \* time since the cancellation, up to Drain
          live,       \* goroutines that run
          bridge,     \* "nil", "open" or "closed"
          bpfMgr,     \* "nil", "open" or "closed"
          defers,     \* calls deferred by Run
          sigs,       \* SIGINT and SIGTERM sent so far
          sigCh       \* where one waits: "main" and "run", the channels of main and waitForSignals

daemonVars == <<runPC, cancelled, elapsed, live, bridge, bpfMgr, defers, sigs, sigCh>>

DaemonInit == /\ runPC = "initBPFMaps" /\ cancelled = FALSE /\ elapsed = 0
              /\ live = {} /\ bridge = "nil" /\ bpfMgr = "nil" /\ defers = <<"rootCancel">>
              /\ sigs = 0 /\ sigCh = {}

RunStep(from, to) == runPC = from /\ runPC' = to

\* initBPFMaps: the manager, and the expiry daemon on a child of the root context.
initBPFMaps == /\ RunStep("initBPFMaps", "initAFXDP")
               /\ bpfMgr' = "open" /\ live' = live \cup {"expiry"}
               /\ defers' = Append(defers, "bpfMgr.Close")
               /\ UNCHANGED <<cancelled, elapsed, bridge, sigs, sigCh>>

\* The only initialiser whose error ends Run.
initBPFMapsFails == /\ RunStep("initBPFMaps", "return")
                    /\ UNCHANGED <<cancelled, elapsed, live, bridge, bpfMgr, defers, sigs, sigCh>>

initAFXDP == /\ RunStep("initAFXDP", "initFailsafe")
             /\ \/ /\ bridge' = "open" /\ live' = live \cup {"bridge"}
                   /\ defers' = Append(defers, "bridge.Close")
                \/ UNCHANGED <<bridge, live, defers, sigs, sigCh>>              \* a warning; d.bridge stays nil
             /\ UNCHANGED <<cancelled, elapsed, bpfMgr, sigs, sigCh>>

initFailsafe == /\ RunStep("initFailsafe", "initHoneypot")
                /\ live' = live \cup {"failsafe"}
                /\ UNCHANGED <<cancelled, elapsed, bridge, bpfMgr, defers, sigs, sigCh>>

\* The tracker reads the bridge's channel, so it starts only with a bridge.
TrackerStarts == bridge # "nil"

initHoneypot == /\ RunStep("initHoneypot", "initMetrics")
                /\ \/ live' = live \cup {"honeypot"} \cup (IF TrackerStarts THEN {"tracker"} ELSE {})
                   \/ UNCHANGED live                       \* a warning
                /\ UNCHANGED <<cancelled, elapsed, bridge, bpfMgr, defers, sigs, sigCh>>

initMetrics == /\ RunStep("initMetrics", "waitForSignals")
               /\ live' = live \cup {"metrics"}
               /\ UNCHANGED <<cancelled, elapsed, bridge, bpfMgr, defers, sigs, sigCh>>

\* SIGINT or SIGTERM.  main's channel is registered before Run, and its
\* goroutine receives once; Run's own channel exists in waitForSignals only.
Signal == /\ sigs < MaxSignals /\ runPC # "exited"
          /\ sigs' = sigs + 1
          /\ sigCh' = sigCh \cup (IF sigs = 0 THEN {"main"} ELSE {})
                            \cup (IF runPC = "waitForSignals" THEN {"run"} ELSE {})
          /\ UNCHANGED <<runPC, cancelled, elapsed, live, bridge, bpfMgr, defers>>

\* Each receiver cancels the root context: main its parent, at any time.
CancelRoot(c) == /\ c \in sigCh
                 /\ c = "run" => runPC = "waitForSignals"
                 /\ sigCh' = sigCh \ {c} /\ cancelled' = TRUE
                 /\ UNCHANGED <<runPC, elapsed, live, bridge, bpfMgr, defers, sigs>>

\* A goroutine finishes its work and sees its context done.
Leave(s) == /\ cancelled /\ s \in live
            /\ live' = live \ {s}
            /\ UNCHANGED <<runPC, cancelled, elapsed, bridge, bpfMgr, defers, sigs, sigCh>>

\* Work in flight ends by WorkMax.
DrainTick == /\ cancelled /\ runPC = "drain" /\ elapsed < Drain
             /\ elapsed >= WorkMax => live = {}
             /\ elapsed' = elapsed + 1
             /\ UNCHANGED <<runPC, cancelled, live, bridge, bpfMgr, defers, sigs, sigCh>>

\* case <-ctx.Done()
DoneSeen == cancelled

\* shutdown cancels every context once more.
waitForSignals == /\ DoneSeen
                  /\ RunStep("waitForSignals", "drain")
                  /\ UNCHANGED <<cancelled, elapsed, live, bridge, bpfMgr, defers, sigs, sigCh>>

DrainOver_NoTimer == TRUE

\* <-drainTimer.C
DrainOver == elapsed = Drain

shutdown == /\ DrainOver
            /\ RunStep("drain", "return")
            /\ UNCHANGED <<cancelled, elapsed, live, bridge, bpfMgr, defers, sigs, sigCh>>

\* Deferred calls run last in, first out.
DeferIndex == Len(defers)

\* bridge.Close waits for the goroutines of the bridge and turns the redirect
\* off in the config map; bpfMgr.Close closes the handles.
RunDefer == /\ runPC = "return" /\ defers # <<>>
            /\ LET d == defers[DeferIndex] IN
                 /\ d = "bridge.Close" => "bridge" \notin live
                 /\ bridge' = IF d = "bridge.Close" THEN "closed" ELSE bridge
                 /\ bpfMgr' = IF d = "bpfMgr.Close" THEN "closed" ELSE bpfMgr
                 /\ cancelled' = (cancelled \/ d = "rootCancel")
            /\ defers' = RemoveAt(defers, DeferIndex)
            /\ UNCHANGED <<runPC, elapsed, live, sigs, sigCh>>

\* main exits the process.
Exit == /\ runPC = "return" /\ defers = <<>>
        /\ runPC' = "exited" /\ live' = {}
        /\ UNCHANGED <<cancelled, elapsed, bridge, bpfMgr, defers, sigs, sigCh>>

DaemonNext == \/ initBPFMaps \/ initBPFMapsFails \/ initAFXDP \/ initFailsafe
              \/ initHoneypot \/ initMetrics \/ Signal \/ DrainTick
              \/ \E c \in {"main", "run"} : CancelRoot(c)
              \/ \E s \in Subsystems : Leave(s)
              \/ waitForSignals \/ shutdown \/ RunDefer \/ Exit

\* Run is never starved, time passes, and work in flight ends.
DaemonFairness == /\ WF_daemonVars(initBPFMaps \/ initBPFMapsFails) /\ WF_daemonVars(initAFXDP) /\ WF_daemonVars(initFailsafe)
                  /\ WF_daemonVars(initHoneypot) /\ WF_daemonVars(initMetrics) /\ WF_daemonVars(waitForSignals)
                  /\ WF_daemonVars(DrainTick) /\ WF_daemonVars(shutdown) /\ WF_daemonVars(RunDefer) /\ WF_daemonVars(Exit)
                  /\ WF_daemonVars(CancelRoot("main")) /\ \A s \in Subsystems : WF_daemonVars(Leave(s))

DaemonSpec == DaemonInit /\ [][DaemonNext]_daemonVars /\ DaemonFairness

---------------------------------------------------------------------------
DaemonTypeOK == /\ runPC \in {"initBPFMaps", "initAFXDP", "initFailsafe", "initHoneypot", "initMetrics",
                     "waitForSignals", "drain", "return", "exited"}
                /\ sigs \in 0..MaxSignals /\ sigCh \subseteq {"main", "run"}
                /\ cancelled \in BOOLEAN /\ elapsed \in 0..Drain /\ live \subseteq Subsystems
                /\ bridge \in {"nil", "open", "closed"} /\ bpfMgr \in {"nil", "open", "closed"}
                /\ defers \in Seq({"rootCancel", "bpfMgr.Close", "bridge.Close"})

(* The bridge never outlives the maps: its Close, which writes the config  *)
(* map, runs while the manager is open, on every way out of Run.           *)
MapsOutliveBridge == bridge = "open" => bpfMgr = "open"

(* When the manager closes the map handles, no goroutine that reads or     *)
(* writes maps is left: the drain period of shutdown is longer than any    *)
(* work in flight, and the error return of Run starts nothing.             *)
NoUseAfterClose == bpfMgr = "closed" => live = {}

(* The honeypot tracker, which receives from the bridge's channel, only    *)
(* runs when there is a bridge (the nil guards of initHoneypot), also      *)
(* after an AF_XDP failure that Run ignores.                               *)
TrackerHasBridge == "tracker" \in live => bridge # "nil"

(* A signal ends the process, also one that arrives while Run is still in  *)
(* its initialisers.                                                       *)
SignalEnds == sigs > 0 ~> runPC = "exited"
=============================================================================
