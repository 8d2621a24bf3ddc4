------------------------------ MODULE MCFalxd ------------------------------
(* Parts of falxd that share no state, checked in one run: the failsafe      *)
(* engine with its detectors, the life of the daemon, the subsystem manager, *)
(* the GeoIP reader, its record decoder, and the honeypot's packet rewrite.  *)
(* which tells whose steps a behaviour consists of; the others rest: in      *)
(* their initial state, in a final one, or "off".  All but the engine stop.  *)
EXTENDS FailsafeDetection, Daemon, SubsysManager, HoneypotRewrite

VARIABLES at, meta, raw, data, dataBase, stack, visited, leafSet, isoTable,  \* GeoIP
          kind, rec, decoded,                                                \* MMDB
          which

geoVars == <<at, meta, raw, data, dataBase, stack, visited, leafSet, isoTable>>
mmdbVars == <<kind, rec, decoded>>
allVars == <<which, dvars, daemonVars, subsysVars, geoVars, mmdbVars, rewriteVars>>

Geo == INSTANCE GeoIP WITH
  N <- 2, Bytes <- 1, Sep <- 1, DataLen <- 1, Bits <- 2, Wrap <- 32, Isos <- {"us"}, pc <- at
Mmdb == INSTANCE MMDB WITH
  StrLens <- {1, 2, 29, 285}, MaxEntries <- 2, NestedMeta <- FALSE, out <- decoded

FiveSubsystems == <<"bpf-maps", "afxdp-bridge", "failsafe-engine", "honeypot", "metrics">>

Components == {"detection", "daemon", "subsys", "geo", "mmdb", "rewrite"}

FalxdInit ==
  /\ which \in Components
  /\ DInit /\ (which # "detection" => cb.state = CLOSED)
  /\ SubsysInit
  /\ IF which = "daemon" THEN DaemonInit
     ELSE /\ runPC = "exited" /\ cancelled = TRUE /\ elapsed = 0 /\ live = {} /\ bridge = "nil"
          /\ bpfMgr = "nil" /\ defers = <<>> /\ sigs = 0 /\ sigCh = {}
  /\ IF which = "geo" THEN Geo!Init
     ELSE /\ at = "rejected" /\ meta = "off" /\ raw = <<>> /\ data = <<>> /\ dataBase = 0
          /\ stack = <<>> /\ visited = {} /\ leafSet = {} /\ isoTable = <<>>
  /\ IF which = "mmdb" THEN Mmdb!Init ELSE kind = "off" /\ rec = "off" /\ decoded = "off"
  /\ IF which = "rewrite" THEN RewriteInit ELSE pkt = "off" /\ target = "off" /\ out = "none"

FalxdNext ==
  \/ /\ which = "detection" /\ DNext
     /\ UNCHANGED <<which, daemonVars, subsysVars, geoVars, mmdbVars, rewriteVars>>
  \/ /\ which = "daemon" /\ DaemonNext
     /\ UNCHANGED <<which, dvars, subsysVars, geoVars, mmdbVars, rewriteVars>>
  \/ /\ which = "subsys" /\ SubsysNext
     /\ UNCHANGED <<which, dvars, daemonVars, geoVars, mmdbVars, rewriteVars>>
  \/ /\ which = "geo" /\ Geo!Next
     /\ UNCHANGED <<which, dvars, daemonVars, subsysVars, mmdbVars, rewriteVars>>
  \/ /\ which = "mmdb" /\ Mmdb!Decode
     /\ UNCHANGED <<which, dvars, daemonVars, subsysVars, geoVars, rewriteVars>>
  \/ /\ which = "rewrite" /\ RewriteNext
     /\ UNCHANGED <<which, dvars, daemonVars, subsysVars, geoVars, mmdbVars>>
  \/ which # "detection" /\ UNCHANGED allVars

(* The fairness each module states of itself; the engine's actions, which    *)
(* are enabled throughout, only where they are the ones taken.               *)
FalxdSpec ==
  /\ FalxdInit /\ [][FalxdNext]_allVars
  /\ WF_dvars(which = "detection" /\ Poll)
  /\ WF_dvars(which = "detection" /\ Quiet(\E ok \in Outcome : EngineWrite(ok)))
  /\ WF_dvars(which = "detection" /\ Quiet(Clock))
  /\ DaemonFairness /\ SubsysFairness /\ Geo!Fairness

(* The reader takes tree and records as the MaxMind format defines them:     *)
(* LookupIPv4 answers what the tree leads to, decodeISOCode finds            *)
(* country.iso_code in every record that has one within reach, and           *)
(* decodeMetaRecord the three fields OpenGeoIP needs.                        *)
ReadsAsFormat == Geo!LookupExact /\ (which = "mmdb" => Mmdb!IsoFound /\ Mmdb!MetaFound)
===========================================================================
