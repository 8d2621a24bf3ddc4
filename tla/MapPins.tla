------------------------------ MODULE MapPins ------------------------------
(***************************************************************************)
(* Who holds which BPF map.  Three programs meet at the pin directory      *)
(* /sys/fs/bpf/falx: the eBPF loader (ebpf-user) makes a new set of maps   *)
(* every time it starts and replaces the pins; falxd opens the pins, or    *)
(* makes and pins maps of its own when there are none; the SOC backend     *)
(* only opens.  No lock orders them, and a pin that is replaced leaves its *)
(* holders with a map the kernel no longer uses.                           *)
(*                                                                         *)
(* A map is the pair of its maker and that maker's run.  The two maps kept *)
(* are the ones whose content is initialised, in the order in which all    *)
(* three programs go through them.                                         *)
(***************************************************************************)
EXTENDS Naturals, Sequences

CONSTANTS MaxLoads,    \* bound: starts of the loader
          MaxStarts    \* bound: starts of falxd

Names == <<"failsafe_state", "config">>
Idx == 1..2
NoMap == [by |-> "none", run |-> 0]
Inst(by, run) == [by |-> by, run |-> run]
Insts == {Inst("loader", r) : r \in 1..MaxLoads} \cup {Inst("falxd", r) : r \in 1..MaxStarts}
         \cup {Inst("soc", 1)}

VARIABLES pin,      \* pinned map of every name
          content,  \* what the record of a map holds, per name and map
          lpc, lrun, li,          \* loader: program counter, run, name it is at
          kern,                   \* run whose maps the attached XDP program uses, 0 = detached
          dpc, drun, di, dfd,     \* falxd: counter, run, name, open handles
          dseen,                  \* history: loader run, up and its records intact, when falxd started
          spc, si, sfd, policyEng \* SOC: counter, name, handles, policy engine built

lvars == <<lpc, lrun, li, kern>>
dvars == <<dpc, drun, di, dfd, dseen>>
svars == <<spc, si, sfd, policyEng>>
pinVars == <<pin, content, lvars, dvars, svars>>

LInst == Inst("loader", lrun)
DInst == Inst("falxd", drun)

PinsInit == /\ pin = [i \in Idx |-> NoMap]
            /\ content = [i \in Idx |-> [m \in Insts |-> "zero"]]
            /\ lpc = "down" /\ lrun = 0 /\ li = 1 /\ kern = 0
            /\ dpc = "down" /\ drun = 0 /\ di = 1 /\ dfd = [i \in Idx |-> NoMap] /\ dseen = 0
            /\ spc = "open" /\ si = 1 /\ sfd = [i \in Idx |-> NoMap] /\ policyEng = FALSE

(***************************************************************************)
(* The loader.  load creates the maps, attach puts the program on the      *)
(* interface before anything is pinned or initialised.                     *)
(***************************************************************************)
Load == /\ lpc = "down" /\ lrun < MaxLoads
        /\ lrun' = lrun + 1 /\ lpc' = "attach" /\ li' = 1
        /\ UNCHANGED <<pin, content, kern, dvars, svars>>

Attach == /\ lpc = "attach"
          /\ kern' = lrun /\ lpc' = "unpin"
          /\ UNCHANGED <<pin, content, lrun, li, dvars, svars>>

\* pin_maps removes a pin that is there, whoever made it.
RemoveStale == /\ lpc = "unpin"
               /\ pin' = [pin EXCEPT ![li] = NoMap]
               /\ lpc' = "pin"
               /\ UNCHANGED <<content, lrun, li, kern, dvars, svars>>

\* bpf_obj_pin refuses a path that exists: another program pinned meanwhile.
CanPin_Replaces(i) == TRUE

CanPin(i) == pin[i] = NoMap

PinMap == /\ lpc = "pin" /\ CanPin(li)
          /\ pin' = [pin EXCEPT ![li] = LInst]
          /\ IF li = Len(Names) THEN lpc' = "config" /\ li' = 1
                                ELSE lpc' = "unpin" /\ li' = li + 1
          /\ UNCHANGED <<content, lrun, kern, dvars, svars>>

\* Dropping the loaded object detaches the program from the interface.
Detached == 0

\* Any error returns from load_and_attach, which drops the object.
LoadFails == /\ lpc = "pin" /\ ~CanPin(li)
             /\ lpc' = "down" /\ kern' = Detached
             /\ UNCHANGED <<pin, content, lrun, li, dvars, svars>>

InitConfig == /\ lpc = "config"
              /\ content' = [content EXCEPT ![2][LInst] = "loader"] /\ lpc' = "failsafe"
              /\ UNCHANGED <<pin, lrun, li, kern, dvars, svars>>

InitFailsafe == /\ lpc = "failsafe"
                /\ content' = [content EXCEPT ![1][LInst] = "loader"] /\ lpc' = "running"
                /\ UNCHANGED <<pin, lrun, li, kern, dvars, svars>>

\* A signal in the event loop, an error or a crash at any point: the program
\* detaches, the pins stay.
LoaderExit == /\ lpc # "down"
              /\ lpc' = "down" /\ kern' = Detached
              /\ UNCHANGED <<pin, content, lrun, li, dvars, svars>>

(***************************************************************************)
(* falxd: NewManager without NoCreate.                                     *)
(***************************************************************************)
FalxdStart == /\ dpc = "down" /\ drun < MaxStarts
              /\ drun' = drun + 1 /\ dpc' = "open" /\ di' = 1 /\ dfd' = [i \in Idx |-> NoMap]
              /\ dseen' = IF lpc = "running" /\ \A i \in Idx : content[i][LInst] = "loader"
                          THEN lrun ELSE 0
              /\ UNCHANGED <<pin, content, lvars, svars>>

Opened(m) == /\ dfd' = [dfd EXCEPT ![di] = m]
             /\ IF di = Len(Names) THEN dpc' = "read1" /\ di' = 1
                                   ELSE dpc' = "open" /\ di' = di + 1

\* LoadPinnedMap succeeds.
OpenPinned == /\ dpc = "open" /\ pin[di] # NoMap
              /\ Opened(pin[di])
              /\ UNCHANGED <<pin, content, drun, dseen, lvars, svars>>

\* LoadPinnedMap fails: the map is created from its spec, and pinned next.
CreateMap == /\ dpc = "open" /\ pin[di] = NoMap
             /\ dpc' = "create"
             /\ UNCHANGED <<pin, content, drun, di, dfd, dseen, lvars, svars>>

PinCreated == /\ dpc = "create" /\ CanPin(di)
              /\ pin' = [pin EXCEPT ![di] = DInst]
              /\ Opened(DInst)
              /\ UNCHANGED <<content, drun, dseen, lvars, svars>>

\* Pin fails, NewManager fails, falxd exits with a runtime error.
StartFails == /\ dpc = "create" /\ ~CanPin(di)
              /\ dpc' = "down"
              /\ UNCHANGED <<pin, content, drun, di, dfd, dseen, lvars, svars>>

\* initDefaultMapValues: per record, a lookup, and a write of the whole
\* record when the looked up threshold (or action) was zero.
NeedsDefault(i) == content[i][dfd[i]] = "zero"

AfterRecord(i) == IF i = 1 THEN "read2" ELSE "running"

ReadDefault(i) ==
  /\ dpc = (IF i = 1 THEN "read1" ELSE "read2")
  /\ dpc' = IF NeedsDefault(i) THEN (IF i = 1 THEN "write1" ELSE "write2") ELSE AfterRecord(i)
  /\ UNCHANGED <<pin, content, drun, di, dfd, dseen, lvars, svars>>

WriteDefault(i) ==
  /\ dpc = (IF i = 1 THEN "write1" ELSE "write2")
  /\ content' = [content EXCEPT ![i][dfd[i]] = "falxd"]
  /\ dpc' = AfterRecord(i)
  /\ UNCHANGED <<pin, drun, di, dfd, dseen, lvars, svars>>

\* Close: the handles go, the pins stay.  A crash has the same effect.
FalxdExit == /\ dpc # "down"
             /\ dpc' = "down" /\ dfd' = [i \in Idx |-> NoMap]
             /\ UNCHANGED <<pin, content, drun, di, dseen, lvars, svars>>

(***************************************************************************)
(* The SOC backend: NewManager with NoCreate, once in initSubsystems and   *)
(* then every two seconds until it succeeds (runMetricsStreamer).  Only    *)
(* the first attempt is followed by the construction of the policy engine. *)
(***************************************************************************)
SocAttached(i) == IF i = Len(Names) THEN spc' = "attached" /\ si' = 1
                                    ELSE spc' = spc /\ si' = si + 1

SocOpen == /\ spc \in {"open", "reopen"} /\ pin[si] # NoMap
           /\ sfd' = [sfd EXCEPT ![si] = pin[si]]
           /\ SocAttached(si)
           /\ policyEng' = (policyEng \/ (spc = "open" /\ si = Len(Names)))
           /\ UNCHANGED <<pin, content, lvars, dvars>>

\* openExistingPinnedMap: no pin is an error, nothing is created.
openExistingPinnedMap == /\ spc' = "wait" /\ si' = 1 /\ UNCHANGED <<pin, sfd>>

SocOpenFails == /\ spc \in {"open", "reopen"} /\ pin[si] = NoMap
                /\ openExistingPinnedMap
                /\ UNCHANGED <<content, policyEng, lvars, dvars>>

SocRetry == /\ spc = "wait"
            /\ spc' = "reopen" /\ sfd' = [i \in Idx |-> NoMap]
            /\ UNCHANGED <<si, policyEng, pin, content, lvars, dvars>>

PinsNext == \/ Load \/ Attach \/ RemoveStale \/ PinMap \/ LoadFails
            \/ InitConfig \/ InitFailsafe \/ LoaderExit
            \/ FalxdStart \/ OpenPinned \/ CreateMap \/ PinCreated \/ StartFails
            \/ \E i \in Idx : ReadDefault(i) \/ WriteDefault(i)
            \/ FalxdExit
            \/ SocOpen \/ SocOpenFails \/ SocRetry

\* The SOC's ticker and its system calls are never starved.
PinsFairness == WF_pinVars(SocOpen) /\ WF_pinVars(SocOpenFails) /\ WF_pinVars(SocRetry)

PinsSpec == PinsInit /\ [][PinsNext]_pinVars /\ PinsFairness

---------------------------------------------------------------------------
Handle == Insts \cup {NoMap}
LoaderPinned == lpc \in {"config", "failsafe", "running"}

PinsTypeOK ==
  /\ pin \in [Idx -> Handle] /\ dfd \in [Idx -> Handle] /\ sfd \in [Idx -> Handle]
  /\ content \in [Idx -> [Insts -> {"zero", "loader", "falxd"}]]
  /\ lpc \in {"down", "attach", "unpin", "pin", "config", "failsafe", "running"}
  /\ dpc \in {"down", "open", "create", "read1", "write1", "read2", "write2", "running"}
  /\ spc \in {"open", "wait", "reopen", "attached"} /\ policyEng \in BOOLEAN
  /\ lrun \in 0..MaxLoads /\ kern \in {0, lrun} /\ li \in Idx
  /\ drun \in 0..MaxStarts /\ di \in Idx /\ si \in Idx /\ dseen \in 0..MaxLoads

(* Once pin_maps has gone through its list, every pin names a map the      *)
(* attached program uses, whatever falxd created and pinned in between.    *)
PinsAreKernels == LoaderPinned => \A i \in Idx : pin[i] = Inst("loader", kern)

(* A falxd that starts while the loader is up with its records intact, and *)
(* while that loader lasts, works on the kernel's maps and leaves in them  *)
(* what the loader wrote: openOrCreatePinnedMap makes nothing and          *)
(* initDefaultMapValues leaves a record that carries state alone.          *)
StartedAfterLoader ==
  dpc \in {"read1", "write1", "read2", "write2", "running"} /\ dseen # 0
    /\ dseen = kern /\ lpc = "running"
  => \A i \in Idx : dfd[i] = Inst("loader", kern) /\ content[i][dfd[i]] = "loader"

(* A running falxd never works on a record of zeros, also when the loader  *)
(* died between pinning its maps and initialising them.                    *)
NeverUninitialised == dpc = "running" => \A i \in Idx : content[i][dfd[i]] # "zero"

(* The SOC backend makes no map: what is pinned and what it holds comes    *)
(* from the loader or from falxd (the NoCreate comments in server.go and   *)
(* openExistingPinnedMap).                                                 *)
NoShadowMap == \A i \in Idx : pin[i].by # "soc" /\ sfd[i].by # "soc"

(* The late attach: if from some point on every map is pinned, the SOC     *)
(* backend attaches without a restart.                                     *)
SocAttaches == <>[](\A i \in Idx : pin[i] # NoMap) => <>(spc = "attached")

(* The SOC that is attached has a policy engine: initSubsystems builds it  *)
(* only when the first attempt to open the maps succeeds, and the late     *)
(* attach does not.                                                        *)
AttachedHasPolicy == spc = "attached" => policyEng

(* falxd works on the maps of the running kernel program.                  *)
FalxdSeesKernel == dpc = "running" /\ lpc = "running"
                   => \A i \in Idx : dfd[i] = Inst("loader", kern)
============================================================================
