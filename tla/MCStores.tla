----------------------------- MODULE MCStores -----------------------------
(* The parts that keep a copy in memory of what a table or a map holds: the  *)
(* hardened writer with its dedup cache, the authentication service with its *)
(* users and sessions, and the policy engine with its list of rules.  They   *)
(* share no state, so one run checks all three: which tells whose steps a    *)
(* behaviour consists of.  The bounds of the services make them stop.        *)
(* Policy has two addresses and rule bodies that overlap on both: a block of *)
(* the whole range, an allow of one address above it, a redirect on the      *)
(* threat score at the same priority, and one body that Validate refuses.    *)
EXTENDS MCHardenedWriter, AuthService, PolicyEngine

VARIABLE which

Body(p, on, act, logic, conds) ==
  [priority |-> p, enabled |-> on, action |-> act, logic |-> logic, conditions |-> conds]

SomeDrafts ==
  {Body(1, TRUE, "block", "", <<[type |-> "src_ip", op |-> "cidr", val |-> {1, 2}]>>),
   Body(2, TRUE, "allow", "AND", <<[type |-> "src_ip", op |-> "eq", val |-> 1],
                                   [type |-> "threat_score", op |-> "lt", val |-> 2]>>),
   Body(0, TRUE, "redirect", "OR", <<[type |-> "dst_ip", op |-> "eq", val |-> 1],
                                     [type |-> "dst_port", op |-> "range", val |-> <<3, 4>>],
                                     [type |-> "threat_score", op |-> "gte", val |-> 2]>>),
   Body(2, FALSE, "block", "", <<>>)}

SomeFlow(ip, s) == [src_ip |-> ip, threat_score |-> s, src_port |-> 0, dst_port |-> 0,
                   protocol |-> 0, pps |-> 0, bps |-> 0]
SomeJobs == {[flows |-> <<SomeFlow(1, 1)>>, fallback |-> TRUE],
                [flows |-> <<SomeFlow(1, 1), SomeFlow(2, 2)>>, fallback |-> FALSE]}

StoresInit ==
  /\ which \in {"writer", "auth", "policy"} /\ Init /\ AuthInit /\ PolicyInit
  /\ (which # "writer" => map = dedupCache)
StoresNext ==
  \/ which = "writer" /\ Next /\ UNCHANGED <<which, authVars, policyVars>>
  \/ which = "auth" /\ AuthNext /\ UNCHANGED <<which, vars, policyVars>>
  \/ which = "policy" /\ PolicyNext /\ UNCHANGED <<which, vars, authVars>>
  \/ which # "writer" /\ UNCHANGED <<which, vars, authVars, policyVars>>
StoresSpec == StoresInit /\ [][StoresNext]_<<which, vars, authVars, policyVars>>
===========================================================================
