--------------------------- MODULE PolicyEngine ---------------------------
(***************************************************************************)
(* The dynamic policy engine (control-plane/pkg/policy): the rules table   *)
(* in SQLite, the list of enabled rules Engine.rules that loadRules        *)
(* installs, the REST requests that change rules (engine.go, handlers.go), *)
(* and the flows evaluated against the list and applied to the IPv4        *)
(* blocklist (ApplyRule, EvaluateAndApplyBatch, and PolicyAwareBlock of    *)
(* cmd/falxd/daemon_p10.go).                                               *)
(*                                                                         *)
(* Each SQL statement and each access to Engine.rules is one step; the     *)
(* database has a single connection, so statements never overlap, but      *)
(* requests interleave between them.  Names, reasons, TTLs, the event bus  *)
(* and the log are left out.  A parsed condition value is a number or, for *)
(* a CIDR, the set of its addresses.                                       *)
(***************************************************************************)
EXTENDS Integers, Sequences, SequencesExt

CONSTANTS Admins,      \* REST requests being served at the same time
          Evaluators,  \* goroutines that evaluate flows
          Addrs,       \* source addresses
          Drafts,      \* rule bodies the requests carry
          FlowBatches, \* jobs of the evaluators: [flows, fallback]
          MaxRules,    \* bound: rules created
          MaxAdminCalls, \* bound: REST requests
          MaxJobs      \* bound: evaluation jobs

VARIABLES table,     \* rules table: id -> row, ids in order of created_at
          rules,     \* Engine.rules
          admin,     \* REST requests in flight
          task,      \* evaluation jobs in flight
          hitting,   \* recordHit goroutines not yet run: a sequence of ids
          blocklist, \* BLOCKLIST_V4 by address: "none", "drop" or "redirect"
          created, requests, jobs,  \* counters of the bounds
          totalHits, \* Engine.totalHits since the table was created
          lostHits,  \* history: hits that reached no row
          synced     \* history: the last load ran alone and nothing changed since

policyVars == <<table, rules, admin, task, hitting, blocklist, created, requests, jobs,
          totalHits, lostHits, synced>>

Ids == 1..MaxRules
NoWork == [pc |-> "idle"]
Actions == {"block", "allow", "redirect", "rate_limit", "alert"}
MaxPriority == 10000

----------------------------------------------------------------------------
(* rule.go                                                                 *)

matchIP(c, ip) ==
  CASE c.op = "cidr" -> ip \in c.val
    [] c.op = "eq"   -> ip = c.val
    [] c.op = "neq"  -> ip # c.val
    [] OTHER         -> FALSE

matchPort(c, port) ==
  CASE c.op = "eq"    -> port = c.val
    [] c.op = "range" -> port >= c.val[1] /\ port <= c.val[2]
    [] c.op = "gt"    -> port > c.val
    [] c.op = "lt"    -> port < c.val
    [] OTHER          -> FALSE

matchUint64(c, v) ==
  CASE c.op = "gt"  -> v > c.val
    [] c.op = "lt"  -> v < c.val
    [] c.op = "eq"  -> v = c.val
    [] c.op = "gte" -> v >= c.val
    [] c.op = "lte" -> v <= c.val
    [] OTHER        -> FALSE

\* A flow has the fields its caller sets; a nil address matches nothing.
\* containsStr compares ",value," with "value" and so is always true.
matchCondition(c, f) ==
  CASE c.type \in {"src_ip", "dst_ip"}     -> c.type \in DOMAIN f /\ matchIP(c, f[c.type])
    [] c.type \in {"src_port", "dst_port"} -> matchPort(c, f[c.type])
    [] c.type = "protocol"                 -> \/ c.op = "eq" /\ f.protocol = c.val
                                              \/ c.op = "in"
    [] c.type \in {"pps", "bps", "threat_score"} -> matchUint64(c, f[c.type])
    [] OTHER                               -> FALSE

\* Rule.Match; an empty cond_logic means AND.
Match(r, f) ==
  /\ r.enabled /\ r.conditions # <<>>
  /\ IF r.logic = "OR" THEN \E i \in DOMAIN r.conditions : matchCondition(r.conditions[i], f)
                       ELSE \A i \in DOMAIN r.conditions : matchCondition(r.conditions[i], f)

Validate(r) ==
  /\ r.priority \in 0..MaxPriority
  /\ r.action \in Actions
  /\ r.conditions # <<>>
  /\ r.logic \in {"", "AND", "OR"}

----------------------------------------------------------------------------
(* Engine.loadRules: the SELECT, then the installation under the lock.     *)

\* Row i comes before row j: ORDER BY priority DESC, created_at ASC.
Before_Ascending(t, i, j) == \/ t[i].rule.priority < t[j].rule.priority
                             \/ t[i].rule.priority = t[j].rule.priority /\ i < j
Before(t, i, j) == \/ t[i].rule.priority > t[j].rule.priority
                   \/ t[i].rule.priority = t[j].rule.priority /\ i < j

Enabled(t) == {i \in DOMAIN t : t[i].rule.enabled}

SelectRules(t) ==
  LET order == SetToSortSeq(Enabled(t), LAMBDA i, j : Before(t, i, j))
  IN  [k \in DOMAIN order |-> [id |-> order[k], rule |-> t[order[k]].rule]]

PolicyInit ==
  /\ table = <<>> /\ rules = <<>>
  /\ admin = [w \in Admins |-> NoWork]
  /\ task = [w \in Evaluators |-> NoWork]
  /\ hitting = <<>>
  /\ blocklist = [a \in Addrs |-> "none"]
  /\ created = 0 /\ requests = 0 /\ jobs = 0
  /\ totalHits = 0 /\ lostHits = 0 /\ synced = TRUE

----------------------------------------------------------------------------
(* REST requests                                                           *)

Evaluation == <<task, hitting, blocklist, jobs, totalHits>>
Serving == {w \in Admins : admin[w].pc # "idle"}

\* A request starts.  `alone': no other request overlaps it (history).
BeginRequest(w, r) ==
  /\ admin[w].pc = "idle" /\ requests < MaxAdminCalls
  /\ requests' = requests + 1
  /\ admin' = [v \in Admins |->
                 IF v = w THEN r @@ [alone |-> Serving = {}]
                 ELSE IF v \in Serving THEN [admin[v] EXCEPT !.alone = FALSE] ELSE NoWork]

AdminGoTo(w, pc) == admin' = [admin EXCEPT ![w].pc = pc] /\ UNCHANGED requests
EndRequest(w) == admin' = [admin EXCEPT ![w] = NoWork] /\ UNCHANGED requests

\* The table changes: the installed list is out of date, and so is what the
\* evaluators picked from it.
ChangeTable(t) ==
  /\ table' = t
  /\ synced' = FALSE
  /\ task' = [e \in Evaluators |-> IF task[e].pc = "idle" THEN NoWork
                                                          ELSE [task[e] EXCEPT !.current = FALSE]]

\* CreateRule: the handler's default priority, Validate, and the INSERT.
CreateRule(w, draft) ==
  LET rule == [draft EXCEPT !.priority = IF @ = 0 THEN 100 ELSE @]
  IN  /\ Validate(rule)
      /\ created < MaxRules
      /\ BeginRequest(w, [pc |-> "select"])
      /\ ChangeTable((created + 1 :> [rule |-> rule, hits |-> 0]) @@ table)
      /\ created' = created + 1
      /\ UNCHANGED <<rules, hitting, blocklist, jobs, totalHits, lostHits>>

\* GetRule searches the installed list and returns a copy.
GetRule(id) == {rules[k].rule : k \in {j \in DOMAIN rules : rules[j].id = id}}

\* The handler UpdateRule: GetRule, then the body of the request.
UpdateRule(w, id, draft) ==
  /\ GetRule(id) # {} /\ Validate(draft)
  /\ BeginRequest(w, [pc |-> "update", id |-> id, rule |-> draft])
  /\ UNCHANGED <<table, rules, Evaluation, created, lostHits, synced>>

\* EnableRule and DisableRule: GetRule's copy with another `enabled'.
setRuleEnabled(w, id, enabled) ==
  \E r \in GetRule(id) :
    /\ BeginRequest(w, [pc |-> "update", id |-> id, rule |-> [r EXCEPT !.enabled = enabled]])
    /\ UNCHANGED <<table, rules, Evaluation, created, lostHits, synced>>

UpdatedRow_WritesHits(w) == [rule |-> admin[w].rule, hits |-> 0]
\* The UPDATE sets every column of the rule but the hit count.
UpdatedRow(w) == [table[admin[w].id] EXCEPT !.rule = admin[w].rule]

\* Engine.UpdateRule's UPDATE; no row affected: "rule not found".
UpdateStatement(w) ==
  /\ admin[w].pc = "update"
  /\ IF admin[w].id \in DOMAIN table
       THEN /\ AdminGoTo(w, "select")
            /\ ChangeTable([table EXCEPT ![admin[w].id] = UpdatedRow(w)])
       ELSE EndRequest(w) /\ UNCHANGED <<table, synced, task>>
  /\ UNCHANGED <<rules, hitting, blocklist, created, jobs, totalHits, lostHits>>

DeleteRule(w, id) ==
  /\ id \in DOMAIN table
  /\ BeginRequest(w, [pc |-> "select"])
  /\ ChangeTable([i \in DOMAIN table \ {id} |-> table[i]])
  /\ lostHits' = lostHits + table[id].hits
  /\ UNCHANGED <<rules, hitting, blocklist, created, jobs, totalHits>>

Reload(w) ==
  /\ BeginRequest(w, [pc |-> "select"])
  /\ UNCHANGED <<table, rules, Evaluation, created, lostHits, synced>>

\* loadRules' query; on an error it returns and the old list stays.
LoadQuery(w) ==
  /\ admin[w].pc = "select"
  /\ \/ /\ admin' = [admin EXCEPT ![w] = [pc |-> "install", list |-> SelectRules(table),
                                          alone |-> admin[w].alone]]
        /\ UNCHANGED requests
     \/ EndRequest(w)
  /\ UNCHANGED <<table, rules, Evaluation, created, lostHits, synced>>

Installed(w) == admin[w].list

LoadInstall(w) ==
  /\ admin[w].pc = "install"
  /\ rules' = Installed(w)
  /\ synced' = admin[w].alone
  /\ EndRequest(w)
  /\ UNCHANGED <<table, Evaluation, created, lostHits>>

----------------------------------------------------------------------------
(* Evaluation                                                              *)

Administration == <<table, rules, admin, created, requests, synced>>

StartJob(e, b) ==
  /\ task[e].pc = "idle" /\ jobs < MaxJobs
  /\ jobs' = jobs + 1
  /\ task' = [task EXCEPT ![e] = [pc |-> "evaluate", todo |-> b.flows, fallback |-> b.fallback,
                                 action |-> "none", current |-> FALSE]]
  /\ UNCHANGED <<Administration, hitting, blocklist, totalHits, lostHits>>

Flow(e) == Head(task[e].todo)
NextFlow(e) ==
  task' = [task EXCEPT ![e] = IF Len(@.todo) = 1 THEN NoWork
                              ELSE [@ EXCEPT !.pc = "evaluate", !.todo = Tail(@)]]

\* The first step of ApplyRule for each action, and PolicyAwareBlock's
\* fallback when no rule matches.
ApplyStep(action, fallback) ==
  CASE action = "block"                   -> "check"
    [] action \in {"allow", "redirect"}   -> "write"
    [] action \in {"alert", "rate_limit"} -> "next"
    [] action = "none"                    -> IF fallback THEN "write" ELSE "next"

FirstMatch(f) == LET k == SelectInSeq(rules, LAMBDA r : Match(r.rule, f))
                 IN  IF k = 0 THEN [id |-> 0, action |-> "none"]
                              ELSE [id |-> rules[k].id, action |-> rules[k].rule.action]

Evaluate(e) ==
  LET hit == FirstMatch(Flow(e))
  IN  /\ task[e].pc = "evaluate"
      /\ totalHits' = totalHits + (IF hit.id = 0 THEN 0 ELSE 1)
      /\ hitting' = IF hit.id = 0 THEN hitting ELSE Append(hitting, hit.id)
      /\ IF ApplyStep(hit.action, task[e].fallback) = "next"
           THEN NextFlow(e)
           ELSE task' = [task EXCEPT ![e].pc = ApplyStep(hit.action, task[e].fallback),
                                     ![e].action = hit.action, ![e].current = synced]
      /\ UNCHANGED <<Administration, blocklist, jobs, lostHits>>

\* Duplicate suppression: any live entry, whatever its action, ends the rule.
IsBlocked(e) ==
  /\ task[e].pc = "check"
  /\ IF blocklist[Flow(e).src_ip] # "none" THEN NextFlow(e)
                                           ELSE task' = [task EXCEPT ![e].pc = "write"]
  /\ UNCHANGED <<Administration, hitting, blocklist, jobs, totalHits, lostHits>>

\* What BlockIPv4 or UnblockIPv4 leaves in the map.
Effect(action) == CASE action = "redirect" -> "redirect"
                    [] action = "allow"    -> "none"
                    [] OTHER               -> "drop"

\* The map write; the rate limiter or the map may refuse it.
BlocklistWrite(e) ==
  /\ task[e].pc = "write"
  /\ \/ blocklist' = [blocklist EXCEPT ![Flow(e).src_ip] = Effect(task[e].action)]
     \/ UNCHANGED blocklist
  /\ NextFlow(e)
  /\ UNCHANGED <<Administration, hitting, jobs, totalHits, lostHits>>

\* A recordHit goroutine: UPDATE ... SET hit_count=hit_count+1 WHERE id=?
recordHit ==
  \E k \in DOMAIN hitting :
    /\ hitting' = RemoveAt(hitting, k)
    /\ IF hitting[k] \in DOMAIN table
         THEN table' = [table EXCEPT ![hitting[k]].hits = @ + 1] /\ UNCHANGED lostHits
         ELSE lostHits' = lostHits + 1 /\ UNCHANGED table
    /\ UNCHANGED <<rules, admin, task, blocklist, created, requests, jobs, totalHits, synced>>

\* An entry reaches its expire_at.
Expire(a) ==
  /\ blocklist[a] # "none"
  /\ blocklist' = [blocklist EXCEPT ![a] = "none"]
  /\ UNCHANGED <<Administration, task, hitting, jobs, totalHits, lostHits>>

\* The process stops and NewEngine loads the rules again; the table stays.
PolicyRestart ==
  /\ Serving # {} \/ hitting # <<>>
  /\ rules' = SelectRules(table)
  /\ admin' = [w \in Admins |-> NoWork]
  /\ task' = [e \in Evaluators |-> NoWork]
  /\ hitting' = <<>>
  /\ lostHits' = lostHits + Len(hitting)
  /\ synced' = TRUE
  /\ UNCHANGED <<table, blocklist, created, requests, jobs, totalHits>>

----------------------------------------------------------------------------
PolicyNext ==
  \/ \E w \in Admins :
       \/ \E d \in Drafts : CreateRule(w, d)
       \/ \E id \in Ids, d \in Drafts : UpdateRule(w, id, d)
       \/ \E id \in Ids, b \in BOOLEAN : setRuleEnabled(w, id, b)
       \/ \E id \in Ids : DeleteRule(w, id)
       \/ Reload(w) \/ UpdateStatement(w) \/ LoadQuery(w) \/ LoadInstall(w)
  \/ \E e \in Evaluators :
       \/ \E b \in FlowBatches : StartJob(e, b)
       \/ Evaluate(e) \/ IsBlocked(e) \/ BlocklistWrite(e)
  \/ recordHit
  \/ \E a \in Addrs : Expire(a)
  \/ PolicyRestart

PolicySpec == PolicyInit /\ [][PolicyNext]_policyVars

----------------------------------------------------------------------------
(* Properties                                                              *)

\* Every variable keeps the shape the code gives it; the rows and the
\* installed copies satisfy Validate and the list holds no rule twice.
PolicyTypeOK ==
  /\ DOMAIN table \subseteq 1..created
  /\ \A i \in DOMAIN table : Validate(table[i].rule) /\ table[i].hits \in 0..totalHits
  /\ \A k \in DOMAIN rules : rules[k].id \in 1..created /\ rules[k].rule.enabled
  /\ \A k, l \in DOMAIN rules : rules[k].id = rules[l].id => k = l
  /\ blocklist \in [Addrs -> {"none", "drop", "redirect"}]
  /\ lostHits \in 0..totalHits

\* The action of the rule that policy asks for: of the enabled rows that
\* match, the one with the highest priority, the oldest first.
PolicyAction(f) ==
  LET m == {i \in Enabled(table) : Match(table[i].rule, f)}
  IN  IF m = {} THEN "none"
      ELSE table[CHOOSE i \in m : \A j \in m \ {i} :
                   \/ table[j].rule.priority < table[i].rule.priority
                   \/ table[j].rule.priority = table[i].rule.priority /\ i < j].rule.action

\* A load that no other request overlaps installs exactly the enabled rows of
\* the table, after failed loads, overtaken loads and restarts as well.
LoadedAloneIsTable ==
  synced => /\ {rules[k].id : k \in DOMAIN rules} = Enabled(table)
            /\ \A k \in DOMAIN rules : rules[k].rule = table[rules[k].id].rule

\* What an evaluator writes to the blocklist is what the highest matching rule
\* of the table asks for, unless the table changed after the evaluation or
\* the list it evaluated was not loaded alone.
WritesFollowPolicy ==
  [][\A e \in Evaluators :
       task[e].pc = "write" /\ task[e].current /\ task'[e] # task[e] /\ blocklist' # blocklist
         => LET act == PolicyAction(Flow(e))
            IN  /\ act \in {"allow", "block", "redirect", "none"}
                /\ act = "none" => task[e].fallback
                /\ blocklist'[Flow(e).src_ip] = (CASE act = "redirect" -> "redirect"
                                                     [] act = "allow"    -> "none"
                                                     [] OTHER          -> "drop")]_policyVars

\* No hit is lost or counted twice while rules are edited: the hit counts of
\* the rows, the hits of deleted rules and the goroutines still to run add up
\* to Engine.totalHits.
HitsConserved ==
  totalHits = lostHits + Len(hitting)
                + MapThenFoldSet(+, 0, LAMBDA i : table[i].hits, LAMBDA S : CHOOSE i \in S : TRUE, DOMAIN table)

\* A deleted rule never comes back to the table: an update that raced the
\* deletion finds no row.
DeletedForGood == [][\A i \in 1..created : i \notin DOMAIN table => i \notin DOMAIN table']_policyVars

\* handlers.go:15, "POST /api/v1/policy/rules/:id/enable -> Enable rule": the
\* rules an administrator can enable are the rows of the table, so GetRule
\* finds each of them when the list is up to date.
EnableFindsRule == synced => \A i \in DOMAIN table : GetRule(i) # {}
=============================================================================
