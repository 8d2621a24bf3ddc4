------------------------------- MODULE MapOps -------------------------------
(***************************************************************************)
(* The blocklist operations of bpfmaps.Manager: each takes a token of its  *)
(* kind (ratelimiter.go), writes a map, and appends an audit record        *)
(* (audit.go), three steps under no common lock, while the expiry daemon   *)
(* walks the same maps.  Callers are the SOC's block, unblock and redirect *)
(* handlers and the engines inside falxd, single or in a batch.            *)
(*                                                                         *)
(* Time is counted in ticks, Second of them to a second, from RelMax, the  *)
(* value below which ExpireAt is read as relative.  Tokens are counted in  *)
(* parts, Second of them to a token, so that one tick refills Rps parts.   *)
(* The maps are LRU hashes far larger than the addresses in play.          *)
(***************************************************************************)
EXTENDS Naturals, Sequences, FiniteSets

CONSTANTS V4, V6,    \* addresses
          Callers,
          Rps,       \* operations per second of a kind, also its burst
          Second, Day, RelMax,
          MaxOps, MaxTime, MaxAborts   \* bounds: operations, clock, failed walks

\* A day is a time a relative ExpireAt can tell.
ASSUME MapAssumption == Rps \in Nat /\ Second \in Nat /\ RelMax \in Nat /\ Day \in 1..(RelMax - 1)

IPs == V4 \cup V6
Kinds == {"block", "unblock"}
None == [exp |-> 0, by |-> "none"]
NoRec == [op |-> "none", exp |-> 0]
\* Who asks for which TTL: none, a short one, and one so long that it is
\* read as a date.
Asks == {<<"analyst", 0>>, <<"engine", 0>>, <<"engine", 1>>, <<"engine", RelMax>>}
Idle == [step |-> "idle", kind |-> "none", todo |-> <<>>, ttl |-> 0, by |-> "none", ok |-> FALSE, exp |-> 0]
NoSweep == [step |-> "idle", now |-> 0, left |-> {}, doomed |-> {}]

VARIABLES now, tokens, lastRefill, bl, job, rec, sweep, ops, aborts,
          grants,   \* history: times at which Allow said yes, per kind
          promise,  \* history: [live, until] of the last successful block, until 0 = for ever
          raced,    \* history: addresses deleted by a sweep after they were written again
          over,     \* history: addresses written between another caller's write and its record
          lost      \* history: addresses with a record that was not written

limiter == <<tokens, lastRefill, grants>>
hist == <<promise, raced, over, lost>>
vars == <<now, limiter, bl, job, rec, sweep, ops, aborts, hist>>

Init == /\ now = RelMax /\ ops = 0 /\ aborts = 0
        /\ tokens = [k \in Kinds |-> Rps * Second] /\ lastRefill = [k \in Kinds |-> RelMax]
        /\ bl = [i \in IPs |-> None] /\ rec = [i \in IPs |-> NoRec]
        /\ job = [c \in Callers |-> Idle] /\ sweep = NoSweep
        /\ grants = [k \in Kinds |-> <<>>]
        /\ promise = [i \in IPs |-> [live |-> FALSE, until |-> 0]]
        /\ raced = {} /\ over = {} /\ lost = {}

SetJob(c, j) == job' = [job EXCEPT ![c] = j]
Ip(c) == Head(job[c].todo)

\* BlockIP of the SOC: an analyst blocks for a day at most, and never for good.
Clamp(by, ttl) == IF by = "analyst" /\ (ttl = 0 \/ ttl > Day) THEN Day ELSE ttl

----------------------------------------------------------------------------
(* tokenBucket.Allow, under the bucket's mutex                             *)

Refilled(k) == LET t == tokens[k] + (now - lastRefill[k]) * Rps
               IN  IF t > Rps * Second THEN Rps * Second ELSE t

Allow_AnyPart(k) == Refilled(k) > 0
Allow(k) == Refilled(k) >= Second

\* What is left to do: nothing when the address is not of the family asked for,
\* as an IPv6 address given to the SOC's handlers.
Job(k, ips, ttl, by) ==
  IF ips = <<>> THEN Idle
  ELSE [Idle EXCEPT !.step = "write", !.kind = k, !.todo = ips, !.ttl = Clamp(by, ttl), !.by = by]

\* An operation is called: the limiter is asked first, before the address is
\* even looked at.  The record of a refusal tells of no change: rec, the last
\* record of a success, leaves it out.
Call(c, k, ips, ttl, by) ==
  /\ job[c] = Idle /\ ops < MaxOps
  /\ ops' = ops + 1
  /\ lastRefill' = [lastRefill EXCEPT ![k] = now]
  /\ \/ /\ Allow(k)
        /\ tokens' = [tokens EXCEPT ![k] = Refilled(k) - Second]
        /\ grants' = [grants EXCEPT ![k] = Append(@, now)]
        /\ SetJob(c, Job(k, ips, ttl, by))
     \/ /\ ~Allow(k)
        /\ tokens' = [tokens EXCEPT ![k] = Refilled(k)]
        /\ UNCHANGED <<grants, job>>
  /\ UNCHANGED <<now, bl, rec, sweep, aborts, hist>>

----------------------------------------------------------------------------
(* The map write and the record                                            *)

Absolute_AsGiven(ttl) == ttl
\* A small ExpireAt is relative; 0 is permanent; a large one is a date.
Absolute(ttl) == IF ttl > 0 /\ ttl < RelMax THEN now + ttl ELSE ttl

\* History: another caller is between its write and its record.
Overlaps(c) == IF \E d \in Callers \ {c} : job[d].step = "log" /\ Ip(d) = Ip(c)
               THEN over \cup {Ip(c)} ELSE over

Wrote(c, ok, exp) == SetJob(c, [job[c] EXCEPT !.step = "log", !.ok = ok, !.exp = exp])

BlockWrite(c) ==
  LET exp == Absolute(job[c].ttl)
  IN  /\ job[c].step = "write" /\ job[c].kind = "block"
      /\ Wrote(c, TRUE, exp)
      /\ bl' = [bl EXCEPT ![Ip(c)] = [exp |-> exp, by |-> job[c].by]]
      /\ promise' = [promise EXCEPT ![Ip(c)] = [live |-> job[c].ttl < RelMax,
                       until |-> IF job[c].ttl = 0 THEN 0 ELSE now + job[c].ttl]]
      /\ raced' = raced \ {Ip(c)} /\ over' = Overlaps(c)
      /\ UNCHANGED <<now, limiter, rec, sweep, ops, aborts, lost>>

\* Delete fails when there is no entry.
UnblockWrite(c) ==
  /\ job[c].step = "write" /\ job[c].kind = "unblock"
  /\ Wrote(c, bl[Ip(c)] # None, 0)
  /\ bl' = [bl EXCEPT ![Ip(c)] = None]
  /\ promise' = [promise EXCEPT ![Ip(c)].live = FALSE]
  /\ over' = Overlaps(c)
  /\ UNCHANGED <<now, limiter, rec, sweep, ops, aborts, raced, lost>>

\* Update returns an error, which is recorded as well.
WriteFails(c) ==
  /\ job[c].step = "write" /\ job[c].kind = "block"
  /\ Wrote(c, FALSE, Absolute(job[c].ttl))
  /\ UNCHANGED <<now, limiter, bl, rec, sweep, ops, aborts, hist>>

AfterLog(c) == IF Len(job[c].todo) = 1 THEN Idle
               ELSE [job[c] EXCEPT !.step = "write", !.todo = Tail(@)]

Record_AsAsked(c) == [op |-> job[c].kind, exp |-> job[c].ttl]
\* LogBlockIP is given the entry with its absolute expiry.
Record(c) == [op |-> job[c].kind, exp |-> job[c].exp]

\* Log: the file, where an error is only reported.  The channel that gets a
\* copy is never read, and full it drops.
Log(c) ==
  /\ job[c].step = "log"
  /\ \/ rec' = (IF job[c].ok THEN [rec EXCEPT ![Ip(c)] = Record(c)] ELSE rec) /\ UNCHANGED lost
     \/ UNCHANGED rec /\ lost' = (IF job[c].ok THEN lost \cup {Ip(c)} ELSE lost)
  /\ SetJob(c, AfterLog(c))
  /\ UNCHANGED <<now, limiter, bl, sweep, ops, aborts, promise, raced, over>>

----------------------------------------------------------------------------
(* ExpiryDaemon.sweep: the IPv4 map, then the IPv6 map                     *)

Expired(e, t) == e # None /\ e.exp # 0 /\ t >= e.exp

Sweep == /\ sweep = NoSweep
         /\ sweep' = [step |-> "v4", now |-> now, left |-> V4, doomed |-> {}]
         /\ UNCHANGED <<now, limiter, bl, job, rec, ops, aborts, hist>>

\* iter.Next
Visit(i) == /\ i \in sweep.left
            /\ sweep' = [sweep EXCEPT !.left = @ \ {i},
                           !.doomed = IF Expired(bl[i], sweep.now) THEN @ \cup {i} ELSE @]
            /\ UNCHANGED <<now, limiter, bl, job, rec, ops, aborts, hist>>

\* iter.Err: the walk is given up, and with it what it had collected.
Abort == /\ sweep.left # {} /\ aborts < MaxAborts
         /\ aborts' = aborts + 1 /\ sweep' = [sweep EXCEPT !.left = {}, !.doomed = {}]
         /\ UNCHANGED <<now, limiter, bl, job, rec, ops, hist>>

SweepDelete(i) ==
  /\ sweep.step # "idle" /\ sweep.left = {} /\ i \in sweep.doomed
  /\ sweep' = [sweep EXCEPT !.doomed = @ \ {i}]
  /\ bl' = [bl EXCEPT ![i] = None]
  /\ raced' = IF bl[i] # None /\ ~(bl[i].exp # 0 /\ sweep.now >= bl[i].exp) THEN raced \cup {i} ELSE raced
  /\ UNCHANGED <<now, limiter, job, rec, ops, aborts, promise, over, lost>>

SweepNext_V4Only == NoSweep
SweepNext == IF sweep.step = "v4" THEN [sweep EXCEPT !.step = "v6", !.left = V6] ELSE NoSweep

SweepDone == /\ sweep.step # "idle" /\ sweep.left = {} /\ sweep.doomed = {}
             /\ sweep' = SweepNext
             /\ UNCHANGED <<now, limiter, bl, job, rec, ops, aborts, hist>>

Clock == /\ now < RelMax + MaxTime /\ now' = now + 1
         /\ UNCHANGED <<limiter, bl, job, rec, sweep, ops, aborts, hist>>

Step(c) == BlockWrite(c) \/ UnblockWrite(c) \/ WriteFails(c) \/ Log(c)

\* A caller between two calls remembers nothing: any idle one stands for all.
Idler == CHOOSE c \in Callers : job[c] = Idle

Next ==
  \/ /\ \E c \in Callers : job[c] = Idle
     /\ \/ \E i \in IPs, a \in Asks : /\ a[1] = "analyst" => i \in V4
                                    /\ Call(Idler, "block", <<i>>, a[2], a[1])
        \/ \E k \in Kinds : Call(Idler, k, <<>>, 0, "soc")
        \/ \E i \in IPs : Call(Idler, "unblock", <<i>>, 0, "soc")
        \/ \E i, j \in V4 : Call(Idler, "block", <<i, j>>, 1, "engine")
  \/ \E c \in Callers : Step(c)
  \/ Sweep \/ SweepDone \/ Abort \/ \E i \in IPs : Visit(i) \/ SweepDelete(i)
  \/ Clock

\* The sweep's ticker keeps firing and the daemon is never starved.
Fairness == /\ WF_vars(Sweep) /\ WF_vars(SweepDone)
            /\ \A i \in IPs : WF_vars(Visit(i)) /\ WF_vars(SweepDelete(i))

Spec == Init /\ [][Next]_vars /\ Fairness

----------------------------------------------------------------------------
TypeOK ==
  /\ now \in RelMax..(RelMax + MaxTime) /\ ops \in 0..MaxOps
  /\ tokens \in [Kinds -> 0..(Rps * Second)] /\ lastRefill \in [Kinds -> RelMax..now]
  /\ \A i \in IPs : bl[i].by \in {"none", "analyst", "engine"} /\ bl[i].exp \in Nat
  /\ \A c \in Callers : job[c].step \in {"idle", "write", "log"} /\ (job[c].todo = <<>> <=> job[c].step = "idle")
  /\ sweep.step \in {"idle", "v4", "v6"} /\ sweep.doomed \subseteq IPs /\ sweep.left \subseteq IPs
  /\ raced \subseteq IPs /\ over \subseteq IPs /\ lost \subseteq IPs

(* Over any stretch of time, whatever the refusals in it, a kind is        *)
(* granted at most its burst and what the stretch refills (Allow refills   *)
(* and restamps on every call).                                            *)
RateBound ==
  \A k \in Kinds : \A i, j \in DOMAIN grants[k] :
    i <= j => (j - i + 1) * Second <= Rps * Second + (grants[k][j] - grants[k][i]) * Rps

(* The audit log alone tells what is blocked: the last record of an        *)
(* address with no operation in flight is a block with the expiry of the   *)
(* entry, or, when there is no entry, an unblock or a block that has run   *)
(* out.  Not for an address two callers wrote at a time, one whose record  *)
(* the disk refused, or one a sweep deleted after it was written again.    *)
AuditTells ==
  \A i \in IPs \ (over \cup lost \cup raced) :
    (\A c \in Callers : ~(job[c].step = "log" /\ Ip(c) = i))
    => IF bl[i] # None THEN rec[i] = [op |-> "block", exp |-> bl[i].exp]
       ELSE rec[i].op = "block" => rec[i].exp # 0 /\ now >= rec[i].exp

(* What an analyst blocks is unblocked again within a day (the clamp of    *)
(* SecurityHandler.BlockIP, then BlockIPv4's conversion of the TTL).       *)
AnalystTemporary ==
  \A i \in IPs : bl[i].by = "analyst" => bl[i].exp # 0 /\ bl[i].exp <= now + Day

(* A block that was written holds until the TTL asked for is over, or for  *)
(* ever, unless it is lifted or a sweep that had collected the address     *)
(* before deletes it (BlockIPv4, IsBlockedIPv4, sweepBlocklistV4).         *)
BlockHolds ==
  \A i \in IPs \ raced :
    promise[i].live /\ (promise[i].until = 0 \/ now < promise[i].until)
    => bl[i] # None /\ ~(bl[i].exp # 0 /\ now >= bl[i].exp)

(* An entry that has run out leaves its map, IPv6 ones and after failed    *)
(* walks too: the sweep of one family never stands in the way of the next. *)
ExpiredRemoved == \A i \in IPs : bl[i].exp # 0 /\ now >= bl[i].exp ~> ~(bl[i].exp # 0 /\ now >= bl[i].exp)
=============================================================================
