--------------------------- MODULE HardenedWriter ---------------------------
(***************************************************************************)
(* The write path of bpfmaps/hardening.go: a deduplication cache, a write  *)
(* window and a capacity counter in front of Manager.BlockIPv4, and batch  *)
(* writes with rollback.  Several goroutines call it; others write the     *)
(* same map past it (UnblockIPv4 from the SOC, the expiry sweep).          *)
(*                                                                         *)
(* An entry is what entryFingerprint tells apart; the TTL, which it leaves *)
(* out on purpose, is not modelled, so an expiry is a deletion that may    *)
(* happen at any time.  Manager.BlockIPv4 and UnblockIPv4 may refuse:      *)
(* their own rate limiter, or the map update, fails.                       *)
(***************************************************************************)
EXTENDS Integers, Sequences, FiniteSets

CONSTANTS
  IPs, Entries,
  None,        \* no entry
  Callers,     \* goroutines calling BlockIPv4 or WriteBatch
  Batches,     \* the batches WriteBatch is called with: sequences of <<ip, entry>>
  WindowMax,   \* windowMaxOps
  CapLimit,    \* 95% of blocklistV4Max
  Refusals,    \* how often, in all, the manager refuses a write (bound)
  Outsiders,   \* whether others delete map entries past the writer
  Purges,      \* whether PurgeExpiredDedup runs
  MaxDrift     \* how far below zero the counter is followed (bound)

ASSUME WriterAssumption ==
  /\ None \notin Entries /\ IsFiniteSet(IPs)
  /\ Batches \subseteq Seq(IPs \X Entries) \ {<<>>}
  /\ {WindowMax, CapLimit, Refusals, MaxDrift} \subseteq Nat
  /\ {Outsiders, Purges} \subseteq BOOLEAN

VARIABLES
  map,          \* BLOCKLIST_V4: [IPs -> Entries \cup {None}]
  dedupCache,   \* the fingerprint cached for an address, or None
  count,        \* blocklistV4Count
  windowCount,
  job,          \* what each caller is doing
  refused       \* refusals so far

vars == <<map, dedupCache, count, windowCount, job, refused>>

Slot == Entries \cup {None}

(* A call: the step it is at; the writes it has still to make and the ones   *)
(* it can roll back, with what each replaced; whether its dedup lookup found *)
(* the address, and what the map held then; the map when the call began and  *)
(* the addresses others deleted since (history: they guard nothing).         *)
Call(at, batch, todo, before) ==
  [at |-> at, batch |-> batch, todo |-> todo, log |-> <<>>, found |-> FALSE,
   prev |-> None, before |-> before, gone |-> {}]

NoCall == Call("rest", FALSE, <<>>, [ip \in IPs |-> None])

Ip(c) == job[c].todo[1][1]
Entry(c) == job[c].todo[1][2]
Undone(c) == job[c].log[Len(job[c].log)]

TypeOK ==
  /\ map \in [IPs -> Slot] /\ dedupCache \in [IPs -> Slot]
  /\ count \in Int /\ windowCount \in 0..WindowMax /\ refused \in 0..Refusals
  /\ \A c \in Callers :
       job[c].at \in {"rest", "look", "write", "cache", "undo", "forget", "done", "failed"}

(* The map is pinned: a new writer, whose cache is empty, may find entries.  *)
Init ==
  /\ map \in [IPs -> Slot]
  /\ dedupCache = [ip \in IPs |-> None]
  /\ count = 0
  /\ windowCount = 0
  /\ job = [c \in Callers |-> NoCall]
  /\ refused = 0

Goto(c, at) == job' = [job EXCEPT ![c].at = at]

(* The rest of the call once the first write of todo is settled. *)
Advance(c, log) ==
  job' = [job EXCEPT ![c].todo = Tail(@), ![c].log = log,
                     ![c].at = IF Len(job[c].todo) = 1 THEN "done" ELSE "look"]

(* Manager.BlockIPv4 or UnblockIPv4 returns an error and writes nothing. *)
Refuse == refused < Refusals /\ refused' = refused + 1

-----------------------------------------------------------------------------
(* BlockIPv4 is called for one entry; WriteBatch for several, whose slots in *)
(* the write window it takes at once or else gives up.                       *)
CallBlockIPv4(c) ==
  /\ job[c].at = "rest"
  /\ \E ip \in IPs, e \in Entries :
       job' = [job EXCEPT ![c] = Call("look", FALSE, <<<<ip, e>>>>, map)]
  /\ UNCHANGED <<map, dedupCache, count, windowCount, refused>>

CallWriteBatch(c) ==
  /\ job[c].at = "rest"
  /\ \E b \in Batches :
       /\ windowCount + Len(b) <= WindowMax
       /\ windowCount' = windowCount + Len(b)
       /\ job' = [job EXCEPT ![c] = Call("look", TRUE, b, map)]
  /\ UNCHANGED <<map, dedupCache, count, refused>>

(* The dedup cache holds this very entry: the write is skipped. *)
Skip(c) ==
  /\ job[c].at = "look"
  /\ dedupCache[Ip(c)] = Entry(c)
  /\ Advance(c, job[c].log)
  /\ UNCHANGED <<map, dedupCache, count, windowCount, refused>>

(* A miss.  A single write takes its slot of the window and is refused when  *)
(* the counter is at the limit; a batch looks up what it will replace.       *)
Miss(c) ==
  /\ job[c].at = "look"
  /\ dedupCache[Ip(c)] # Entry(c)
  /\ IF job[c].batch THEN UNCHANGED windowCount
     ELSE windowCount < WindowMax /\ windowCount' = windowCount + 1
  /\ job' = [job EXCEPT ![c].at = IF ~job[c].batch /\ count >= CapLimit THEN "failed" ELSE "write",
                        ![c].found = dedupCache[Ip(c)] # None,
                        ![c].prev = map[Ip(c)]]
  /\ UNCHANGED <<map, dedupCache, count, refused>>

WindowFull(c) ==
  /\ job[c].at = "look" /\ ~job[c].batch
  /\ dedupCache[Ip(c)] # Entry(c)
  /\ windowCount = WindowMax
  /\ Goto(c, "failed")
  /\ UNCHANGED <<map, dedupCache, count, windowCount, refused>>

Write(c) ==
  /\ job[c].at = "write"
  /\ map' = [map EXCEPT ![Ip(c)] = Entry(c)]
  /\ Goto(c, "cache")
  /\ UNCHANGED <<dedupCache, count, windowCount, refused>>

(* The manager refuses: a batch rolls back what it has written. *)
WriteFails(c) ==
  /\ job[c].at = "write"
  /\ Refuse
  /\ Goto(c, IF job[c].batch THEN "undo" ELSE "failed")
  /\ UNCHANGED <<map, dedupCache, count, windowCount>>

(* Mutant: an overwritten entry is counted again. *)
Cache_CountsAll(c) ==
  /\ job[c].at = "cache"
  /\ dedupCache' = [dedupCache EXCEPT ![Ip(c)] = Entry(c)]
  /\ count' = count + 1
  /\ Advance(c, Append(job[c].log, <<Ip(c), job[c].prev>>))
  /\ UNCHANGED <<map, windowCount, refused>>

Cache(c) ==
  /\ job[c].at = "cache"
  /\ dedupCache' = [dedupCache EXCEPT ![Ip(c)] = Entry(c)]
  /\ count' = IF job[c].found THEN count ELSE count + 1
  /\ Advance(c, Append(job[c].log, <<Ip(c), job[c].prev>>))
  /\ UNCHANGED <<map, windowCount, refused>>

-----------------------------------------------------------------------------
(* rollback, newest write first.  An entry that existed is written again; a  *)
(* new one is unblocked and then forgotten by the cache.  Errors of the      *)
(* manager are ignored.                                                      *)

Undid(c) == job' = [job EXCEPT ![c].log = SubSeq(@, 1, Len(@) - 1)]

(* Mutant: an overwritten entry is removed like a new one. *)
Restore_Unblocks(c) ==
  /\ job[c].at = "undo" /\ job[c].log # <<>>
  /\ Undone(c)[2] # None
  /\ map' = [map EXCEPT ![Undone(c)[1]] = None]
  /\ Undid(c)
  /\ UNCHANGED <<dedupCache, count, windowCount, refused>>

Restore(c) ==
  /\ job[c].at = "undo" /\ job[c].log # <<>>
  /\ Undone(c)[2] # None
  /\ \/ map' = [map EXCEPT ![Undone(c)[1]] = Undone(c)[2]] /\ UNCHANGED refused
     \/ Refuse /\ UNCHANGED map
  /\ Undid(c)
  /\ UNCHANGED <<dedupCache, count, windowCount>>

Unblock(c) ==
  /\ job[c].at = "undo" /\ job[c].log # <<>>
  /\ Undone(c)[2] = None
  /\ \/ map' = [map EXCEPT ![Undone(c)[1]] = None] /\ UNCHANGED refused
     \/ Refuse /\ UNCHANGED map
  /\ Goto(c, "forget")
  /\ UNCHANGED <<dedupCache, count, windowCount>>

Forget(c) ==
  /\ job[c].at = "forget"
  /\ dedupCache' = [dedupCache EXCEPT ![Undone(c)[1]] = None]
  /\ count' = count - 1
  /\ job' = [job EXCEPT ![c].log = SubSeq(@, 1, Len(@) - 1), ![c].at = "undo"]
  /\ UNCHANGED <<map, windowCount, refused>>

RolledBack(c) ==
  /\ job[c].at = "undo" /\ job[c].log = <<>>
  /\ Goto(c, "failed")
  /\ UNCHANGED <<map, dedupCache, count, windowCount, refused>>

Return(c) ==
  /\ job[c].at \in {"done", "failed"}
  /\ job' = [job EXCEPT ![c] = NoCall]
  /\ UNCHANGED <<map, dedupCache, count, windowCount, refused>>

-----------------------------------------------------------------------------
(* PurgeExpiredDedup holds dedupMu for the whole pass. *)
PurgeExpiredDedup ==
  LET gone == {ip \in IPs : dedupCache[ip] # None /\ map[ip] = None} IN
  /\ dedupCache' = [ip \in IPs |-> IF ip \in gone THEN None ELSE dedupCache[ip]]
  /\ count' = count - Cardinality(gone)
  /\ count' >= -MaxDrift
  /\ UNCHANGED <<map, windowCount, job, refused>>

(* UnblockIPv4 by another component, or the expiry sweep. *)
DeleteOutside(ip) ==
  /\ map[ip] # None
  /\ map' = [map EXCEPT ![ip] = None]
  /\ job' = [c \in Callers |->
               IF job[c].batch THEN [job[c] EXCEPT !.gone = @ \cup {ip}] ELSE job[c]]
  /\ UNCHANGED <<dedupCache, count, windowCount, refused>>

(* 100 ms have passed since the window began. *)
ResetWindow ==
  /\ windowCount' = 0
  /\ UNCHANGED <<map, dedupCache, count, job, refused>>

Next ==
  \/ \E c \in Callers :
       \/ CallBlockIPv4(c) \/ CallWriteBatch(c)
       \/ Skip(c) \/ Miss(c) \/ WindowFull(c) \/ Write(c) \/ WriteFails(c) \/ Cache(c)
       \/ Restore(c) \/ Unblock(c) \/ Forget(c) \/ RolledBack(c) \/ Return(c)
  \/ Purges /\ PurgeExpiredDedup
  \/ Outsiders /\ \E ip \in IPs : DeleteOutside(ip)
  \/ ResetWindow

Spec == Init /\ [][Next]_vars

-----------------------------------------------------------------------------
Cached == {ip \in IPs : dedupCache[ip] # None}

(* The capacity counter never exceeds the number of addresses the cache      *)
(* knows, through writes, skips, refusals, rollbacks, deletions by others    *)
(* and purges, so BlockIPv4 rejects no write for lack of room too early.  It *)
(* may fall below: a purge between rollback's UnblockIPv4 and its cache      *)
(* update decrements for one address twice.  For one caller.                 *)
CountNeverAbove == count <= Cardinality(Cached)

(* A batch that fails leaves the map as it found it, but that an address     *)
(* others deleted meanwhile may be free: nothing it wrote stays and what it  *)
(* overwrote is back.                                                        *)
(* hardening.go: if any write fails, all already-written entries are rolled  *)
(* back.  It needs rollback's own writes to succeed (Refusals <= 1) and one  *)
(* caller.                                                                   *)
BatchUndone ==
  \A c \in Callers : job[c].batch /\ job[c].at = "failed" =>
    \A ip \in IPs : map[ip] = job[c].before[ip] \/ (ip \in job[c].gone /\ map[ip] = None)

(* A write is skipped only when the map already has that entry. *)
SkipsOnlyPresent ==
  [][\A c \in Callers : Skip(c) => map[Ip(c)] = Entry(c)]_vars
=============================================================================
