------------------------ MODULE HardenedWriter_proofs ------------------------
(***************************************************************************)
(* Proofs about HardenedWriter, for one caller, any addresses, entries and *)
(* batches, and every size of the write window and of the map.             *)
(***************************************************************************)
EXTENDS HardenedWriter, FiniteSetTheorems, SequenceTheorems, TLAPS

-----------------------------------------------------------------------------
(* What a call holds                                                         *)

Pending == IPs \X Entries
Logged == IPs \X Slot
Table == [IPs -> Slot]
Steps == {"rest", "look", "write", "cache", "undo", "forget", "done", "failed"}
CallRec == [at : Steps, batch : BOOLEAN, todo : Seq(Pending), log : Seq(Logged), found : BOOLEAN,
            prev : Slot, before : Table, gone : SUBSET IPs]

(* A call between its lookup and its cache update has a write to make, and   *)
(* one between UnblockIPv4 and forgetting the address a write to undo.       *)
WriterTyped ==
  /\ map \in Table /\ dedupCache \in Table /\ count \in Int /\ refused \in Nat
  /\ job \in [Callers -> CallRec]
  /\ \A c \in Callers : /\ job[c].at \in {"look", "write", "cache"} => job[c].todo # <<>>
                        /\ job[c].at = "forget" => job[c].log # <<>>

(* The call of c goes on; whether it is a batch, and the history, stay. *)
Becomes(c, at, todo, log, found, prev) ==
  /\ job' \in [Callers -> CallRec]
  /\ job'[c].at = at /\ job'[c].todo = todo /\ job'[c].log = log
  /\ job'[c].found = found /\ job'[c].prev = prev
  /\ job'[c].batch = job[c].batch /\ job'[c].before = job[c].before /\ job'[c].gone = job[c].gone
  /\ \A e \in Callers \ {c} : job'[e] = job[e]

(* Setting fields of a call changes these fields and nothing else. *)
LEMMA CallUpdate ==
  ASSUME job \in [Callers -> CallRec], NEW c \in Callers,
         NEW at \in Steps, NEW todo \in Seq(Pending), NEW log \in Seq(Logged),
         NEW found \in BOOLEAN, NEW prev \in Slot,
         \/ job' = [job EXCEPT ![c].at = at] /\ todo = job[c].todo /\ log = job[c].log
              /\ found = job[c].found /\ prev = job[c].prev
         \/ job' = [job EXCEPT ![c].todo = todo, ![c].log = log, ![c].at = at]
              /\ found = job[c].found /\ prev = job[c].prev
         \/ job' = [job EXCEPT ![c].at = at, ![c].found = found, ![c].prev = prev]
              /\ todo = job[c].todo /\ log = job[c].log
         \/ job' = [job EXCEPT ![c].log = log] /\ at = job[c].at /\ todo = job[c].todo
              /\ found = job[c].found /\ prev = job[c].prev
         \/ job' = [job EXCEPT ![c].log = log, ![c].at = at] /\ todo = job[c].todo
              /\ found = job[c].found /\ prev = job[c].prev
  PROVE  Becomes(c, at, todo, log, found, prev)
<1>0. job[c] \in CallRec
  OBVIOUS
<1> DEFINE Is(r) == /\ r \in CallRec /\ r.at = at /\ r.todo = todo /\ r.log = log
                    /\ r.found = found /\ r.prev = prev /\ r.batch = job[c].batch
                    /\ r.before = job[c].before /\ r.gone = job[c].gone
<1>1. CASE job' = [job EXCEPT ![c].at = at] /\ todo = job[c].todo /\ log = job[c].log
           /\ found = job[c].found /\ prev = job[c].prev
  <2> DEFINE r == [job[c] EXCEPT !.at = at]
  <2>1. Is(r)
    BY <1>0, <1>1, Zenon DEF CallRec
  <2>2. job' = [job EXCEPT ![c] = r]
    BY <1>1
  <2> HIDE DEF r
  <2>3. job' \in [Callers -> CallRec] /\ job'[c] = r /\ \A e \in Callers \ {c} : job'[e] = job[e]
    BY <2>1, <2>2
  <2> QED BY <2>1, <2>3 DEF Becomes
<1>2. CASE job' = [job EXCEPT ![c].todo = todo, ![c].log = log, ![c].at = at]
           /\ found = job[c].found /\ prev = job[c].prev
  <2> DEFINE r == [job[c] EXCEPT !.todo = todo, !.log = log, !.at = at]
  <2>1. Is(r)
    BY <1>0, <1>2, Zenon DEF CallRec
  <2>2. job' = [job EXCEPT ![c] = r]
    BY <1>2, Zenon
  <2> HIDE DEF r
  <2>3. job' \in [Callers -> CallRec] /\ job'[c] = r /\ \A e \in Callers \ {c} : job'[e] = job[e]
    BY <2>1, <2>2
  <2> QED BY <2>1, <2>3 DEF Becomes
<1>3. CASE job' = [job EXCEPT ![c].at = at, ![c].found = found, ![c].prev = prev]
           /\ todo = job[c].todo /\ log = job[c].log
  <2> DEFINE r == [job[c] EXCEPT !.at = at, !.found = found, !.prev = prev]
  <2>1. Is(r)
    BY <1>0, <1>3, Zenon DEF CallRec
  <2>2. job' = [job EXCEPT ![c] = r]
    BY <1>3, Zenon
  <2> HIDE DEF r
  <2>3. job' \in [Callers -> CallRec] /\ job'[c] = r /\ \A e \in Callers \ {c} : job'[e] = job[e]
    BY <2>1, <2>2
  <2> QED BY <2>1, <2>3 DEF Becomes
<1>4. CASE job' = [job EXCEPT ![c].log = log] /\ at = job[c].at /\ todo = job[c].todo
           /\ found = job[c].found /\ prev = job[c].prev
  <2> DEFINE r == [job[c] EXCEPT !.log = log]
  <2>1. Is(r)
    BY <1>0, <1>4, Zenon DEF CallRec
  <2>2. job' = [job EXCEPT ![c] = r]
    BY <1>4
  <2> HIDE DEF r
  <2>3. job' \in [Callers -> CallRec] /\ job'[c] = r /\ \A e \in Callers \ {c} : job'[e] = job[e]
    BY <2>1, <2>2
  <2> QED BY <2>1, <2>3 DEF Becomes
<1>5. CASE job' = [job EXCEPT ![c].log = log, ![c].at = at] /\ todo = job[c].todo
           /\ found = job[c].found /\ prev = job[c].prev
  <2> DEFINE r == [job[c] EXCEPT !.log = log, !.at = at]
  <2>1. Is(r)
    BY <1>0, <1>5, Zenon DEF CallRec
  <2>2. job' = [job EXCEPT ![c] = r]
    BY <1>5, Zenon
  <2> HIDE DEF r
  <2>3. job' \in [Callers -> CallRec] /\ job'[c] = r /\ \A e \in Callers \ {c} : job'[e] = job[e]
    BY <2>1, <2>2
  <2> QED BY <2>1, <2>3 DEF Becomes
<1> QED BY <1>1, <1>2, <1>3, <1>4, <1>5, Zenon

(* What each step of a call does to it. *)
LEMMA CallSteps ==
  ASSUME WriterTyped, NEW c \in Callers
  PROVE  /\ job[c].at \in {"look", "write", "cache"} => Ip(c) \in IPs /\ Entry(c) \in Entries
         /\ job[c].log # <<>> => Undone(c)[1] \in IPs /\ Undone(c)[2] \in Slot
         /\ \A s \in Steps : Goto(c, s) =>
              Becomes(c, s, job[c].todo, job[c].log, job[c].found, job[c].prev)
         /\ Skip(c) => \E s \in {"look", "done"} :
              /\ Becomes(c, s, Tail(job[c].todo), job[c].log, job[c].found, job[c].prev)
              /\ s = "look" => Tail(job[c].todo) # <<>>
         /\ Miss(c) => \E s \in {"write", "failed"} :
              /\ Becomes(c, s, job[c].todo, job[c].log, dedupCache[Ip(c)] # None, map[Ip(c)])
              /\ job[c].batch => s = "write"
         /\ Cache(c) => \E s \in {"look", "done"} :
              /\ Becomes(c, s, Tail(job[c].todo), Append(job[c].log, <<Ip(c), job[c].prev>>),
                         job[c].found, job[c].prev)
              /\ s = "look" => Tail(job[c].todo) # <<>>
         /\ job[c].log # <<>> /\ Undid(c) =>
              Becomes(c, job[c].at, job[c].todo, SubSeq(job[c].log, 1, Len(job[c].log) - 1),
                      job[c].found, job[c].prev)
         /\ Forget(c) =>
              Becomes(c, "undo", job[c].todo, SubSeq(job[c].log, 1, Len(job[c].log) - 1),
                      job[c].found, job[c].prev)
<1> DEFINE j == job[c]
<1>1. /\ job \in [Callers -> CallRec] /\ j \in CallRec
      /\ j.at \in {"look", "write", "cache"} => j.todo # <<>>
      /\ j.at = "forget" => j.log # <<>>
  BY DEF WriterTyped
<1>2. /\ j.at \in Steps /\ j.todo \in Seq(Pending) /\ j.log \in Seq(Logged) /\ j.found \in BOOLEAN
      /\ j.prev \in Slot /\ j.batch \in BOOLEAN
  BY <1>1 DEF CallRec
<1>3. j.todo # <<>> => Ip(c) \in IPs /\ Entry(c) \in Entries
  <2> SUFFICES ASSUME j.todo # <<>> PROVE Ip(c) \in IPs /\ Entry(c) \in Entries
    OBVIOUS
  <2>1. j.todo[1] \in Pending
    BY <1>2
  <2> QED BY <2>1 DEF Ip, Entry, Pending
<1>4. j.log # <<>> => Undone(c)[1] \in IPs /\ Undone(c)[2] \in Slot
  <2> SUFFICES ASSUME j.log # <<>> PROVE Undone(c)[1] \in IPs /\ Undone(c)[2] \in Slot
    OBVIOUS
  <2>1. Undone(c) \in Logged
    BY <1>2 DEF Undone
  <2> QED BY <2>1 DEF Logged
<1>5. ASSUME NEW s \in Steps, Goto(c, s)
      PROVE  Becomes(c, s, job[c].todo, job[c].log, job[c].found, job[c].prev)
  BY <1>1, <1>2, <1>5, CallUpdate, Zenon DEF Goto
<1>6. ASSUME NEW log \in Seq(Logged), Advance(c, log), j.at \in {"look", "cache"}
      PROVE  \E s \in {"look", "done"} :
               /\ Becomes(c, s, Tail(job[c].todo), log, job[c].found, job[c].prev)
               /\ s = "look" => Tail(job[c].todo) # <<>>
  <2>1. PICK s \in {"look", "done"} :
          /\ s = IF Len(j.todo) = 1 THEN "done" ELSE "look"
          /\ job' = [job EXCEPT ![c].todo = Tail(j.todo), ![c].log = log, ![c].at = s]
    BY <1>6, <1>1, Zenon DEF Advance
  <2>2. Tail(j.todo) \in Seq(Pending) /\ (s = "look" => Tail(j.todo) # <<>>)
    <3>1. j.todo # <<>> /\ j.todo \in Seq(Pending)
      BY <1>1, <1>2, <1>6
    <3>2. Tail(j.todo) \in Seq(Pending) /\ Len(Tail(j.todo)) = Len(j.todo) - 1 /\ Len(j.todo) \in Nat \ {0}
      BY <3>1, HeadTailProperties
    <3>3. PICK t \in Seq(Pending) : t = Tail(j.todo)
      BY <3>2, Zenon
    <3>4. Len(j.todo) # 1 => Len(t) # 0
      BY <3>2, <3>3
    <3>5. Len(j.todo) # 1 => t # <<>>
      BY <3>4, EmptySeq
    <3> QED BY <2>1, <3>3, <3>5
  <2>3. s \in Steps
    BY DEF Steps
  <2> HIDE DEF j
  <2>4. Becomes(c, s, Tail(j.todo), log, job[c].found, job[c].prev)
    BY <1>1, <1>2, <2>1, <2>2, <2>3, CallUpdate, Zenon DEF j
  <2> QED BY <2>2, <2>4 DEF j
<1>7. ASSUME Skip(c)
      PROVE  \E s \in {"look", "done"} :
               /\ Becomes(c, s, Tail(job[c].todo), job[c].log, job[c].found, job[c].prev)
               /\ s = "look" => Tail(job[c].todo) # <<>>
  BY <1>2, <1>6, <1>7 DEF Skip
<1>8. ASSUME Cache(c)
      PROVE  \E s \in {"look", "done"} :
               /\ Becomes(c, s, Tail(job[c].todo), Append(job[c].log, <<Ip(c), job[c].prev>>),
                          job[c].found, job[c].prev)
               /\ s = "look" => Tail(job[c].todo) # <<>>
  <2>1. <<Ip(c), j.prev>> \in Logged
    BY <1>1, <1>2, <1>3, <1>8 DEF Cache, Logged
  <2>2. Append(j.log, <<Ip(c), j.prev>>) \in Seq(Logged)
    BY <1>2, <2>1, AppendProperties
  <2> QED BY <1>6, <1>8, <2>2, Zenon DEF Cache
<1>9. ASSUME Miss(c)
      PROVE  \E s \in {"write", "failed"} :
               /\ Becomes(c, s, job[c].todo, job[c].log, dedupCache[Ip(c)] # None, map[Ip(c)])
               /\ job[c].batch => s = "write"
  <2>1. PICK s \in {"write", "failed"}, f \in BOOLEAN, v \in Slot :
          /\ s = IF ~job[c].batch /\ count >= CapLimit THEN "failed" ELSE "write"
          /\ f = (dedupCache[Ip(c)] # None) /\ v = map[Ip(c)]
    <3>1. map[Ip(c)] \in Slot
      BY <1>1, <1>3, <1>9 DEF Miss, WriterTyped, Table
    <3> QED BY <3>1, Zenon
  <2>2. job' = [job EXCEPT ![c].at = s, ![c].found = f, ![c].prev = v]
    BY <1>9, <2>1 DEF Miss
  <2>3. s \in Steps /\ (job[c].batch => s = "write")
    BY <2>1 DEF Steps
  <2>4. Becomes(c, s, job[c].todo, job[c].log, f, v)
    BY <1>1, <1>2, <2>2, <2>3, CallUpdate, Zenon
  <2>5. Becomes(c, s, job[c].todo, job[c].log, dedupCache[Ip(c)] # None, map[Ip(c)])
    BY <2>1, <2>4 DEF Becomes
  <2> QED BY <2>3, <2>5
<1>10. ASSUME j.log # <<>>
       PROVE  SubSeq(j.log, 1, Len(j.log) - 1) \in Seq(Logged)
  BY <1>2, <1>10, SubSeqProperties
<1>11. ASSUME j.log # <<>>, Undid(c)
       PROVE  Becomes(c, job[c].at, job[c].todo, SubSeq(job[c].log, 1, Len(job[c].log) - 1),
                      job[c].found, job[c].prev)
  <2>1. PICK l \in Seq(Logged) : l = SubSeq(j.log, 1, Len(j.log) - 1)
    BY <1>10, <1>11, Zenon
  <2>2. job' = [job EXCEPT ![c].log = l]
    BY <1>11, <1>1, <2>1 DEF Undid
  <2>3. Becomes(c, job[c].at, job[c].todo, l, job[c].found, job[c].prev)
    BY <1>1, <1>2, <2>2, CallUpdate, Zenon
  <2> QED BY <2>1, <2>3
<1>12. ASSUME Forget(c)
       PROVE  Becomes(c, "undo", job[c].todo, SubSeq(job[c].log, 1, Len(job[c].log) - 1),
                      job[c].found, job[c].prev)
  <2>1. PICK l \in Seq(Logged) : l = SubSeq(j.log, 1, Len(j.log) - 1)
    BY <1>1, <1>10, <1>12, Zenon DEF Forget
  <2>2. job' = [job EXCEPT ![c].log = l, ![c].at = "undo"] /\ "undo" \in Steps
    BY <1>12, <1>1, <2>1 DEF Forget, Steps
  <2>3. Becomes(c, "undo", job[c].todo, l, job[c].found, job[c].prev)
    BY <1>1, <1>2, <2>2, CallUpdate, Zenon
  <2> QED BY <2>1, <2>3
<1> QED BY <1>1, <1>3, <1>4, <1>5, <1>7, <1>8, <1>9, <1>11, <1>12

(* A new call, or none. *)
LEMMA NewCall ==
  ASSUME WriterTyped, NEW c \in Callers, NEW at \in Steps, NEW batch \in BOOLEAN,
         NEW todo \in Seq(Pending), NEW before \in Table,
         job' = [job EXCEPT ![c] = Call(at, batch, todo, before)]
  PROVE  /\ job' \in [Callers -> CallRec]
         /\ job'[c].at = at /\ job'[c].batch = batch /\ job'[c].todo = todo /\ job'[c].log = <<>>
         /\ job'[c].before = before /\ job'[c].found = FALSE
         /\ \A e \in Callers \ {c} : job'[e] = job[e]
<1> DEFINE r == Call(at, batch, todo, before)
<1>1. None \in Slot /\ <<>> \in Seq(Logged)
  BY EmptySeq DEF Slot
<1>2. r \in CallRec
  BY <1>1 DEF Call, CallRec
<1>3. r.at = at /\ r.batch = batch /\ r.todo = todo /\ r.log = <<>> /\ r.before = before /\ r.found = FALSE
  BY DEF Call
<1> HIDE DEF r
<1>4. job' = [job EXCEPT ![c] = r] /\ job \in [Callers -> CallRec]
  BY DEF r, WriterTyped
<1> QED BY <1>2, <1>3, <1>4

(* The calls that begin and end, by what they do to the call of c. *)
LEMMA CallBounds ==
  ASSUME WriterTyped, NEW c \in Callers, CallBlockIPv4(c) \/ CallWriteBatch(c) \/ Return(c)
  PROVE  /\ job' \in [Callers -> CallRec] /\ job'[c].at \in {"rest", "look"}
         /\ job'[c].at = "look" => job'[c].todo # <<>>
         /\ job'[c].log = <<>> /\ job'[c].found = FALSE
         /\ job'[c].batch => job'[c].before = map
         /\ \A e \in Callers \ {c} : job'[e] = job[e]
         /\ UNCHANGED <<map, dedupCache, count, refused>>
<1>0. map \in Table /\ "look" \in Steps /\ "rest" \in Steps
  BY DEF WriterTyped, Steps
<1>1. CASE CallBlockIPv4(c)
  <2>1. PICK ip \in IPs, e \in Entries : job' = [job EXCEPT ![c] = Call("look", FALSE, <<<<ip, e>>>>, map)]
    BY <1>1, Zenon DEF CallBlockIPv4
  <2>2. PICK t : t = <<<<ip, e>>>>
    BY Zenon
  <2>3. t \in Seq(Pending) /\ t # <<>>
    BY <2>2 DEF Pending
  <2>4. job' = [job EXCEPT ![c] = Call("look", FALSE, t, map)]
    BY <2>1, <2>2
  <2>5. /\ job' \in [Callers -> CallRec]
        /\ job'[c].at = "look" /\ job'[c].batch = FALSE /\ job'[c].todo = t /\ job'[c].log = <<>>
        /\ job'[c].before = map /\ job'[c].found = FALSE
        /\ \A z \in Callers \ {c} : job'[z] = job[z]
    BY <1>0, <2>3, <2>4, NewCall, Zenon
  <2>6. UNCHANGED <<map, dedupCache, count, refused>>
    BY <1>1 DEF CallBlockIPv4
  <2> QED BY <2>3, <2>5, <2>6
<1>2. CASE CallWriteBatch(c)
  <2>1. PICK t \in Batches : job' = [job EXCEPT ![c] = Call("look", TRUE, t, map)]
    BY <1>2, Zenon DEF CallWriteBatch
  <2>2. t \in Seq(Pending) /\ t # <<>>
    BY WriterAssumption DEF Pending
  <2>3. /\ job' \in [Callers -> CallRec]
        /\ job'[c].at = "look" /\ job'[c].batch = TRUE /\ job'[c].todo = t /\ job'[c].log = <<>>
        /\ job'[c].before = map /\ job'[c].found = FALSE
        /\ \A e \in Callers \ {c} : job'[e] = job[e]
    BY <1>0, <2>1, <2>2, NewCall, Zenon
  <2>4. UNCHANGED <<map, dedupCache, count, refused>>
    BY <1>2 DEF CallWriteBatch
  <2> QED BY <2>2, <2>3, <2>4
<1>3. CASE Return(c)
  <2>1. PICK b \in Table : b = [ip \in IPs |-> None]
    BY Zenon DEF Table, Slot
  <2>2. job' = [job EXCEPT ![c] = Call("rest", FALSE, <<>>, b)]
    BY <1>3, <2>1 DEF Return, NoCall
  <2>3. <<>> \in Seq(Pending)
    BY EmptySeq
  <2>4. /\ job' \in [Callers -> CallRec]
        /\ job'[c].at = "rest" /\ job'[c].batch = FALSE /\ job'[c].todo = <<>> /\ job'[c].log = <<>>
        /\ job'[c].before = b /\ job'[c].found = FALSE
        /\ \A e \in Callers \ {c} : job'[e] = job[e]
    BY <1>0, <2>2, <2>3, NewCall, Zenon
  <2>5. UNCHANGED <<map, dedupCache, count, refused>>
    BY <1>3 DEF Return
  <2> QED BY <2>4, <2>5
<1> QED BY <1>1, <1>2, <1>3, Zenon

(* Deletions by others change the history of the calls only. *)
LEMMA OutsideCalls ==
  ASSUME WriterTyped, NEW ip \in IPs, DeleteOutside(ip)
  PROVE  /\ job' \in [Callers -> CallRec]
         /\ \A c \in Callers :
              /\ job'[c].at = job[c].at /\ job'[c].todo = job[c].todo /\ job'[c].log = job[c].log
              /\ job'[c].found = job[c].found /\ job'[c].prev = job[c].prev
              /\ job'[c].batch = job[c].batch /\ job'[c].before = job[c].before
              /\ job'[c].gone = IF job[c].batch THEN job[c].gone \cup {ip} ELSE job[c].gone
<1>1. ASSUME NEW c \in Callers
      PROVE  /\ job'[c] \in CallRec
             /\ job'[c].at = job[c].at /\ job'[c].todo = job[c].todo /\ job'[c].log = job[c].log
             /\ job'[c].found = job[c].found /\ job'[c].prev = job[c].prev
             /\ job'[c].batch = job[c].batch /\ job'[c].before = job[c].before
             /\ job'[c].gone = IF job[c].batch THEN job[c].gone \cup {ip} ELSE job[c].gone
  <2>1. job[c] \in CallRec
    BY DEF WriterTyped
  <2>2. job'[c] = IF job[c].batch THEN [job[c] EXCEPT !.gone = @ \cup {ip}] ELSE job[c]
    BY DEF DeleteOutside
  <2> QED BY <2>1, <2>2 DEF CallRec
<1>2. job' = [c \in Callers |-> job'[c]]
  BY DEF DeleteOutside
<1> QED BY <1>1, <1>2, Zenon

(* Every step keeps the shape of the tables and of the calls. *)
LEMMA WriterTypedStep ==
  ASSUME WriterTyped, [Next]_vars
  PROVE  WriterTyped'
<1> DEFINE Ready(j) == /\ j.at \in {"look", "write", "cache"} => j.todo # <<>>
                       /\ j.at = "forget" => j.log # <<>>
<1>0. /\ map \in Table /\ dedupCache \in Table /\ count \in Int /\ refused \in Nat
      /\ \A c \in Callers : Ready(job[c])
  BY DEF WriterTyped
<1>1. ASSUME NEW v \in Slot, NEW ip \in IPs, NEW t \in Table
      PROVE  [t EXCEPT ![ip] = v] \in Table
  BY DEF Table
<1>2. ASSUME NEW c \in Callers, job' \in [Callers -> CallRec], Ready(job'[c]),
             \A e \in Callers \ {c} : job'[e] = job[e],
             map' \in Table, dedupCache' \in Table, count' \in Int, refused' \in Nat
      PROVE  WriterTyped'
  <2>1. \A e \in Callers : Ready(job'[e])
    BY <1>0, <1>2
  <2> QED BY <1>2, <2>1 DEF WriterTyped
<1>3. ASSUME NEW c \in Callers, CallBlockIPv4(c) \/ CallWriteBatch(c) \/ Return(c)
      PROVE  WriterTyped'
  <2>1. /\ job' \in [Callers -> CallRec] /\ Ready(job'[c])
        /\ \A e \in Callers \ {c} : job'[e] = job[e]
        /\ UNCHANGED <<map, dedupCache, count, refused>>
    BY <1>3, CallBounds, Zenon
  <2> QED BY <1>0, <1>2, <2>1
<1>4. ASSUME NEW c \in Callers, Skip(c)
      PROVE  WriterTyped'
  <2>1. PICK s \in {"look", "done"} :
          /\ Becomes(c, s, Tail(job[c].todo), job[c].log, job[c].found, job[c].prev)
          /\ s = "look" => Tail(job[c].todo) # <<>>
    BY <1>4, CallSteps, Zenon
  <2>2. Ready(job'[c]) /\ job' \in [Callers -> CallRec] /\ \A e \in Callers \ {c} : job'[e] = job[e]
    BY <2>1 DEF Becomes
  <2>3. UNCHANGED <<map, dedupCache, count, refused>>
    BY <1>4 DEF Skip
  <2> QED BY <1>0, <1>2, <2>2, <2>3
<1>5. ASSUME NEW c \in Callers, Miss(c)
      PROVE  WriterTyped'
  <2>1. PICK s \in {"write", "failed"} :
          Becomes(c, s, job[c].todo, job[c].log, dedupCache[Ip(c)] # None, map[Ip(c)])
    BY <1>5, CallSteps, Zenon
  <2>2. job[c].at = "look" /\ UNCHANGED <<map, dedupCache, count, refused>>
    BY <1>5 DEF Miss
  <2>3. Ready(job'[c]) /\ job' \in [Callers -> CallRec] /\ \A e \in Callers \ {c} : job'[e] = job[e]
    BY <1>0, <2>1, <2>2 DEF Becomes
  <2> QED BY <1>0, <1>2, <2>2, <2>3
<1>6. ASSUME NEW c \in Callers, NEW s \in Steps, Goto(c, s),
             s = "cache" => job[c].at = "write", s \notin {"look", "write"},
             s = "forget" => job[c].log # <<>>
      PROVE  Ready(job'[c]) /\ job' \in [Callers -> CallRec] /\ \A e \in Callers \ {c} : job'[e] = job[e]
  <2>1. Becomes(c, s, job[c].todo, job[c].log, job[c].found, job[c].prev)
    BY <1>6, CallSteps, Zenon
  <2> QED BY <1>0, <1>6, <2>1 DEF Becomes
<1>7. ASSUME NEW c \in Callers, WindowFull(c) \/ RolledBack(c)
      PROVE  WriterTyped'
  <2>1. Goto(c, "failed") /\ "failed" \in Steps /\ UNCHANGED <<map, dedupCache, count, refused>>
    BY <1>7 DEF WindowFull, RolledBack, Steps
  <2> QED BY <1>0, <1>2, <1>6, <2>1
<1>8. ASSUME NEW c \in Callers, Write(c)
      PROVE  WriterTyped'
  <2>1. Goto(c, "cache") /\ "cache" \in Steps /\ job[c].at = "write"
    BY <1>8 DEF Write, Steps
  <2>2. Ip(c) \in IPs /\ Entry(c) \in Slot
    BY <2>1, CallSteps, Zenon DEF Slot
  <2>3. map' \in Table /\ UNCHANGED <<dedupCache, count, refused>>
    BY <1>0, <1>1, <1>8, <2>2, Zenon DEF Write
  <2> QED BY <1>0, <1>2, <1>6, <2>1, <2>3
<1>9. ASSUME NEW c \in Callers, WriteFails(c)
      PROVE  WriterTyped'
  <2>1. PICK s \in {"undo", "failed"} : Goto(c, s)
    BY <1>9 DEF WriteFails
  <2>2. UNCHANGED <<map, dedupCache, count>> /\ refused' = refused + 1 /\ s \in Steps
    BY <1>9 DEF WriteFails, Refuse, Steps
  <2> QED BY <1>0, <1>2, <1>6, <2>1, <2>2
<1>10. ASSUME NEW c \in Callers, Cache(c)
       PROVE  WriterTyped'
  <2>1. PICK s \in {"look", "done"} :
          /\ Becomes(c, s, Tail(job[c].todo), Append(job[c].log, <<Ip(c), job[c].prev>>),
                     job[c].found, job[c].prev)
          /\ s = "look" => Tail(job[c].todo) # <<>>
    BY <1>10, CallSteps
  <2>2. Ready(job'[c]) /\ job' \in [Callers -> CallRec] /\ \A e \in Callers \ {c} : job'[e] = job[e]
    BY <2>1 DEF Becomes
  <2>3. Ip(c) \in IPs /\ Entry(c) \in Slot
    BY <1>10, CallSteps DEF Cache, Slot
  <2>4. dedupCache' = [dedupCache EXCEPT ![Ip(c)] = Entry(c)] /\ UNCHANGED <<map, refused>>
    BY <1>10 DEF Cache
  <2>5. dedupCache' \in Table
    BY <1>0, <1>1, <2>3, <2>4, Zenon
  <2>6. count' \in Int
    BY <1>0, <1>10 DEF Cache
  <2> QED BY <1>0, <1>2, <2>2, <2>4, <2>5, <2>6
<1>11. ASSUME NEW c \in Callers, Restore(c)
       PROVE  WriterTyped'
  <2>1. job[c].at = "undo" /\ job[c].log # <<>> /\ Undid(c) /\ UNCHANGED <<dedupCache, count>>
    BY <1>11 DEF Restore
  <2>2. Becomes(c, job[c].at, job[c].todo, SubSeq(job[c].log, 1, Len(job[c].log) - 1),
                job[c].found, job[c].prev)
    BY <2>1, CallSteps, Zenon
  <2>3. Ready(job'[c]) /\ job' \in [Callers -> CallRec] /\ \A e \in Callers \ {c} : job'[e] = job[e]
    BY <2>1, <2>2 DEF Becomes
  <2>4. Undone(c)[1] \in IPs /\ Undone(c)[2] \in Slot
    BY <2>1, CallSteps, Zenon
  <2>5. map' \in Table /\ refused' \in Nat
    BY <1>0, <1>1, <1>11, <2>4 DEF Restore, Refuse
  <2> QED BY <1>0, <1>2, <2>1, <2>3, <2>5
<1>12. ASSUME NEW c \in Callers, Unblock(c)
       PROVE  WriterTyped'
  <2>1. /\ job[c].log # <<>> /\ Goto(c, "forget") /\ "forget" \in Steps /\ None \in Slot
        /\ UNCHANGED <<dedupCache, count>>
    BY <1>12 DEF Unblock, Steps, Slot
  <2>2. Undone(c)[1] \in IPs
    BY <2>1, CallSteps, Zenon
  <2>3. map' \in Table /\ refused' \in Nat
    BY <1>0, <1>1, <1>12, <2>1, <2>2 DEF Unblock, Refuse
  <2> QED BY <1>0, <1>2, <1>6, <2>1, <2>3
<1>13. ASSUME NEW c \in Callers, Forget(c)
       PROVE  WriterTyped'
  <2>1. Becomes(c, "undo", job[c].todo, SubSeq(job[c].log, 1, Len(job[c].log) - 1),
                job[c].found, job[c].prev)
    BY <1>13, CallSteps, Zenon
  <2>2. Ready(job'[c]) /\ job' \in [Callers -> CallRec] /\ \A e \in Callers \ {c} : job'[e] = job[e]
    BY <2>1 DEF Becomes
  <2>3. Undone(c)[1] \in IPs /\ None \in Slot
    BY <1>0, <1>13, CallSteps, Zenon DEF Forget, Slot
  <2>4. dedupCache' = [dedupCache EXCEPT ![Undone(c)[1]] = None] /\ UNCHANGED <<map, refused>>
    BY <1>13 DEF Forget
  <2>5. dedupCache' \in Table
    BY <1>0, <1>1, <2>3, <2>4, Zenon
  <2>6. count' \in Int
    BY <1>0, <1>13 DEF Forget
  <2> QED BY <1>0, <1>2, <2>2, <2>4, <2>5, <2>6
<1>14. CASE PurgeExpiredDedup
  <2> DEFINE G == {ip \in IPs : dedupCache[ip] # None /\ map[ip] = None}
  <2>1. dedupCache' = [ip \in IPs |-> IF ip \in G THEN None ELSE dedupCache[ip]]
    BY <1>14 DEF PurgeExpiredDedup
  <2>2. dedupCache' \in Table
    BY <1>0, <2>1 DEF Table, Slot
  <2>3. Cardinality(G) \in Nat
    BY WriterAssumption, FS_Subset, FS_CardinalityType
  <2>4. count' \in Int /\ UNCHANGED <<map, job, refused>>
    BY <1>0, <1>14, <2>3 DEF PurgeExpiredDedup
  <2> QED BY <2>2, <2>4 DEF WriterTyped
<1>15. ASSUME NEW ip \in IPs, DeleteOutside(ip)
       PROVE  WriterTyped'
  <2>1. map' \in Table /\ UNCHANGED <<dedupCache, count, refused>>
    BY <1>0, <1>1, <1>15, Zenon DEF DeleteOutside, Slot
  <2>2. job' \in [Callers -> CallRec] /\ \A c \in Callers : Ready(job'[c])
    BY <1>0, <1>15, OutsideCalls, Zenon
  <2> QED BY <2>1, <2>2 DEF WriterTyped
<1>16. CASE ResetWindow \/ UNCHANGED vars
  <2>1. UNCHANGED <<map, dedupCache, count, job, refused>>
    BY <1>16, Zenon DEF ResetWindow, vars
  <2> QED BY <2>1 DEF WriterTyped
<1> QED BY <1>3, <1>4, <1>5, <1>7, <1>8, <1>9, <1>10, <1>11, <1>12, <1>13, <1>14, <1>15, <1>16 DEF Next

-----------------------------------------------------------------------------
(* The capacity counter                                                      *)

(* A call that missed the cache when it looked still misses it when it       *)
(* updates it: what makes counting on that lookup right, for one caller.     *)
MissStands ==
  \A c \in Callers : job[c].at \in {"write", "cache"} /\ ~job[c].found => dedupCache[Ip(c)] = None

(* The cached addresses are finitely many. *)
LEMMA CachedFinite ==
  ASSUME NEW S \in SUBSET IPs
  PROVE  IsFiniteSet(S) /\ Cardinality(S) \in Nat
BY WriterAssumption, FS_Subset, FS_CardinalityType

(* A step that leaves the cache and the counter, and no call between its     *)
(* lookup and its cache update but those that were there.                    *)
LEMMA CountSame ==
  ASSUME MissStands, CountNeverAbove, UNCHANGED <<dedupCache, count>>,
         \A c \in Callers : job'[c].at \in {"write", "cache"} =>
           /\ job[c].at \in {"write", "cache"} /\ job'[c].found = job[c].found
           /\ job'[c].todo = job[c].todo
  PROVE  MissStands' /\ CountNeverAbove'
<1>1. Cached' = Cached
  BY DEF Cached
<1> QED BY <1>1 DEF MissStands, CountNeverAbove, Ip

(* A cached address is counted at most once: a new one when it is cached, a  *)
(* forgotten one no more, and a purge takes as many from the counter as from *)
(* the cache. *)
LEMMA CountStep ==
  ASSUME NEW w, Callers = {w}, WriterTyped, MissStands, CountNeverAbove, [Next]_vars
  PROVE  MissStands' /\ CountNeverAbove'
<1>0. /\ w \in Callers /\ \A c \in Callers : c = w
      /\ count \in Int /\ dedupCache \in Table
      /\ Cached \in SUBSET IPs /\ Cardinality(Cached) \in Nat
  BY CachedFinite DEF WriterTyped, Cached
<1>1. ASSUME job'[w].at \notin {"write", "cache"}, UNCHANGED <<dedupCache, count>>
      PROVE  MissStands' /\ CountNeverAbove'
  BY <1>0, <1>1, CountSame
<1>2. CASE CallBlockIPv4(w) \/ CallWriteBatch(w) \/ Return(w)
  BY <1>0, <1>1, <1>2, CallBounds, Zenon
<1>3. CASE Skip(w)
  <2>1. job'[w].at \in {"look", "done"} /\ UNCHANGED <<dedupCache, count>>
    BY <1>0, <1>3, CallSteps, Zenon DEF Skip, Becomes
  <2> QED BY <1>1, <2>1
<1>4. CASE Miss(w)
  <2>1. PICK s \in {"write", "failed"} :
          Becomes(w, s, job[w].todo, job[w].log, dedupCache[Ip(w)] # None, map[Ip(w)])
    BY <1>0, <1>4, CallSteps
  <2>2. UNCHANGED <<dedupCache, count>>
    BY <1>4 DEF Miss
  <2>3. job'[w].found = (dedupCache[Ip(w)] # None) /\ job'[w].todo = job[w].todo
    BY <2>1 DEF Becomes
  <2>4. MissStands'
    BY <1>0, <2>2, <2>3, Zenon DEF MissStands, Ip
  <2> QED BY <2>2, <2>4 DEF CountNeverAbove, Cached
<1>5. CASE WindowFull(w) \/ RolledBack(w) \/ WriteFails(w) \/ Unblock(w)
  <2>1. \E s \in {"failed", "undo", "forget"} : Goto(w, s) /\ s \in Steps
    BY <1>5 DEF WindowFull, RolledBack, WriteFails, Unblock, Steps
  <2>2. job'[w].at \in {"failed", "undo", "forget"}
    BY <1>0, <2>1, CallSteps, Zenon DEF Becomes
  <2>3. UNCHANGED <<dedupCache, count>>
    BY <1>5 DEF WindowFull, RolledBack, WriteFails, Unblock
  <2> QED BY <1>1, <2>2, <2>3
<1>6. CASE Write(w)
  <2>1. Goto(w, "cache") /\ job[w].at = "write" /\ "cache" \in Steps /\ UNCHANGED <<dedupCache, count>>
    BY <1>6 DEF Write, Steps
  <2>2. job'[w].found = job[w].found /\ job'[w].todo = job[w].todo
    BY <1>0, <2>1, CallSteps, Zenon DEF Becomes
  <2> QED BY <1>0, <2>1, <2>2, CountSame
<1>7. CASE Cache(w)
  <2>1. job'[w].at \in {"look", "done"}
    BY <1>0, <1>7, CallSteps, Zenon DEF Becomes
  <2>2. Ip(w) \in IPs /\ Entry(w) \in Entries /\ Entry(w) # None
    BY <1>0, <1>7, CallSteps, WriterAssumption, Zenon DEF Cache
  <2>3. /\ dedupCache' = [dedupCache EXCEPT ![Ip(w)] = Entry(w)]
        /\ count' = IF job[w].found THEN count ELSE count + 1
    BY <1>7 DEF Cache
  <2>4. Cached' = Cached \cup {Ip(w)}
    BY <1>0, <2>2, <2>3 DEF Cached, Table
  <2>5. ~job[w].found => Ip(w) \notin Cached
    BY <1>0, <1>7 DEF MissStands, Cache, Cached
  <2>6. Cardinality(Cached') = IF Ip(w) \in Cached THEN Cardinality(Cached) ELSE Cardinality(Cached) + 1
    BY <1>0, <2>4, CachedFinite, FS_AddElement
  <2>7. count' <= Cardinality(Cached')
    BY <1>0, <2>3, <2>5, <2>6 DEF CountNeverAbove
  <2> QED BY <1>0, <2>1, <2>7 DEF MissStands, CountNeverAbove
<1>8. CASE Restore(w)
  <2>1. job[w].at = "undo" /\ job[w].log # <<>> /\ Undid(w) /\ UNCHANGED <<dedupCache, count>>
    BY <1>8 DEF Restore
  <2>2. job'[w].at = "undo"
    BY <1>0, <2>1, CallSteps, Zenon DEF Becomes
  <2> QED BY <1>1, <2>1, <2>2
<1>9. CASE Forget(w)
  <2>1. job'[w].at = "undo"
    BY <1>0, <1>9, CallSteps, Zenon DEF Becomes
  <2>2. Undone(w)[1] \in IPs
    BY <1>0, <1>9, CallSteps DEF Forget, WriterTyped
  <2>3. dedupCache' = [dedupCache EXCEPT ![Undone(w)[1]] = None] /\ count' = count - 1
    BY <1>9 DEF Forget
  <2>4. Cached' = Cached \ {Undone(w)[1]}
    BY <1>0, <2>2, <2>3 DEF Cached, Table
  <2>5. Cardinality(Cached') >= Cardinality(Cached) - 1
    <3>1. IsFiniteSet(Cached)
      BY <1>0, CachedFinite
    <3>2. Cardinality(Cached \ {Undone(w)[1]}) =
            IF Undone(w)[1] \in Cached THEN Cardinality(Cached) - 1 ELSE Cardinality(Cached)
      BY <3>1, FS_RemoveElement
    <3> QED BY <1>0, <2>4, <3>2
  <2>6. Cardinality(Cached') \in Nat
    BY <1>0, <2>4, CachedFinite
  <2>7. count' <= Cardinality(Cached')
    BY <1>0, <2>3, <2>5, <2>6 DEF CountNeverAbove
  <2> QED BY <1>0, <2>1, <2>7 DEF MissStands, CountNeverAbove
<1>10. CASE PurgeExpiredDedup
  <2> DEFINE G == {ip \in IPs : dedupCache[ip] # None /\ map[ip] = None}
  <2>1. /\ dedupCache' = [ip \in IPs |-> IF ip \in G THEN None ELSE dedupCache[ip]]
        /\ count' = count - Cardinality(G) /\ job' = job
    BY <1>10 DEF PurgeExpiredDedup
  <2>2. Cached' = Cached \ G /\ Cached \cap G = G
    BY <2>1 DEF Cached
  <2> HIDE DEF G
  <2>3. Cardinality(Cached') = Cardinality(Cached) - Cardinality(G) /\ Cardinality(G) \in Nat
    <3>1. IsFiniteSet(Cached) /\ G \in SUBSET IPs
      BY <1>0, CachedFinite DEF G
    <3> QED BY <2>2, <3>1, CachedFinite, FS_Difference, Zenon
  <2>4. count' <= Cardinality(Cached')
    BY <1>0, <2>1, <2>3 DEF CountNeverAbove
  <2>5. \A ip \in IPs : dedupCache[ip] = None => dedupCache'[ip] = None
    BY <2>1
  <2>6. job[w].at \in {"write", "cache"} => Ip(w) \in IPs /\ Ip(w)' = Ip(w)
    BY <1>0, <2>1, CallSteps DEF Ip
  <2>7. MissStands'
    BY <1>0, <2>1, <2>5, <2>6 DEF MissStands
  <2> QED BY <2>4, <2>7 DEF CountNeverAbove
<1>11. ASSUME NEW ip \in IPs, DeleteOutside(ip)
       PROVE  MissStands' /\ CountNeverAbove'
  <2>1. UNCHANGED <<dedupCache, count>>
    BY <1>11 DEF DeleteOutside
  <2> QED BY <1>11, <2>1, OutsideCalls, CountSame, Zenon
<1>12. CASE ResetWindow \/ UNCHANGED vars
  <2>1. UNCHANGED <<dedupCache, count, job>>
    BY <1>12, Zenon DEF ResetWindow, vars
  <2> QED BY <2>1, CountSame
<1> QED BY <1>0, <1>2, <1>3, <1>4, <1>5, <1>6, <1>7, <1>8, <1>9, <1>10, <1>11, <1>12 DEF Next

(* The initial state. *)
LEMMA WriterInit ==
  ASSUME Init
  PROVE  WriterTyped /\ MissStands /\ CountNeverAbove
<1>1. PICK b \in Table : b = [ip \in IPs |-> None]
  BY Zenon DEF Table, Slot
<1>2. PICK r : r = Call("rest", FALSE, <<>>, b)
  BY Zenon
<1>3. r \in CallRec /\ r.at = "rest"
  BY <1>2, EmptySeq DEF Call, CallRec, Steps, Slot
<1>4. job = [c \in Callers |-> r]
  BY <1>1, <1>2 DEF Init, NoCall
<1>5. map \in Table /\ dedupCache \in Table /\ count = 0 /\ refused = 0
  BY <1>1 DEF Init, Table
<1>6. WriterTyped /\ MissStands
  BY <1>3, <1>4, <1>5 DEF WriterTyped, MissStands
<1>7. Cardinality(Cached) \in Nat
  BY CachedFinite DEF Cached
<1> QED BY <1>5, <1>6, <1>7 DEF CountNeverAbove

(* The capacity counter never exceeds the number of cached addresses, for    *)
(* one caller and whatever the map manager refuses, others delete and the    *)
(* purge forgets: BlockIPv4 rejects no write for lack of room too early.     *)
THEOREM CounterBounded ==
  ASSUME NEW w, Callers = {w}
  PROVE  Spec => []CountNeverAbove
<1> DEFINE I == WriterTyped /\ MissStands /\ CountNeverAbove
<1>1. Init => I
  BY WriterInit
<1>2. I /\ [Next]_vars => I'
  BY WriterTypedStep, CountStep
<1>3. I => CountNeverAbove
  OBVIOUS
<1> HIDE DEF I
<1> QED BY <1>1, <1>2, <1>3, PTL DEF Spec

-----------------------------------------------------------------------------
(* A batch that fails is undone                                              *)

(* v is what ip held when the call of c began, or others freed ip since. *)
Was(c, ip, v) == v = job[c].before[ip] \/ (ip \in job[c].gone /\ v = None)
LogIp(c, k) == job[c].log[k][1]
Untouched(c, ip) == \A k \in 1..Len(job[c].log) : LogIp(c, k) # ip
FirstWrite(c, k) == \A m \in 1..(k - 1) : LogIp(c, m) # LogIp(c, k)

(* The oldest log entry of an address, and the map for the addresses with    *)
(* none, say what the batch found; so does what the lookup kept for a write  *)
(* not yet in the log.  While it rolls back, the manager refuses no more.    *)
CanUndo(c) ==
  /\ \A k \in 1..Len(job[c].log) : FirstWrite(c, k) => Was(c, LogIp(c, k), job[c].log[k][2])
  /\ \A ip \in IPs : Untouched(c, ip) /\ ~(job[c].at = "cache" /\ ip = Ip(c)) => Was(c, ip, map[ip])
  /\ job[c].at \in {"write", "cache"} /\ Untouched(c, Ip(c)) => Was(c, Ip(c), job[c].prev)
  /\ job[c].at \in {"undo", "forget"} => refused >= Refusals
  /\ job[c].at = "forget" => map[Undone(c)[1]] = None /\ Undone(c)[2] = None
  /\ job[c].at = "failed" => job[c].log = <<>>

BatchInv == \A c \in Callers : job[c].batch => CanUndo(c)

(* The log, one write shorter. *)
LEMMA LogShortened ==
  ASSUME WriterTyped, NEW c \in Callers, job[c].log # <<>>,
         job'[c].log = SubSeq(job[c].log, 1, Len(job[c].log) - 1)
  PROVE  /\ Len(job[c].log) \in Nat \ {0} /\ Len(job'[c].log) = Len(job[c].log) - 1
         /\ \A k \in 1..Len(job'[c].log) : job'[c].log[k] = job[c].log[k]
         /\ Undone(c) = job[c].log[Len(job[c].log)]
<1>1. job[c].log \in Seq(Logged)
  BY DEF WriterTyped, CallRec
<1>2. PICK l \in Seq(Logged) : l = job[c].log
  BY <1>1
<1>3. Len(l) \in Nat \ {0} /\ 1 \in 1..(Len(l) + 1) /\ Len(l) - 1 \in 0..Len(l)
  BY <1>2
<1>4. /\ Len(SubSeq(l, 1, Len(l) - 1)) = Len(l) - 1
      /\ \A k \in 1..(Len(l) - 1) : SubSeq(l, 1, Len(l) - 1)[k] = l[k]
  <2>1. PICK n : n = Len(l) - 1
    OBVIOUS
  <2>2. n \in (1 - 1)..Len(l) /\ n - 1 + 1 = n
    BY <1>3, <2>1
  <2>3. /\ Len(SubSeq(l, 1, n)) = n - 1 + 1
        /\ \A k \in 1..(n - 1 + 1) : SubSeq(l, 1, n)[k] = l[1 + k - 1]
    BY <1>3, <2>2, SubSeqProperties
  <2> QED BY <2>1, <2>2, <2>3
<1> QED BY <1>2, <1>3, <1>4 DEF Undone

(* Undoing the newest write keeps the promise, provided its address holds    *)
(* what the log has for it. *)
LEMMA UndoStep ==
  ASSUME WriterTyped, NEW c \in Callers, CanUndo(c), job[c].log # <<>>,
         job[c].at \in {"undo", "forget"}, job'[c].at = "undo",
         job'[c].log = SubSeq(job[c].log, 1, Len(job[c].log) - 1),
         job'[c].before = job[c].before, job'[c].gone = job[c].gone, refused' = refused,
         map'[Undone(c)[1]] = Undone(c)[2],
         \A ip \in IPs : ip # Undone(c)[1] => map'[ip] = map[ip]
  PROVE  CanUndo(c)'
<1> DEFINE l == job[c].log
           z == Len(job[c].log)
<1>1. /\ z \in Nat \ {0} /\ Len(job'[c].log) = z - 1
      /\ \A k \in 1..(z - 1) : job'[c].log[k] = l[k]
      /\ Undone(c) = l[z]
  BY LogShortened
<1> HIDE DEF l, z
<1>2. \A k \in 1..Len(job'[c].log) : FirstWrite(c, k)' => Was(c, LogIp(c, k), job[c].log[k][2])'
  <2> SUFFICES ASSUME NEW k \in 1..Len(job'[c].log), FirstWrite(c, k)'
               PROVE  Was(c, LogIp(c, k), job[c].log[k][2])'
    OBVIOUS
  <2>1. k \in 1..(z - 1) /\ k \in 1..z /\ (\A m \in 1..(k - 1) : m \in 1..(z - 1))
    BY <1>1
  <2>2. \A m \in 1..(k - 1) : LogIp(c, m) # LogIp(c, k)
    BY <1>1, <2>1 DEF FirstWrite, LogIp, l
  <2>3. Was(c, LogIp(c, k), job[c].log[k][2])
    BY <2>1, <2>2 DEF CanUndo, FirstWrite, z
  <2>4. job'[c].log[k] = job[c].log[k]
    BY <1>1, <2>1 DEF l
  <2> QED BY <2>3, <2>4 DEF Was, LogIp
<1>3. ASSUME NEW ip \in IPs, Untouched(c, ip)'
      PROVE  Was(c, ip, map[ip])'
  <2>1. \A k \in 1..(z - 1) : LogIp(c, k) # ip
    BY <1>1, <1>3 DEF Untouched, LogIp, l
  <2>2. CASE ip = Undone(c)[1]
    <3>1. FirstWrite(c, z)
      BY <1>1, <2>1, <2>2 DEF FirstWrite, LogIp, l
    <3>2. Was(c, LogIp(c, z), job[c].log[z][2])
      BY <1>1, <3>1 DEF CanUndo, z
    <3> QED BY <1>1, <2>2, <3>2 DEF Was, LogIp, l
  <2>3. CASE ip # Undone(c)[1]
    <3>1. Untouched(c, ip)
      <4> SUFFICES ASSUME NEW k \in 1..z PROVE LogIp(c, k) # ip
        BY DEF Untouched, z
      <4>1. k \in 1..(z - 1) \/ k = z
        BY <1>1
      <4> QED BY <1>1, <2>1, <2>3, <4>1 DEF LogIp, l
    <3>2. Was(c, ip, map[ip])
      BY <3>1 DEF CanUndo
    <3> QED BY <2>3, <3>2 DEF Was
  <2> QED BY <2>2, <2>3
<1>4. refused' >= Refusals
  BY DEF CanUndo
<1> QED BY <1>2, <1>3, <1>4 DEF CanUndo

(* The log, one write longer. *)
LEMMA CacheUndo ==
  ASSUME WriterTyped, NEW c \in Callers, CanUndo(c), Cache(c)
  PROVE  CanUndo(c)'
<1> DEFINE l == job[c].log
           z == Len(job[c].log)
           e == <<Ip(c), job[c].prev>>
<1>1. /\ job'[c].at \in {"look", "done"} /\ job'[c].log = Append(l, e)
      /\ job'[c].before = job[c].before /\ job'[c].gone = job[c].gone
  BY CallSteps, Zenon DEF Becomes
<1>2. job[c].at = "cache" /\ UNCHANGED map /\ e[1] = Ip(c) /\ e[2] = job[c].prev
  BY DEF Cache
<1>3. l \in Seq(Logged) /\ e \in Logged
  <2>1. Ip(c) \in IPs
    BY <1>2, CallSteps, Zenon
  <2>2. job[c] \in CallRec
    BY DEF WriterTyped
  <2> QED BY <2>1, <2>2 DEF CallRec, Logged
<1> HIDE DEF e
<1>4. /\ z \in Nat /\ Len(job'[c].log) = z + 1 /\ job'[c].log[z + 1] = e
      /\ \A k \in 1..z : job'[c].log[k] = job[c].log[k]
  BY <1>1, <1>3, AppendProperties
<1> HIDE DEF l, z
<1>5. \A k \in 1..z : LogIp(c, k)' = LogIp(c, k)
  BY <1>4 DEF LogIp
<1>6. \A k \in 1..Len(job'[c].log) : FirstWrite(c, k)' => Was(c, LogIp(c, k), job[c].log[k][2])'
  <2> SUFFICES ASSUME NEW k \in 1..(z + 1), FirstWrite(c, k)'
               PROVE  Was(c, LogIp(c, k), job[c].log[k][2])'
    BY <1>4
  <2>1. CASE k \in 1..z
    <3>1. \A m \in 1..(k - 1) : m \in 1..z
      BY <1>4, <2>1
    <3>2. FirstWrite(c, k)
      BY <1>5, <2>1, <3>1 DEF FirstWrite
    <3>3. Was(c, LogIp(c, k), job[c].log[k][2])
      BY <2>1, <3>2 DEF CanUndo, z
    <3> QED BY <1>1, <1>4, <1>5, <2>1, <3>3 DEF Was
  <2>2. CASE k = z + 1
    <3>1. LogIp(c, k)' = Ip(c) /\ job'[c].log[k][2] = job[c].prev
      BY <1>2, <1>4, <2>2 DEF LogIp
    <3>2. Untouched(c, Ip(c))
      <4> SUFFICES ASSUME NEW m \in 1..z PROVE LogIp(c, m) # Ip(c)
        BY DEF Untouched, z
      <4>1. m \in 1..(k - 1)
        BY <1>4, <2>2
      <4> QED BY <1>5, <3>1, <4>1 DEF FirstWrite
    <3>3. Was(c, Ip(c), job[c].prev)
      BY <1>2, <3>2 DEF CanUndo
    <3> QED BY <1>1, <3>1, <3>3 DEF Was
  <2> QED BY <1>4, <2>1, <2>2
<1>7. ASSUME NEW ip \in IPs, Untouched(c, ip)'
      PROVE  Was(c, ip, map[ip])'
  <2>1. \A k \in 1..z : k \in 1..Len(job'[c].log)
    BY <1>4
  <2>2. Untouched(c, ip)
    BY <1>5, <1>7, <2>1 DEF Untouched, z
  <2>3. ip # Ip(c)
    <3>1. PICK y : y = z + 1
      OBVIOUS
    <3>2. y \in 1..Len(job'[c].log) /\ LogIp(c, y)' = Ip(c)
      BY <1>2, <1>4, <3>1 DEF LogIp
    <3> QED BY <1>7, <3>2 DEF Untouched
  <2>4. Was(c, ip, map[ip])
    BY <2>2, <2>3 DEF CanUndo
  <2> QED BY <1>1, <1>2, <2>4 DEF Was
<1> QED BY <1>1, <1>6, <1>7 DEF CanUndo

(* A step of the call that leaves its log alone. *)
LEMMA SameLog ==
  ASSUME NEW c \in Callers, CanUndo(c), job'[c].log = job[c].log,
         job'[c].before = job[c].before, job[c].gone \subseteq job'[c].gone
  PROVE  /\ \A k \in 1..Len(job'[c].log) : FirstWrite(c, k)' => Was(c, LogIp(c, k), job[c].log[k][2])'
         /\ \A ip : Untouched(c, ip)' = Untouched(c, ip)
         /\ \A ip, v : Was(c, ip, v) => (v = job'[c].before[ip] \/ (ip \in job'[c].gone /\ v = None))
<1>1. \A k : LogIp(c, k)' = LogIp(c, k)
  BY DEF LogIp
<1>2. \A ip : Untouched(c, ip)' = Untouched(c, ip)
  BY <1>1 DEF Untouched
<1>3. \A ip, v : Was(c, ip, v) => (v = job'[c].before[ip] \/ (ip \in job'[c].gone /\ v = None))
  BY DEF Was
<1>4. ASSUME NEW k \in 1..Len(job'[c].log), FirstWrite(c, k)'
      PROVE  Was(c, LogIp(c, k), job[c].log[k][2])'
  <2>1. FirstWrite(c, k)
    BY <1>1, <1>4 DEF FirstWrite
  <2>2. Was(c, LogIp(c, k), job[c].log[k][2])
    BY <1>4, <2>1 DEF CanUndo
  <2> QED BY <1>1, <2>2 DEF Was
<1> QED BY <1>2, <1>3, <1>4

(* Each step of the only caller, and each deletion by others, keeps a batch  *)
(* undoable. *)
LEMMA BatchStep ==
  ASSUME NEW w, Callers = {w}, Refusals <= 1, WriterTyped, BatchInv, [Next]_vars
  PROVE  BatchInv'
<1>0. w \in Callers /\ (\A c \in Callers : c = w) /\ refused \in Nat /\ Refusals \in Nat /\ map \in Table
  BY WriterAssumption DEF WriterTyped
<1>1. ASSUME job'[w].batch => CanUndo(w)' PROVE BatchInv'
  BY <1>0, <1>1 DEF BatchInv
<1>2. CASE CallBlockIPv4(w) \/ CallWriteBatch(w) \/ Return(w)
  <2>1. /\ job'[w].at \in {"rest", "look"} /\ job'[w].log = <<>>
        /\ job'[w].batch => job'[w].before = map
        /\ UNCHANGED map
    BY <1>0, <1>2, CallBounds, Zenon
  <2>2. \A k \in 1..Len(job'[w].log) : FALSE
    BY <2>1
  <2>3. job'[w].batch => \A ip \in IPs : Was(w, ip, map[ip])'
    BY <2>1 DEF Was
  <2>4. job'[w].batch => CanUndo(w)'
    BY <2>1, <2>2, <2>3 DEF CanUndo
  <2> QED BY <1>1, <2>4
<1>3. ASSUME job[w].batch => CanUndo(w)' , job'[w].batch = job[w].batch PROVE BatchInv'
  BY <1>1, <1>3
<1>4. job[w].batch => CanUndo(w)
  BY <1>0 DEF BatchInv
<1>5. ASSUME NEW s \in {"look", "done", "write", "failed", "undo", "cache"}, NEW t, NEW f, NEW v,
             Becomes(w, s, t, job[w].log, f, v), job[w].batch,
             UNCHANGED map \/ (s = "cache" /\ t = job[w].todo /\ \A ip \in IPs \ {Ip(w)} : map'[ip] = map[ip]),
             job[w].at # "cache",
             s \in {"write", "cache"} /\ Untouched(w, Ip(w)) => Was(w, Ip(w), v) /\ t = job[w].todo,
             s = "undo" => refused' >= Refusals, s = "failed" => job[w].log = <<>>,
             s \in {"write", "cache"} => t = job[w].todo
      PROVE  CanUndo(w)'
  <2>1. /\ job'[w].at = s /\ job'[w].log = job[w].log /\ job'[w].todo = t /\ job'[w].prev = v
        /\ job'[w].before = job[w].before /\ job'[w].gone = job[w].gone
    BY <1>5 DEF Becomes
  <2>2. /\ \A k \in 1..Len(job'[w].log) : FirstWrite(w, k)' => Was(w, LogIp(w, k), job[w].log[k][2])'
        /\ \A ip : Untouched(w, ip)' = Untouched(w, ip)
        /\ \A ip, u : Was(w, ip, u) => (u = job'[w].before[ip] \/ (ip \in job'[w].gone /\ u = None))
    BY <1>0, <1>4, <1>5, <2>1, SameLog, Zenon
  <2>3. s \in {"write", "cache"} => Ip(w)' = Ip(w)
    BY <1>5, <2>1 DEF Ip
  <2>4. ASSUME NEW ip \in IPs, Untouched(w, ip)', ~(s = "cache" /\ ip = Ip(w)')
        PROVE  Was(w, ip, map[ip])'
    <3>1. Untouched(w, ip) /\ map'[ip] = map[ip]
      BY <1>5, <2>2, <2>3, <2>4
    <3>2. Was(w, ip, map[ip])
      BY <1>4, <1>5, <3>1 DEF CanUndo
    <3> QED BY <2>2, <3>1, <3>2, Zenon DEF Was
  <2>5. s \in {"write", "cache"} /\ Untouched(w, Ip(w))' => Was(w, Ip(w), job[w].prev)'
    <3> SUFFICES ASSUME s \in {"write", "cache"}, Untouched(w, Ip(w))'
                 PROVE  Was(w, Ip(w), job[w].prev)'
      OBVIOUS
    <3>1. PICK ip : ip = Ip(w)
      OBVIOUS
    <3>2. Ip(w)' = ip /\ Untouched(w, ip)'
      BY <2>3, <3>1 DEF Untouched
    <3>3. Was(w, ip, v)
      BY <1>5, <2>2, <3>1, <3>2
    <3> QED BY <2>1, <2>2, <3>2, <3>3 DEF Was
  <2> QED BY <1>5, <2>1, <2>2, <2>4, <2>5, Zenon DEF CanUndo
<1>6. CASE Skip(w)
  <2>1. PICK s \in {"look", "done"} :
          Becomes(w, s, Tail(job[w].todo), job[w].log, job[w].found, job[w].prev)
    BY <1>0, <1>6, CallSteps, Zenon
  <2>2. job[w].at = "look" /\ UNCHANGED map
    BY <1>6 DEF Skip
  <2>3. job[w].batch => CanUndo(w)'
    BY <1>5, <2>1, <2>2
  <2> QED BY <1>3, <2>1, <2>3 DEF Becomes
<1>7. CASE Miss(w)
  <2>1. PICK s \in {"write", "failed"} :
          /\ Becomes(w, s, job[w].todo, job[w].log, dedupCache[Ip(w)] # None, map[Ip(w)])
          /\ job[w].batch => s = "write"
    BY <1>0, <1>7, CallSteps
  <2>2. job[w].at = "look" /\ UNCHANGED map
    BY <1>7 DEF Miss
  <2>3. Ip(w) \in IPs
    BY <1>0, <2>2, CallSteps, Zenon
  <2>4. job[w].batch /\ Untouched(w, Ip(w)) => Was(w, Ip(w), map[Ip(w)])
    BY <1>4, <2>2, <2>3 DEF CanUndo
  <2>5. job[w].batch => CanUndo(w)'
    BY <1>5, <2>1, <2>2, <2>4
  <2> QED BY <1>3, <2>1, <2>5 DEF Becomes
<1>8. CASE WindowFull(w)
  <2>1. Goto(w, "failed") /\ ~job[w].batch /\ "failed" \in Steps
    BY <1>8 DEF WindowFull, Steps
  <2>2. job'[w].batch = job[w].batch
    BY <1>0, <2>1, CallSteps, Zenon DEF Becomes
  <2> QED BY <1>3, <2>1, <2>2
<1>9. CASE Write(w)
  <2>1. Goto(w, "cache") /\ "cache" \in Steps /\ job[w].at = "write"
    BY <1>9 DEF Write, Steps
  <2>2. Becomes(w, "cache", job[w].todo, job[w].log, job[w].found, job[w].prev)
    BY <1>0, <2>1, CallSteps, Zenon
  <2>3. \A ip \in IPs \ {Ip(w)} : map'[ip] = map[ip]
    BY <1>0, <1>9 DEF Write, Table
  <2>4. job[w].batch /\ Untouched(w, Ip(w)) => Was(w, Ip(w), job[w].prev)
    BY <1>4, <2>1, Zenon DEF CanUndo
  <2>5. job[w].batch => CanUndo(w)'
    BY <1>5, <2>1, <2>2, <2>3, <2>4
  <2> QED BY <1>3, <2>2, <2>5 DEF Becomes
<1>10. CASE WriteFails(w)
  <2>1. PICK s \in {"undo", "failed"} : Goto(w, s) /\ s \in Steps /\ (job[w].batch => s = "undo")
    BY <1>10 DEF WriteFails, Steps
  <2>2. job[w].at = "write" /\ UNCHANGED map /\ refused < Refusals /\ refused' = refused + 1
    BY <1>10 DEF WriteFails, Refuse
  <2>3. Becomes(w, s, job[w].todo, job[w].log, job[w].found, job[w].prev)
    BY <1>0, <2>1, CallSteps
  <2>4. refused' >= Refusals
    BY <1>0, <2>2
  <2>5. job[w].batch => CanUndo(w)'
    BY <1>5, <2>1, <2>2, <2>3, <2>4
  <2> QED BY <1>3, <2>3, <2>5 DEF Becomes
<1>11. CASE Cache(w)
  <2>1. job'[w].batch = job[w].batch
    BY <1>0, <1>11, CallSteps, Zenon DEF Becomes
  <2> QED BY <1>0, <1>3, <1>4, <1>11, <2>1, CacheUndo
<1>12. CASE Restore(w)
  <2>1. job[w].at = "undo" /\ job[w].log # <<>> /\ Undid(w)
    BY <1>12 DEF Restore
  <2>2. Becomes(w, "undo", job[w].todo, SubSeq(job[w].log, 1, Len(job[w].log) - 1),
                job[w].found, job[w].prev)
    BY <1>0, <2>1, CallSteps
  <2>3. Undone(w)[1] \in IPs
    BY <1>0, <2>1, CallSteps
  <2>4. job[w].batch => map' = [map EXCEPT ![Undone(w)[1]] = Undone(w)[2]] /\ refused' = refused
    <3>1. job[w].batch => ~(refused < Refusals)
      BY <1>0, <1>4, <2>1 DEF CanUndo
    <3> QED BY <1>12, <3>1 DEF Restore, Refuse
  <2>5. job[w].batch => /\ map'[Undone(w)[1]] = Undone(w)[2]
                        /\ \A ip \in IPs : ip # Undone(w)[1] => map'[ip] = map[ip]
    BY <1>0, <2>3, <2>4 DEF Table
  <2>6. job[w].batch => CanUndo(w)'
    BY <1>0, <1>4, <2>1, <2>2, <2>4, <2>5, UndoStep DEF Becomes
  <2> QED BY <1>3, <2>2, <2>6 DEF Becomes
<1>13. CASE Unblock(w)
  <2>1. /\ job[w].at = "undo" /\ job[w].log # <<>> /\ Undone(w)[2] = None
        /\ Goto(w, "forget") /\ "forget" \in Steps
    BY <1>13 DEF Unblock, Steps
  <2>2. Becomes(w, "forget", job[w].todo, job[w].log, job[w].found, job[w].prev)
    BY <1>0, <2>1, CallSteps
  <2>3. Undone(w)[1] \in IPs
    BY <1>0, <2>1, CallSteps
  <2>4. job[w].batch => map' = [map EXCEPT ![Undone(w)[1]] = None] /\ refused' = refused
    <3>1. job[w].batch => ~(refused < Refusals)
      BY <1>0, <1>4, <2>1 DEF CanUndo
    <3> QED BY <1>13, <3>1 DEF Unblock, Refuse
  <2>5. job[w].batch => /\ map'[Undone(w)[1]] = None
                        /\ \A ip \in IPs : ip # Undone(w)[1] => map'[ip] = map[ip]
    BY <1>0, <2>3, <2>4 DEF Table
  <2>6. ASSUME job[w].batch PROVE CanUndo(w)'
    <3>1. /\ job'[w].at = "forget" /\ job'[w].log = job[w].log
          /\ job'[w].before = job[w].before /\ job'[w].gone = job[w].gone
      BY <2>2 DEF Becomes
    <3>2. /\ \A k \in 1..Len(job'[w].log) : FirstWrite(w, k)' => Was(w, LogIp(w, k), job[w].log[k][2])'
          /\ \A ip : Untouched(w, ip)' = Untouched(w, ip)
          /\ \A ip, v : Was(w, ip, v) => (v = job'[w].before[ip] \/ (ip \in job'[w].gone /\ v = None))
      BY <1>0, <1>4, <2>6, <3>1, SameLog
    <3>3. Undone(w)' = Undone(w)
      BY <3>1 DEF Undone
    <3>4. ASSUME NEW ip \in IPs, Untouched(w, ip)'
          PROVE  Was(w, ip, map[ip])'
      <4>1. Untouched(w, ip)
        BY <3>2, <3>4
      <4>2. ip # Undone(w)[1]
        <5>1. Len(job[w].log) \in 1..Len(job[w].log)
          <6>1. job[w].log \in Seq(Logged)
            BY <1>0 DEF WriterTyped, CallRec
          <6> QED BY <2>1, <6>1
        <5> QED BY <4>1, <5>1 DEF Untouched, LogIp, Undone
      <4>3. Was(w, ip, map[ip]) /\ map'[ip] = map[ip]
        BY <1>4, <2>1, <2>5, <2>6, <4>1, <4>2 DEF CanUndo
      <4> QED BY <3>2, <4>3, Zenon DEF Was
    <3>5. refused' >= Refusals /\ map'[Undone(w)'[1]] = None /\ Undone(w)'[2] = None
      BY <1>4, <2>1, <2>4, <2>5, <2>6, <3>3 DEF CanUndo
    <3> QED BY <3>1, <3>2, <3>4, <3>5 DEF CanUndo
  <2> QED BY <1>3, <2>2, <2>6 DEF Becomes
<1>14. CASE Forget(w)
  <2>1. job[w].at = "forget" /\ job[w].log # <<>> /\ UNCHANGED <<map, refused>>
    BY <1>0, <1>14 DEF Forget, WriterTyped
  <2>2. Becomes(w, "undo", job[w].todo, SubSeq(job[w].log, 1, Len(job[w].log) - 1),
                job[w].found, job[w].prev)
    BY <1>0, <1>14, CallSteps, Zenon
  <2>3. job[w].batch => map'[Undone(w)[1]] = Undone(w)[2]
    BY <1>4, <2>1 DEF CanUndo
  <2>4. job[w].batch => CanUndo(w)'
    BY <1>0, <1>4, <2>1, <2>2, <2>3, UndoStep DEF Becomes
  <2> QED BY <1>3, <2>2, <2>4 DEF Becomes
<1>15. CASE RolledBack(w)
  <2>1. /\ job[w].at = "undo" /\ job[w].log = <<>> /\ Goto(w, "failed") /\ "failed" \in Steps
        /\ UNCHANGED map
    BY <1>15 DEF RolledBack, Steps
  <2>2. Becomes(w, "failed", job[w].todo, job[w].log, job[w].found, job[w].prev)
    BY <1>0, <2>1, CallSteps, Zenon
  <2>3. job[w].batch => CanUndo(w)'
    BY <1>5, <2>1, <2>2
  <2> QED BY <1>3, <2>2, <2>3 DEF Becomes
<1>16. ASSUME NEW d \in IPs, DeleteOutside(d)
       PROVE  BatchInv'
  <2>1. /\ job'[w].at = job[w].at /\ job'[w].todo = job[w].todo /\ job'[w].log = job[w].log
        /\ job'[w].prev = job[w].prev /\ job'[w].batch = job[w].batch /\ job'[w].before = job[w].before
        /\ job'[w].gone = IF job[w].batch THEN job[w].gone \cup {d} ELSE job[w].gone
    BY <1>0, <1>16, OutsideCalls
  <2>2. /\ refused' = refused /\ map' \in Table
        /\ \A ip \in IPs : map'[ip] = IF ip = d THEN None ELSE map[ip]
    BY <1>0, <1>16 DEF DeleteOutside, Table, Slot
  <2>3. Ip(w)' = Ip(w) /\ Undone(w)' = Undone(w)
    BY <2>1 DEF Ip, Undone
  <2>4. ASSUME job[w].batch PROVE CanUndo(w)'
    <3>1. /\ \A k \in 1..Len(job'[w].log) : FirstWrite(w, k)' => Was(w, LogIp(w, k), job[w].log[k][2])'
          /\ \A ip : Untouched(w, ip)' = Untouched(w, ip)
          /\ \A ip, v : Was(w, ip, v) => (v = job'[w].before[ip] \/ (ip \in job'[w].gone /\ v = None))
      BY <1>0, <1>4, <2>1, <2>4, SameLog
    <3>2. ASSUME NEW ip \in IPs, Untouched(w, ip)', ~(job'[w].at = "cache" /\ ip = Ip(w)')
          PROVE  Was(w, ip, map[ip])'
      <4>1. CASE ip = d
        BY <2>1, <2>2, <2>4, <4>1 DEF Was
      <4>2. CASE ip # d
        <5>1. Was(w, ip, map[ip])
          BY <1>4, <2>1, <2>3, <2>4, <3>1, <3>2, Zenon DEF CanUndo
        <5>2. map'[ip] = map[ip]
          BY <2>2, <4>2
        <5>3. map[ip] = job'[w].before[ip] \/ (ip \in job'[w].gone /\ map[ip] = None)
          BY <2>1, <2>4, <5>1 DEF Was
        <5> QED BY <5>2, <5>3, Zenon DEF Was
      <4> QED BY <4>1, <4>2
    <3>3. job'[w].at \in {"write", "cache"} /\ Untouched(w, Ip(w))' => Was(w, Ip(w), job[w].prev)'
      <4> SUFFICES ASSUME job'[w].at \in {"write", "cache"}, Untouched(w, Ip(w))'
                   PROVE  Was(w, Ip(w), job[w].prev)'
        OBVIOUS
      <4>1. PICK ip : ip = Ip(w)
        OBVIOUS
      <4>2. Ip(w)' = ip /\ Untouched(w, ip)'
        BY <2>3, <4>1 DEF Untouched
      <4>3. Was(w, ip, job[w].prev)
        BY <1>4, <2>1, <2>4, <3>1, <4>1, <4>2, Zenon DEF CanUndo
      <4> QED BY <2>1, <3>1, <4>2, <4>3, Zenon DEF Was
    <3>4. job[w].at = "forget" => Undone(w)[1] \in IPs
      <4>1. job[w].at = "forget" => job[w].log # <<>>
        BY <1>0 DEF WriterTyped
      <4> QED BY <1>0, <4>1, CallSteps, Zenon
    <3>5. job'[w].at = "forget" => map'[Undone(w)'[1]] = None /\ Undone(w)'[2] = None
      BY <1>4, <2>1, <2>2, <2>3, <2>4, <3>4, Zenon DEF CanUndo
    <3>6. /\ job'[w].at \in {"undo", "forget"} => refused' >= Refusals
          /\ job'[w].at = "failed" => job'[w].log = <<>>
      BY <1>4, <2>1, <2>2, <2>4 DEF CanUndo
    <3> QED BY <3>1, <3>2, <3>3, <3>5, <3>6 DEF CanUndo
  <2> QED BY <1>3, <2>1, <2>4
<1>17. CASE PurgeExpiredDedup \/ ResetWindow \/ UNCHANGED vars
  <2>1. UNCHANGED <<map, job, refused>>
    BY <1>17, Zenon DEF PurgeExpiredDedup, ResetWindow, vars
  <2> QED BY <2>1, Zenon DEF BatchInv, CanUndo, Was, FirstWrite, Untouched, LogIp, Ip, Undone
<1> QED BY <1>0, <1>2, <1>6, <1>7, <1>8, <1>9, <1>10, <1>11, <1>12, <1>13, <1>14, <1>15, <1>16, <1>17 DEF Next

(* WriteBatch undoes what it wrote when a write fails, for one caller and    *)
(* batches of any length, addresses repeated or not, while others delete     *)
(* entries and the purge runs, provided the manager refuses at most one      *)
(* write: rollback ignores the errors of its own writes.                     *)
THEOREM FailedBatchUndone ==
  ASSUME NEW w, Callers = {w}, Refusals <= 1
  PROVE  Spec => []BatchUndone
<1> DEFINE I == WriterTyped /\ BatchInv
<1>1. Init => I
  <2> SUFFICES ASSUME Init PROVE BatchInv
    BY WriterInit
  <2>1. \A c \in Callers : job[c].batch = FALSE
    BY DEF Init, NoCall, Call
  <2> QED BY <2>1 DEF BatchInv
<1>2. I /\ [Next]_vars => I'
  BY WriterTypedStep, BatchStep
<1>3. I => BatchUndone
  <2> SUFFICES ASSUME BatchInv, NEW c \in Callers, job[c].batch, job[c].at = "failed", NEW ip \in IPs
               PROVE  map[ip] = job[c].before[ip] \/ (ip \in job[c].gone /\ map[ip] = None)
    BY DEF BatchUndone
  <2>1. job[c].log = <<>> /\ Untouched(c, ip)
    BY DEF BatchInv, CanUndo, Untouched
  <2> QED BY <2>1 DEF BatchInv, CanUndo, Was
<1> HIDE DEF I
<1> QED BY <1>1, <1>2, <1>3, PTL DEF Spec
=============================================================================
