------------------------------- MODULE GeoIP -------------------------------
(***************************************************************************)
(* The country lookup of control/failsafe.go over a MaxMind search tree:   *)
(* the checks of OpenGeoIP, the depth-first search that flattens the       *)
(* leaves into isoTable, and the lookup that walks the tree.  The three    *)
(* record layouts are kept with their digits scaled down: a byte is two    *)
(* nibbles of base 2, a 24 bit record is Bytes bytes, a 32 bit record one  *)
(* more, and the 28 bit layout shares the byte in the middle.  What        *)
(* decodeISOCode finds at an offset of the data section is in data; MMDB   *)
(* models that decoder.                                                    *)
(***************************************************************************)
EXTENDS Integers, Sequences, SequencesExt

CONSTANTS N,          \* maxMMDBNodes, the most nodes a file may have
          Bytes,      \* bytes of a 24 bit record (3)
          Sep,        \* size of the separator before the data section (16)
          DataLen,    \* length of the data section
          Bits,       \* bits of an address (32)
          Wrap,       \* the width of dataBase (2^32)
          Isos        \* country codes

Nib == 2
Byte == Nib * Nib
NoIso == "none"
Sizes == {24, 28, 32}

\* Values a record of each size can hold.
Capacity(size) == Byte ^ Bytes * (CASE size = 24 -> 1 [] size = 28 -> Nib [] size = 32 -> Byte)

VARIABLES pc,      \* "open", "rejected", "build" or "ready"
          meta,    \* [nodes, size, version, fileLen] of the file
          raw,     \* the bytes of every node
          data,    \* country code at every offset of the data section
          dataBase, stack, visited, leafSet, isoTable
vars == <<pc, meta, raw, data, dataBase, stack, visited, leafSet, isoTable>>

(***************************************************************************)
(* The layouts, as the MaxMind format defines them.                        *)
(***************************************************************************)
Digits(v, n) == [i \in 1..n |-> (v \div Byte ^ (n - i)) % Byte]
EncodeNode(size, l, r) ==
  CASE size = 24 -> Digits(l, Bytes) \o Digits(r, Bytes)
    [] size = 28 -> Digits(l, Bytes) \o <<(l \div Byte ^ Bytes) * Nib + r \div Byte ^ Bytes>> \o Digits(r, Bytes)
    [] size = 32 -> Digits(l, Bytes + 1) \o Digits(r, Bytes + 1)

(***************************************************************************)
(* OpenGeoIP.                                                              *)
(***************************************************************************)
bytesPerNode(size) == CASE size = 24 -> 2 * Bytes [] size = 28 -> 2 * Bytes + 1 [] size = 32 -> 2 * Bytes + 2

TreeEnd(m) == m.nodes * bytesPerNode(m.size) + Sep

Accepted(m) == /\ m.version \in {4, 6}
               /\ m.size \in Sizes
               /\ m.nodes <= N
               /\ TreeEnd(m) <= m.fileLen /\ TreeEnd(m) < Wrap

\* A file may hold any tree whose records fit, leaves one past the end of the
\* data section included.
TreeValues == {v \in 0..meta.nodes + Sep + DataLen : v < Capacity(meta.size)}

OpenGeoIP ==
  /\ pc = "open"
  /\ IF ~Accepted(meta) THEN pc' = "rejected" /\ UNCHANGED <<raw, data, dataBase, stack>>
     ELSE /\ pc' = "build" /\ dataBase' = TreeEnd(meta) /\ stack' = <<0>>
          /\ \E t \in [0..meta.nodes - 1 -> TreeValues \X TreeValues] :
               raw' = [n \in DOMAIN t |-> EncodeNode(meta.size, t[n][1], t[n][2])]
          /\ data' \in [0..DataLen - 1 -> Isos \cup {NoIso}]
  /\ UNCHANGED <<meta, visited, leafSet, isoTable>>

Number(bytes) == FoldLeft(LAMBDA acc, b : acc * Byte + b, 0, bytes)

Nibble28_AsDocumented(b, dir) ==
  IF dir = 0 THEN Number(SubSeq(b, 1, Bytes)) * Nib + b[Bytes + 1] \div Nib
             ELSE (b[Bytes + 1] % Nib) * Byte ^ Bytes + Number(SubSeq(b, Bytes + 2, 2 * Bytes + 1))

\* case 28: the shared byte holds the top nibble of either record.
Nibble28(b, dir) ==
  IF dir = 0 THEN (b[Bytes + 1] \div Nib) * Byte ^ Bytes + Number(SubSeq(b, 1, Bytes))
             ELSE (b[Bytes + 1] % Nib) * Byte ^ Bytes + Number(SubSeq(b, Bytes + 2, 2 * Bytes + 1))

readRecord(node, dir) ==
  LET b == raw[node]
      half == Len(b) \div 2
  IN IF (node + 1) * bytesPerNode(meta.size) > dataBase THEN meta.nodes
     ELSE IF meta.size = 28 THEN Nibble28(b, dir)
     ELSE Number(SubSeq(b, dir * half + 1, dir * half + half))

\* A record below nodeCount is the number of a node.
Inner(child) == child < meta.nodes

Pushed(node) == SelectSeq(<<readRecord(node, 0), readRecord(node, 1)>>, Inner)

Leaves(node) == {v \in {readRecord(node, 0), readRecord(node, 1)} : v >= meta.nodes + Sep}

Seen(node) == node \in visited

\* One round of the loop of buildISOTable.
Visit == /\ pc = "build" /\ stack # <<>>
         /\ LET top == Last(stack) IN
              IF Seen(top) THEN stack' = Front(stack) /\ UNCHANGED <<visited, leafSet>>
              ELSE /\ stack' = Front(stack) \o Pushed(top)
                   /\ visited' = visited \cup {top}
                   /\ leafSet' = leafSet \cup Leaves(top)
         /\ UNCHANGED <<pc, meta, raw, data, dataBase, isoTable>>

TableIndex(leaf) == leaf - meta.nodes - Sep

\* Offsets beyond the file are left empty.
DataAt(idx) == IF idx < DataLen THEN data[idx] ELSE NoIso

\* The rest of buildISOTable: a table up to the largest index, filled per leaf.
FillTable == /\ pc = "build" /\ stack = <<>>
             /\ LET idx == {TableIndex(l) : l \in leafSet}
                    size == IF idx = {} THEN 0 ELSE 1 + CHOOSE m \in idx : \A i \in idx : i <= m
                IN isoTable' = [i \in 1..size |-> IF i - 1 \in idx THEN DataAt(i - 1) ELSE NoIso]
             /\ pc' = "ready"
             /\ UNCHANGED <<meta, raw, data, dataBase, stack, visited, leafSet>>

\* The walk from the most significant bit; addresses are sequences of bits.
RECURSIVE traverseTree(_, _)
traverseTree(node, ip) ==
  IF ip = <<>> THEN node
  ELSE LET next == readRecord(node, Head(ip))
       IN IF next >= meta.nodes THEN next ELSE traverseTree(next, Tail(ip))

LookupIPv4(ip) ==
  LET leaf == traverseTree(0, ip)
  IN IF leaf < meta.nodes + Sep \/ TableIndex(leaf) >= Len(isoTable) THEN NoIso
     ELSE isoTable[TableIndex(leaf) + 1]

Init == /\ pc = "open"
        /\ meta \in [nodes : 1..N + 1, size : Sizes \cup {16}, version : {4, 5},
                     fileLen : {2 * Bytes * N + Sep, (2 * Bytes + 2) * (N + 1) + Sep + DataLen}]
        /\ raw = <<>> /\ data = <<>> /\ dataBase = 0
        /\ stack = <<>> /\ visited = {} /\ leafSet = {} /\ isoTable = <<>>

Next == OpenGeoIP \/ Visit \/ FillTable

\* OpenGeoIP runs to its end.
Fairness == WF_vars(Next)
Spec == Init /\ [][Next]_vars /\ Fairness

---------------------------------------------------------------------------
TypeOK == /\ pc \in {"open", "rejected", "build", "ready"}
          /\ visited \subseteq 0..N - 1 /\ stack \in Seq(0..N - 1)

(* The tree and the separator of an accepted file end inside the file, and *)
(* every node on the stack is in the tree: readRecord's own guard, which   *)
(* lets the separator pass, is never what keeps a read in bounds.          *)
TreeInFile == pc \in {"build", "ready"} =>
                /\ meta.nodes * Len(raw[0]) + Sep <= meta.fileLen
                /\ \A i \in DOMAIN stack : stack[i] < meta.nodes

\* The value an address leads to, by the definition of the tree.
Child(n, d) == LET b == raw[n] IN
  CHOOSE v \in TreeValues : \E w \in TreeValues :
    b = IF d = 0 THEN EncodeNode(meta.size, v, w) ELSE EncodeNode(meta.size, w, v)
RECURSIVE Walk(_, _)
Walk(n, ip) == IF n >= meta.nodes \/ ip = <<>> THEN n ELSE Walk(Child(n, Head(ip)), Tail(ip))
CountryOf(ip) == LET v == Walk(0, ip) IN
  IF v - meta.nodes - Sep \in DOMAIN data THEN data[v - meta.nodes - Sep] ELSE NoIso

(* LookupIPv4 gives every address the country code at the data record its  *)
(* bits lead to, for every tree, every record size and also where nodes    *)
(* are shared: the flattened table loses no reachable leaf.                *)
LookupExact == pc = "ready" => \A ip \in [1..Bits -> {0, 1}] : LookupIPv4(ip) = CountryOf(ip)

(* The search of buildISOTable ends for every tree, also one whose records *)
(* lead back to a node above.                                              *)
BuildEnds == <>(pc \in {"rejected", "ready"})
=============================================================================
