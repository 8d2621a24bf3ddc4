-------------------------------- MODULE MMDB --------------------------------
(***************************************************************************)
(* The MaxMind data decoder of control/failsafe.go: control bytes, the     *)
(* search for country.iso_code in a data record, the skipping of values,   *)
(* and the metadata record.  The decoder reads real control bytes; a key   *)
(* is one byte.  A record is chosen, written by the format's rules, and    *)
(* decoded by the code's.                                                  *)
(***************************************************************************)
EXTENDS Integers, Sequences, SequencesExt

CONSTANTS StrLens,     \* lengths of the strings used as values
          MaxEntries,  \* maxMMDBMapEntries
          NestedMeta   \* may a metadata value be a map or an array?

UTF8 == 2
Uint16 == 5
Uint32 == 6
Map == 7
Uint64 == 9
Array == 11
Bool == 14

\* Keys.
Country == 1
Iso == 2
Other == 3
NodeCount == 4
RecordSize == 5
IPVersion == 6

(***************************************************************************)
(* Values and their encoding by the MaxMind format.                        *)
(***************************************************************************)
Leaf(t, bytes) == [t |-> t, bytes |-> bytes, keys |-> <<>>, kids |-> <<>>]
Node(t, keys, kids) == [t |-> t, bytes |-> <<>>, keys |-> keys, kids |-> kids]
Str(n) == Leaf(UTF8, [i \in 1..n |-> IF i <= 2 THEN 64 + i ELSE 0])

SizeCode(n) == IF n < 29 THEN <<n, <<>>>>
               ELSE IF n < 285 THEN <<29, <<n - 29>>>>
               ELSE <<30, <<(n - 285) \div 256, (n - 285) % 256>>>>

Control(t, n) == (IF t <= 7 THEN <<t * 32 + SizeCode(n)[1]>> ELSE <<SizeCode(n)[1], t - 7>>)
                 \o SizeCode(n)[2]

RECURSIVE Encode(_)
Encode(v) ==
  CASE v.t = Bool -> Control(Bool, v.bytes[1])
    [] v.t \in {Map, Array} ->
         Control(v.t, Len(v.kids)) \o
         FlattenSeq([i \in DOMAIN v.kids |->
                      (IF v.t = Map THEN Control(UTF8, 1) \o <<v.keys[i]>> ELSE <<>>) \o Encode(v.kids[i])])
    [] OTHER -> Control(v.t, Len(v.bytes)) \o v.bytes

(***************************************************************************)
(* The decoder.  pos is the index of the next byte, from 1.                *)
(***************************************************************************)
NoCtrl == <<-1, 0, 0>>

\* The size bytes that follow a control byte, per class of its low five bits.
Long(b, d, p) == CASE b = 29 -> d[p] + 29
                   [] b = 30 -> d[p] * 256 + d[p + 1] + 285
                   [] b = 31 -> d[p] * 65536 + d[p + 1] * 256 + d[p + 2] + 65821

mmdbCtrl(d, pos) ==
  LET n == Len(d)
      extended == d[pos] \div 32 = 0
      p == pos + (IF extended THEN 2 ELSE 1)
      low == d[pos] % 32
      more == IF low < 29 THEN 0 ELSE low - 28
      dtype == IF extended THEN d[pos + 1] + 7 ELSE d[pos] \div 32
  IN IF pos > n \/ (extended /\ pos + 1 > n) \/ (more > 0 /\ p + more - 1 > n) THEN NoCtrl
     ELSE <<dtype, IF more = 0 THEN low ELSE Long(low, d, p), p - pos + more>>

\* A bool has its value in the size bits and no payload.
SkipSize(dtype, size) == IF dtype = Bool THEN 0 ELSE size

RECURSIVE skipMMDBValue(_, _, _, _)
RECURSIVE SkipEntries(_, _, _, _)
SkipEntries(d, pos, dtype, left) ==
  IF left = 0 \/ pos > Len(d) THEN pos
  ELSE LET k == mmdbCtrl(d, pos)
           p == IF dtype = Map THEN pos + k[3] + k[2] ELSE pos
           v == mmdbCtrl(d, p)
       IN SkipEntries(d, skipMMDBValue(d, p + v[3], v[1], v[2]), dtype, left - 1)

skipMMDBValue(d, pos, dtype, size) ==
  IF dtype \in {Map, Array} THEN SkipEntries(d, pos, dtype, size) ELSE pos + SkipSize(dtype, size)

NotFound == <<0, 0>>

\* Key and value headers of the map entry at pos: the key's bytes, whether the
\* key is a string inside the data, the value's header, and where it starts.
EntryAt(d, pos) ==
  LET k == mmdbCtrl(d, pos)
      keyEnd == pos + k[3] + k[2]
      v == mmdbCtrl(d, keyEnd)
      ok == k[1] = UTF8 /\ keyEnd - 1 <= Len(d)
  IN [ok |-> ok, key |-> IF ok THEN SubSeq(d, pos + k[3], keyEnd - 1) ELSE <<>>,
      t |-> v[1], size |-> v[2], at |-> keyEnd + v[3]]

RECURSIVE decodeISOInMap(_, _, _)
decodeISOInMap(d, pos, left) ==
  IF left = 0 \/ pos > Len(d) \/ ~EntryAt(d, pos).ok THEN NotFound
  ELSE LET e == EntryAt(d, pos)
       IN IF e.key = <<Iso>> /\ e.t = UTF8 /\ e.size >= 2 /\ e.at + 1 <= Len(d)
            THEN <<d[e.at], d[e.at + 1]>>
            ELSE decodeISOInMap(d, skipMMDBValue(d, e.at, e.t, e.size), left - 1)

\* The number of entries decodeISOInMap looks at.
Capped(n) == IF n > MaxEntries THEN MaxEntries ELSE n

RECURSIVE ScanRecord(_, _, _)
ScanRecord(d, pos, left) ==
  IF left = 0 \/ pos > Len(d) \/ ~EntryAt(d, pos).ok THEN NotFound
  ELSE LET e == EntryAt(d, pos)
       IN IF e.key = <<Country>> /\ e.t = Map
            THEN decodeISOInMap(d, e.at, Capped(e.size))
            ELSE ScanRecord(d, skipMMDBValue(d, e.at, e.t, e.size), left - 1)

decodeISOCode(d) == LET c == mmdbCtrl(d, 1)
                    IN IF c[1] # Map THEN NotFound ELSE ScanRecord(d, 1 + c[3], c[2])

readBigEndianN(d, pos, n) ==
  LET end == IF pos + n - 1 > Len(d) THEN Len(d) ELSE pos + n - 1
  IN FoldLeft(LAMBDA acc, b : acc * 256 + b, 0, SubSeq(d, pos, end))

NoMeta == [nodes |-> 0, size |-> 0, version |-> 0]

\* One field of the metadata: only 16 and 32 bit integers are taken.
WithField(meta, e, d) ==
  LET v == readBigEndianN(d, e.at, e.size)
  IN IF e.t \notin {Uint16, Uint32} THEN meta
     ELSE CASE e.key = <<NodeCount>> -> [meta EXCEPT !.nodes = v]
            [] e.key = <<RecordSize>> -> [meta EXCEPT !.size = v]
            [] e.key = <<IPVersion>> -> [meta EXCEPT !.version = v]
            [] OTHER -> meta

\* The next key is looked for size bytes on, whatever the value's type.
ValueEnd(e) == e.at + e.size

RECURSIVE ScanMeta(_, _, _, _)
ScanMeta(d, pos, left, meta) ==
  IF left = 0 \/ pos > Len(d) THEN meta
  ELSE LET e == EntryAt(d, pos)
       IN IF ~e.ok THEN NoMeta ELSE ScanMeta(d, ValueEnd(e), left - 1, WithField(meta, e, d))

\* The error returns, a missing or zero field included, are NoMeta.
decodeMetaRecord(d) ==
  LET c == mmdbCtrl(d, 1)
      meta == ScanMeta(d, 1 + c[3], c[2], NoMeta)
  IN IF c[1] # Map \/ meta.nodes = 0 \/ meta.size = 0 THEN NoMeta ELSE meta

(***************************************************************************)
(* The inputs: data records without pointers, and metadata records.        *)
(***************************************************************************)
Simple == {Str(n) : n \in StrLens} \cup {Leaf(Uint32, [i \in 1..n |-> 7]) : n \in {0, 2}}
          \cup {Leaf(Bool, <<b>>) : b \in {0, 1}}
MapsOf(keys, vals) == {Node(Map, <<>>, <<>>)}
                      \cup {Node(Map, <<k>>, <<v>>) : k \in keys, v \in vals}
                      \cup {Node(Map, kk, <<v, w>>) : kk \in {<<k, l>> \in keys \X keys : k # l},
                                                      v \in vals, w \in vals}
Arrays == {Node(Array, <<>>, <<>>)} \cup {Node(Array, <<>>, <<v>>) : v \in Simple}
Wide == {Node(Map, <<Other, Other, Iso>>, <<v, v, Str(2)>>) : v \in Simple}
Values == Simple \cup Arrays \cup Wide \cup MapsOf({Iso, Other}, Simple)
Records == {Node(Map, <<k>>, <<v>>) : k \in {Country, Other}, v \in Values}
           \cup {Node(Map, <<Other, Country>>, <<v, w>>) : v \in Values, w \in Values}

Field(k, t, bytes) == <<k, Leaf(t, bytes)>>
Required == {Field(NodeCount, Uint32, <<1, 2>>), Field(RecordSize, Uint16, <<28>>),
             Field(IPVersion, Uint16, <<6>>)}
Optional == {<<Other, v>> : v \in {Str(n) : n \in StrLens} \cup {Leaf(Uint64, <<1, 2, 3, 4>>)}
                                  \cup (IF NestedMeta THEN MapsOf({Other}, Simple) \cup Arrays ELSE {})}
Metas == {Node(Map, [i \in DOMAIN s |-> s[i][1]], [i \in DOMAIN s |-> s[i][2]]) :
            s \in UNION {SetToSeqs(Required \cup {o}) : o \in Optional}}

VARIABLES kind, rec, out
vars == <<kind, rec, out>>

Init == /\ \/ kind = "data" /\ rec \in Records
           \/ kind = "meta" /\ rec \in Metas
        /\ out = <<>>

Decode == /\ out = <<>>
          /\ out' = IF kind = "data" THEN <<decodeISOCode(Encode(rec))>>
                                     ELSE <<decodeMetaRecord(Encode(rec))>>
          /\ UNCHANGED <<kind, rec>>

Spec == Init /\ [][Decode]_vars

---------------------------------------------------------------------------
At(v, k) == IF v.t = Map /\ k \in Range(v.keys)
              THEN v.kids[CHOOSE i \in DOMAIN v.keys : v.keys[i] = k] ELSE Leaf(Bool, <<0>>)

(* decodeISOCode finds the first two bytes of country.iso_code in every    *)
(* record, whatever strings, numbers, booleans, arrays and maps stand      *)
(* before it, and nothing when the record has no such string or the code   *)
(* stands beyond the entries decodeISOInMap looks at.                      *)
IsoFound ==
  kind = "data" /\ out # <<>> =>
    LET c == At(rec, Country)
        iso == At(c, Iso)
        seen == \E i \in 1..Capped(Len(c.keys)) : c.keys[i] = Iso
    IN out[1] = IF seen /\ iso.t = UTF8 /\ Len(iso.bytes) >= 2 THEN SubSeq(iso.bytes, 1, 2) ELSE NotFound

(* OpenGeoIP "parses its metadata": decodeMetaRecord returns the three     *)
(* fields it needs, in whatever order the record has them and whatever     *)
(* other entry it has.                                                     *)
MetaFound == kind = "meta" /\ out # <<>> => out[1] = [nodes |-> 258, size |-> 28, version |-> 6]
=============================================================================
