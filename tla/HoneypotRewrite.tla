-------------------------- MODULE HoneypotRewrite --------------------------
(***************************************************************************)
(* The header rewrite of a redirected packet (ebpf-kern/src/honeypot.rs,   *)
(* try_redirect) on a little-endian machine, byte by byte, with bytes      *)
(* scaled down to 0..B-1: a u16 is two bytes, a u32 four.  A packet has a  *)
(* header word that stands for the rest of the IPv4 header and, in the TCP *)
(* checksum, for the rest of the segment and its pseudo header.            *)
(***************************************************************************)
EXTENDS Integers, Sequences, FiniteSetsExt

CONSTANTS B,      \* values of a byte
          Bytes   \* the byte values that packets and targets are made of

VARIABLES pkt,    \* the packet: byte sequences [head, check, dst, proto, port, l4check]
          target, \* HoneypotTarget: [dst, port], as Go wrote them
          out     \* "none", "tx" or "drop"

rewriteVars == <<pkt, target, out>>

W == B * B      \* 2^16
DW == W * W     \* 2^32

Words == Bytes \X Bytes

\* u16::from_be of a word in memory; the word as a little-endian machine
\* loads it; the bytes that storing a u16 leaves in memory.
from_be(w) == w[1] * B + w[2]
load(w) == w[1] + w[2] * B
store(n) == <<n % B, n \div B>>

----------------------------------------------------------------------------
(* Checksums                                                               *)

Fold_NoCarry(sum) == sum % W
\* Two rounds of (sum & 0xFFFF) + (sum >> 16).
Fold(sum) == LET once == (sum % W) + (sum \div W) IN (once % W) + (once \div W)

Complement(n) == (W - 1) - (n % W)

\* compute_ip_checksum over the header words, the checksum set to zero.
compute_ip_checksum(p) ==
  Complement(Fold(from_be(p.head) + from_be(<<p.dst[1], p.dst[2]>>) + from_be(<<p.dst[3], p.dst[4]>>)))

\* The halves of a u32 address: >> 16 and & 0xFFFF of the loaded number.
High(a) == load(<<a[3], a[4]>>)
Low(a) == load(<<a[1], a[2]>>)

update_l4_checksum(check, oldIP, newIP, oldPort, newPort) ==
  Complement(Fold((Complement(load(check)) - High(oldIP) - Low(oldIP) + High(newIP) + Low(newIP)
                   - from_be(oldPort) + from_be(newPort) + 3 * DW) % DW))

----------------------------------------------------------------------------
\* A checksum that the receiver accepts: the words, each read in network
\* order, and the checksum add up to all ones.
OnesSum(sum) == sum % (W - 1) = 0
HeaderValid(p) ==
  OnesSum(from_be(p.head) + from_be(p.check) + from_be(<<p.dst[1], p.dst[2]>>) + from_be(<<p.dst[3], p.dst[4]>>))
SegmentValid(p) ==
  OnesSum(from_be(p.head) + from_be(p.l4check) + from_be(<<p.dst[1], p.dst[2]>>) + from_be(<<p.dst[3], p.dst[4]>>)
          + from_be(p.port))
ValidCheck(sum) == LET c == (W - 1) - (sum % (W - 1)) IN <<c \div B, c % B>>

NoPort == <<0, 0>>

\* A packet as it arrives, with the checksum its sender computed.
RewriteInit ==
  /\ \E head \in Words, d1 \in Words, d2 \in Words, port \in Words, proto \in {"tcp", "icmp"} :
       LET dst == d1 \o d2
           sum == from_be(head) + from_be(d1) + from_be(d2)
       IN  pkt = [head |-> head, check |-> ValidCheck(sum), dst |-> dst, proto |-> proto, port |-> port,
                  l4check |-> ValidCheck(sum + from_be(port))]
  /\ \E d1 \in Words, d2 \in Words, port \in Words : target = [dst |-> d1 \o d2, port |-> port]
  /\ out = "none"

\* [4]: the destination and the header checksum.
RewriteIP(p) == LET q == [p EXCEPT !.dst = target.dst] IN [q EXCEPT !.check = store(compute_ip_checksum(q))]

\* [5]: the port, read from the target as a native u16 and stored with to_be.
RewritePort(p, old) ==
  IF target.port = NoPort \/ p.proto = "icmp" THEN p
  ELSE LET port == <<target.port[2], target.port[1]>>
       IN  [p EXCEPT !.port = port,
                     !.l4check = store(update_l4_checksum(@, old, target.dst, p.port, port))]

\* A disabled or empty target drops the packet.
try_redirect ==
  /\ out = "none"
  /\ IF target.dst = <<0, 0, 0, 0>> THEN out' = "drop" /\ UNCHANGED pkt
     ELSE out' = "tx" /\ pkt' = RewritePort(RewriteIP(pkt), pkt.dst)
  /\ UNCHANGED target

RewriteNext == try_redirect
RewriteSpec == RewriteInit /\ [][RewriteNext]_rewriteVars

----------------------------------------------------------------------------
(* Properties                                                              *)

\* The carries of compute_ip_checksum are all folded in: read in host order,
\* as compute_ip_checksum returned it, the new checksum fits the new header.
HeaderSumComplete ==
  out = "tx" => HeaderValid([pkt EXCEPT !.check = <<pkt.check[2], pkt.check[1]>>])

\* honeypot.rs, "We recompute from scratch after any header modification": the
\* header that leaves the machine carries a checksum its receiver accepts.
HeaderChecksumValid == out = "tx" => HeaderValid(pkt)

\* types.go, "TCP/UDP port override (big-endian)": the port on the wire is the
\* one the target was registered with.
PortDelivered ==
  out = "tx" /\ target.port # NoPort /\ pkt.proto = "tcp" => pkt.port = target.port

\* honeypot.rs, "Update TCP/UDP checksum after changing IP dst and/or dst_port".
SegmentChecksumValid == out = "tx" /\ pkt.proto = "tcp" => SegmentValid(pkt)
=============================================================================
