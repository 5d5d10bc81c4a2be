---------------------------- MODULE BeaconFilter ----------------------------
(***************************************************************************)
(* Which captured frames an end of the link takes, and where in them it    *)
(* looks for the payload (80211beacons.c): the kernel runs the socket      *)
(* filter on each frame, and packet_handler() finds its way through the    *)
(* radiotap header, the 802.11 header and the SSID.  The two filters       *)
(* differ in the address they look for.  Nothing here keeps a state.       *)
(***************************************************************************)
EXTENDS Integers, Sequences

CONSTANTS
  Types,      \* first frame control bytes
  Addresses,  \* [hi, lo] of the stations in the neighbourhood
  Radiotaps,  \* lengths of the capture's radiotap header
  Ssids,      \* lengths of an SSID
  Sizes,      \* values of the three length bytes
  Captures    \* lengths of a capture

Ends == {"drone", "station"}
\* Two bytes and four: 00:10:7b:8a:55:4b and 00:10:7b:a4:64:46.
Mac(e) == [hi |-> 16, lo |-> IF e = "drone" THEN \h7b8a554b ELSE \h7ba46446]
Broadcast == [hi |-> 65535, lo |-> -1]   \* of a signed word
Beacon == 128

ASSUME FilterAssumption ==
  /\ Beacon \in Types /\ Types \subseteq 0..255
  /\ {Mac(e) : e \in Ends} \subseteq Addresses
  /\ Addresses \subseteq [hi : Int, lo : Int]
\* Two bytes and three; 4 are the header's own, and an SSID has at most 32.
ASSUME LengthAssumption ==
  /\ Radiotaps \cup Ssids \cup Sizes \cup Captures \subseteq Nat
  /\ \A n \in Radiotaps : 4 <= n /\ n < 65536
  /\ \A n \in Ssids : n <= 32
  /\ \A n \in Sizes : n < 16777216

\* A captured frame: its 802.11 header, and what lies behind it.
Frames == [type: Types, to: Addresses, from: Addresses, radiotap: Radiotaps,
           ssid: Ssids, size: Sizes, caplen: Captures]

Peer_Own(e) == e
Peer(e) == CHOOSE p \in Ends : p # e

-----------------------------------------------------------------------------
(* code_drone[] and code_pilot[]: what to do, jt, jf, k.  Loads are of the *)
(* byte "ldb", half word "ldh" or word "ldw" at x + k.                     *)

Program == [e \in Ends |-> LET mac == Mac(Peer(e)) IN
  << <<"low",  0,  0, 3>>,        <<"shl",  0,  0, 8>>,      <<"tax",  0,  0, 0>>,
     <<"low",  0,  0, 2>>,        <<"orx",  0,  0, 0>>,      <<"st",   0,  0, 0>>,
     <<"tax",  0,  0, 0>>,
     <<"ldb",  0,  0, 0>>,        <<"and",  0,  0, 252>>,    <<"jeq",  0, 33, Beacon>>,
     <<"ldb",  0,  0, 0>>,        <<"jset", 31, 0, 4>>,      <<"jset", 0, 21, 8>>,
     <<"ldb",  0,  0, 1>>,        <<"jset", 0,  9, 2>>,      <<"jset", 0,  4, 1>>,
     <<"ldw",  0,  0, 26>>,       <<"jeq",  0, 12, mac.lo>>,
     <<"ldh",  0,  0, 24>>,       <<"jeq", 22, 10, mac.hi>>,
     <<"ldw",  0,  0, 18>>,       <<"jeq",  0, 16, mac.lo>>,
     <<"ldh",  0,  0, 16>>,       <<"jeq", 18, 14, mac.hi>>,
     <<"ldw",  0,  0, 12>>,       <<"jeq",  0,  2, mac.lo>>,
     <<"ldh",  0,  0, 10>>,       <<"jeq", 14,  0, mac.hi>>,
     <<"ldb",  0,  0, 1>>,        <<"jset", 0,  8, 1>>,
     <<"ldw",  0,  0, 18>>,       <<"jeq",  0, 11, mac.lo>>,
     <<"ldh",  0,  0, 16>>,       <<"jeq",  8,  9, mac.hi>>,
     <<"ldw",  0,  0, 12>>,       <<"jeq",  0,  2, mac.lo>>,
     <<"ldh",  0,  0, 10>>,       <<"jeq",  4,  0, mac.hi>>,
     <<"ldw",  0,  0, 6>>,        <<"jeq",  0,  3, mac.lo>>,
     <<"ldh",  0,  0, 4>>,        <<"jeq",  0,  1, mac.hi>>,
     <<"ret",  0,  0, 262144>>,   <<"ret",  0,  0, 0>> >>]

\* The frame behind a radiotap header: receiver at 4, sender and BSSID at 10, 16.
Load(f, op, k) ==
  CASE op = "ldb" /\ k = 0 -> f.type
    [] op = "ldw" /\ k = 6 -> f.to.lo
    [] op = "ldh" /\ k = 4 -> f.to.hi
    [] op = "ldw" /\ k \in {12, 18} -> f.from.lo
    [] op = "ldh" /\ k \in {10, 16} -> f.from.hi
    [] OTHER -> 0

Joined(m, n) == m + n   \* of a high and a low byte

Accumulator(f, s, op, k) ==
  CASE op = "low" /\ k = 2 -> f.radiotap % 256
    [] op = "low" /\ k = 3 -> f.radiotap \div 256
    [] op = "shl" /\ k = 8 -> s.a * 256
    [] op = "orx" -> Joined(s.a, s.x)
    [] op = "and" -> s.a - (s.a % 4)
    [] op \in {"ldb", "ldh", "ldw"} -> IF s.x = f.radiotap THEN Load(f, op, k) ELSE 0
    [] OTHER -> s.a

BitSet(n, k) == (n \div k) % 2 = 1

\* A jump skips jt or jf instructions.
Holds(s, op, k) == IF op = "jeq" THEN s.a = k ELSE BitSet(s.a, k)
Skipped(s, i) ==
  IF i[1] \in {"jeq", "jset"} THEN IF Holds(s, i[1], i[4]) THEN i[2] ELSE i[3] ELSE 0

\* One instruction i, on the state s of the machine: the next instruction from
\* 0, the registers, and what the filter has returned.
Instruction(f, s, i) ==
  [pc |-> s.pc + 1 + Skipped(s, i),
   a |-> Accumulator(f, s, i[1], i[4]),
   x |-> IF i[1] = "tax" THEN s.a ELSE s.x,
   returned |-> IF i[1] = "ret" THEN i[4] ELSE -1]

Start == [pc |-> 0, a |-> 0, x |-> 0, returned |-> -1]
Cycle(e, f, s) ==
  IF s.returned = -1 /\ s.pc < Len(Program[e])
  THEN Instruction(f, s, Program[e][s.pc + 1]) ELSE s

\* Jumps go forward, so a run takes at most one step for each instruction.
Machine(e, f) ==
  LET state[n \in 0..Len(Program[e])] ==
        IF n = 0 THEN Start ELSE Cycle(e, f, state[n - 1])
  IN  state
Filter(e, f) == Machine(e, f)[Len(Program[e])]

Passes(e, f) == Filter(e, f).returned > 0

-----------------------------------------------------------------------------
(* packet_handler().                                                       *)

Overhead == 30 + 512   \* GCRY_PAYLOAD + 30

\* uint8_t hlen: where the SSID's length should be.
Hlen_NoTag(f) == (f.radiotap + 24 + 12) % 256
Hlen(f) == ((f.radiotap % 256) + 24 + 13) % 256

\* Bytes anywhere else are something else.
SsidFound(f) == IF Hlen(f) = f.radiotap + 37 THEN {f.ssid} ELSE Ssids
SizeFound(f, tag) == IF tag = f.radiotap + 38 + f.ssid THEN {f.size} ELSE Sizes

\* gcry_start: where the payload may be found, nowhere when the frame is dropped.
\* A header that does not begin with two zeros, and a size below what is put
\* around a payload, are no frames of this kind but garbled ones.
Handle(f) ==
  IF f.caplen < Overhead THEN {}
  ELSE UNION { LET tag == Hlen(f) + ssid + 1 IN
               {tag + 3 : size \in {n \in SizeFound(f, tag) : n > 0 /\ tag + 3 + n <= f.caplen}} :
               ssid \in SsidFound(f) }

\* Where inject_command() has put it.
PayloadAt(f) == f.radiotap + 24 + 13 + 1 + f.ssid + 3
Decodable(f) == Handle(f) = {PayloadAt(f)}

-----------------------------------------------------------------------------
\* What the filter is compiled from: "type mgt subtype beacon and (ether host
\* ...)".  And the frames that it should and does not pass, or the reverse.
PeerBeacon(e, f) ==
  /\ f.type \in Beacon..Beacon + 3
  /\ \E other \in Ends \ {e} : Mac(other) \in {f.to, f.from}
Misjudged == [e \in Ends |-> {f \in Frames : Passes(e, f) # PeerBeacon(e, f)}]

\* What the other end sends, received whole, behind a radiotap header that fits
\* the 8 bits of hlen.  And the frames of this kind that are not decoded.
Whole(e, f) ==
  /\ f.type = Beacon /\ f.to = Broadcast
  /\ f.from \in {Mac(other) : other \in Ends \ {e}}
  /\ f.size = 528 /\ f.caplen >= PayloadAt(f) + 528
  /\ f.radiotap + 37 < 256
Misread == [e \in Ends |-> {f \in Frames : Whole(e, f) /\ ~(Passes(e, f) /\ Decodable(f))}]

=============================================================================
