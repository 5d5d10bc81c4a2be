--------------------------- MODULE BeaconReceive ---------------------------
(***************************************************************************)
(* Frames from one end of the beacon link to the program at the other      *)
(* (80211beacons.c; pilot_recv() of imu.c, telemetry_recv() of             *)
(* pilot/main.c).  A sender numbers its frames from 1 again when it is     *)
(* restarted.  Frames are lost, garbled or cut short on the way, not       *)
(* reordered: a beacon is not acknowledged and takes one hop.  An end also *)
(* captures its own beacons and those of others.                           *)
(*                                                                         *)
(* Both ends share the receiving code but not what they do with its result: *)
(* the drone keeps its buffer and ignores the length, the station clears   *)
(* its buffer and looks at the length.                                     *)
(***************************************************************************)
EXTENDS BeaconFilter

CONSTANTS
  SeqRange,   \* 2^40, sequence numbers
  IntRange,   \* 2^32, what a shifted int holds
  SignAt,     \* 2^31, its sign bit
  OnAir,      \* frames on the air and in the socket
  MaxFrames,  \* frames sent in a behaviour
  OnTheAir    \* which of Frames are captured

ASSUME NumberAssumption ==
  /\ {SignAt, IntRange, SeqRange, OnAir, MaxFrames} \subseteq Nat \ {0}
  /\ IntRange = 2 * SignAt
  /\ SeqRange % IntRange = 0 /\ SeqRange \div IntRange <= 256
\* Both ends send to everybody (header_drone, header_pilot).
ASSUME AirAssumption ==
  /\ OnTheAir \subseteq Frames
  /\ \A f \in OnTheAir : (\E e \in Ends : f.from = Mac(e)) => f.to = Broadcast

Numbers == 0..SeqRange - 1
Ids == 0..MaxFrames
Blank == 0

VARIABLES
  end,       \* who receives
  seqTx,     \* seq_num_tx of the sender
  air,       \* frames sent: which one, its number, its headers
  buffer,    \* the frame in recv_command, Blank if its first byte is 0
  length,    \* recv_len is more than a telemetry header
  seqRx,     \* seq_num_rx
  seqnum,    \* the caller's copy
  at,        \* where the receiving thread is
  \* history
  sent,      \* frames sent so far, which numbers them
  due,       \* the last frame of the other end received whole, and its number
  taken,     \* the last frame that was decoded
  obeyed     \* the last two frames applied or shown, and the number shown

vars == <<end, seqTx, air, buffer, length, seqRx, seqnum, at, sent, due, taken, obeyed>>

Nothing == [id |-> Blank, n |-> 0, shown |-> 0, by |-> Peer(end)]

\* A link that has been up for any time, and no frame on its way.
Init ==
  /\ end \in {"drone", "station"}
  /\ seqTx \in Numbers /\ seqRx \in {0, seqTx} /\ seqnum = seqRx
  /\ air = <<>> /\ buffer = Blank /\ length = FALSE /\ at = "receive"
  /\ sent = 0 /\ due = Nothing /\ taken = Nothing /\ obeyed = <<Nothing, Nothing>>

-----------------------------------------------------------------------------
(* The sender and the air.                                                 *)

\* inject_command(): the number is raised and masked to 40 bits.
Following(n) == (n + 1) % SeqRange

\* Who sent a frame: one end, or another station.
By(f) == IF \E e \in Ends : f.from = Mac(e) THEN CHOOSE e \in Ends : f.from = Mac(e)
         ELSE "other"

Inject ==
  /\ sent < MaxFrames /\ Len(air) < OnAir
  /\ sent' = sent + 1
  /\ seqTx' = Following(seqTx)
  /\ \E f \in OnTheAir :
       By(f) = Peer(end) /\ air' = Append(air, [id |-> sent', n |-> seqTx', frame |-> f])
  /\ UNCHANGED <<end, buffer, length, seqRx, seqnum, at, due, taken, obeyed>>

\* Its own beacons, numbered by itself, and other stations'.
Overhear ==
  /\ sent < MaxFrames /\ Len(air) < OnAir
  /\ sent' = sent + 1
  /\ \E f \in OnTheAir :
       By(f) # Peer(end) /\ air' = Append(air, [id |-> sent', n |-> 1, frame |-> f])
  /\ UNCHANGED <<end, seqTx, buffer, length, seqRx, seqnum, at, due, taken, obeyed>>

Lose ==
  /\ air # <<>>
  /\ air' = Tail(air)
  /\ UNCHANGED <<end, seqTx, buffer, length, seqRx, seqnum, at, sent, due, taken, obeyed>>

RestartSender ==
  /\ seqTx' = 0
  /\ UNCHANGED <<end, air, buffer, length, seqRx, seqnum, at, sent, due, taken, obeyed>>

-----------------------------------------------------------------------------
(* recv_80211beacon().                                                     *)

\* The frames each end's socket filter lets through, and those whose checksum
\* fits: both ends encrypt with the same key, so that a frame of either does
\* once its payload has been found.
Passed == [e \in Ends |-> {f \in OnTheAir : Passes(e, f)}]
Sound == {f \in OnTheAir : Decodable(f) /\ By(f) \in Ends}
Due(f) == [id |-> f.id, n |-> f.n, shown |-> 0, by |-> By(f.frame)]

\* The station clears its buffer before every call.
Cleared == IF end = "station" THEN Blank ELSE buffer

Timeout ==
  /\ at = "receive" /\ air = <<>>
  /\ buffer' = Cleared
  /\ at' = "use"
  /\ UNCHANGED <<end, seqTx, air, length, seqRx, seqnum, sent, due, taken, obeyed>>

\* What the socket filter rejects never reaches the program.
Arrives == at = "receive" /\ air # <<>> /\ Head(air).frame \in Passed[end]

Reject ==
  /\ at = "receive" /\ air # <<>> /\ Head(air).frame \notin Passed[end]
  /\ air' = Tail(air)
  /\ due' = IF Whole(end, Head(air).frame) THEN Due(Head(air)) ELSE due
  /\ UNCHANGED <<end, seqTx, buffer, length, seqRx, seqnum, at, sent, taken, obeyed>>

\* packet_handler() drops a short frame, decode_packet() one whose checksum is
\* wrong, before either touches the buffer.
Discard ==
  /\ Arrives
  /\ \E garbled \in BOOLEAN :
       /\ garbled \/ Head(air).frame \notin Sound
       /\ due' = IF ~garbled /\ Whole(end, Head(air).frame) THEN Due(Head(air)) ELSE due
  /\ air' = Tail(air)
  /\ buffer' = Cleared /\ length' = FALSE
  /\ at' = "use"
  /\ UNCHANGED <<end, seqTx, seqRx, seqnum, sent, taken, obeyed>>

\* The number is put together from ints shifted by up to 56 bits: a set bit 31
\* extends its sign, and the bytes above come out of the shift as zero or, on
\* a machine that shifts by the count modulo 32, over the lowest byte.
SignSet(n) == n % IntRange >= SignAt
Low(n) == n % IntRange
High(n) == n \div IntRange
Rebuilt(n) ==
  {Low(n)} \cup {c \in Low(n)..(Low(n) + High(n)) :
    \A k \in {2^i : i \in 0..7} : BitSet(c, k) <=> BitSet(Low(n), k) \/ BitSet(High(n), k)}

\* decode_packet(): an old number is only printed.
Heard_LaterOnly(c) == c > seqRx
Heard(c) == TRUE

\* A number with the sign extended is refused, after the decryption; then
\* packet_handler() takes the length back.
LengthOf_Refused(accepted) == TRUE
LengthOf(accepted) == accepted

Decode ==
  /\ Arrives /\ Head(air).frame \in Sound
  /\ air' = Tail(air)
  /\ LET f == Head(air) IN
       /\ buffer' = f.id
       /\ taken' = Due(f)
       /\ due' = IF By(f.frame) = Peer(end) THEN taken' ELSE due
       /\ \E c \in Rebuilt(f.n) :
            LET accepted == ~SignSet(f.n) /\ Heard(c) IN
            /\ length' = LengthOf(accepted)
            /\ seqRx' = IF accepted THEN c ELSE seqRx
            /\ seqnum' = IF accepted THEN c ELSE seqnum
  /\ at' = "use"
  /\ UNCHANGED <<end, seqTx, sent, obeyed>>

-----------------------------------------------------------------------------
(* What the two programs do with it.                                       *)

\* apply_pilot() zeroes the first byte of what it takes.
Consumed_Left == buffer
Consumed == Blank

Wanted == buffer # Blank /\ (end = "station" => length)

Use ==
  /\ at = "use" /\ Wanted
  /\ obeyed' = <<obeyed[2], [taken EXCEPT !.id = buffer, !.shown = seqnum]>>
  /\ IF end = "drone" THEN buffer' = Consumed /\ length' = length
     ELSE buffer' = buffer /\ length' = FALSE
  /\ at' = "receive"
  /\ UNCHANGED <<end, seqTx, air, seqRx, seqnum, sent, due, taken>>

UseNothing ==
  /\ at = "use" /\ ~Wanted
  /\ at' = "receive"
  /\ UNCHANGED <<end, seqTx, air, buffer, length, seqRx, seqnum, sent, due, taken, obeyed>>

\* reset_recv_seqnum(), of the drone's failsafe and of the station's new target:
\* the number only printed is forgotten, in the drone at any moment.
ResetSeqnum ==
  /\ end = "station" => at = "receive"
  /\ seqRx' = 0
  /\ UNCHANGED <<end, seqTx, air, buffer, length, seqnum, at, sent, due, taken, obeyed>>

\* A new process: its globals, its buffer and its socket are empty.  The drone does
\* not initialise its buffer, which lies on the stack of a new thread, below all
\* that has been written there.
RestartReceiver ==
  /\ air' = <<>> /\ buffer' = Blank /\ length' = FALSE
  /\ seqRx' = 0 /\ seqnum' = 0 /\ at' = "receive"
  /\ taken' = Nothing /\ due' = Nothing
  /\ UNCHANGED <<end, seqTx, sent, obeyed>>

Next ==
  \/ Inject \/ Overhear \/ Lose \/ RestartSender
  \/ Timeout \/ Reject \/ Discard \/ Decode \/ Use \/ UseNothing
  \/ ResetSeqnum \/ RestartReceiver

Spec == Init /\ [][Next]_vars

-----------------------------------------------------------------------------
\* A frame passes exactly when it is a beacon to or from the other end, by
\* forty-four instructions of which most are for other kinds of frame; an end
\* never takes its own beacons for the other's (code_drone, code_pilot,
\* header_drone, header_pilot).
PassesPeerBeacons == Misjudged[end] = {}

\* A whole frame of the other end is decoded from the byte its sender put the
\* payload at, for every radiotap header that fits and every SSID
\* (inject_command, packet_handler).
WholeIsDecoded == Misread[end] = {}

\* Although nothing compares the sequence numbers and the receiver uses its
\* buffer after every call, also after one that brought nothing, no frame is
\* applied or shown twice, none after a later one, and none but the other end's,
\* whichever end is restarted (pilot_recv, telemetry_recv, decode_packet).
OnceInOrder ==
  /\ obeyed[1].id < obeyed[2].id \/ obeyed[2].id = Blank
  /\ obeyed[2].by = Peer(end)

\* Nothing is kept waiting: a frame of the other end that arrives whole is the
\* next one used, also the low numbers of a restarted sender, and in the drone
\* even one whose number is refused.  The station waits until the sign bit of the
\* numbers is clear again (filter, packet_handler, decode_packet).
Usable(n) == end = "drone" \/ ~SignSet(n)
WholeIsUsed == at = "receive" /\ due.id # Blank /\ Usable(due.n) => obeyed[2].id = due.id

\* The page never shows a frame whose number was refused, and for the first
\* 2^31 frames of a sender the number beside the data is that of the frame
\* (packet_handler, telemetry_recv).
PageTruthful ==
  end = "station" /\ obeyed[2].id # Blank =>
    /\ ~SignSet(obeyed[2].n)
    /\ obeyed[2].n < IntRange => obeyed[2].shown = obeyed[2].n

-----------------------------------------------------------------------------
(***************************************************************************)
(* What makes OnceInOrder, WholeIsUsed and PageTruthful inductive.  The    *)
(* frames of a socket are numbered upwards, above all that was taken or    *)
(* obeyed.  When the program is about to use its buffer and would, the     *)
(* buffer holds the frame just taken, which is newer than all it obeyed;   *)
(* when it listens again there is nothing to use left.                     *)
(***************************************************************************)
AirFrame == [id: Nat \ {0}, n: Nat, frame: OnTheAir]
TakenFrame == [id: Nat, n: Nat, shown: Nat, by: Ends \cup {"other"}]

TypeOK ==
  /\ end \in Ends /\ seqTx \in Numbers /\ sent \in Nat
  /\ air \in Seq(AirFrame)
  /\ buffer \in Nat /\ length \in BOOLEAN
  /\ seqRx \in Nat /\ seqnum \in Nat /\ at \in {"receive", "use"}
  /\ due \in TakenFrame /\ taken \in TakenFrame /\ obeyed \in TakenFrame \X TakenFrame

\* The frames in the socket come later than frame id, and after each other.
Later(id) ==
  /\ id <= sent
  /\ \A i \in 1..Len(air) : id < air[i].id /\ air[i].id <= sent
Numbered ==
  /\ \A i, j \in 1..Len(air) : i < j => air[i].id < air[j].id
  /\ Later(obeyed[2].id)

Fresh ==
  IF at = "use" /\ buffer # Blank
    THEN buffer = taken.id /\ obeyed[2].id < buffer /\ Later(buffer)
    ELSE ~Wanted

OrderInv == Numbered /\ Fresh /\ (obeyed[1].id < obeyed[2].id \/ obeyed[2].id = Blank)

\* Whose frame it is.
ByPeer == obeyed[2].by = Peer(end) /\ (at = "use" /\ buffer # Blank => taken.by = Peer(end))

\* The frame that is due has been used, or is about to be.
DueInv ==
  due.id # Blank /\ Usable(due.n) =>
    IF at = "use" /\ Wanted THEN buffer = due.id ELSE obeyed[2].id = due.id

\* The number beside a frame that will be shown is its own.
ShownInv ==
  end = "station" /\ at = "use" /\ Wanted =>
    ~SignSet(taken.n) /\ (taken.n < IntRange => seqnum = taken.n)

=============================================================================
