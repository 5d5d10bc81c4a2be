------------------------ MODULE BeaconReceiveProofs ------------------------
(***************************************************************************)
(* Proofs about BeaconReceive, for both ends, any width of the numbers,    *)
(* any frames on the air and any number of restarts.  They run the socket  *)
(* filter, 44 instructions of which a frame meets at most 22, on an        *)
(* unknown frame, and follow packet_handler() through one.                 *)
(***************************************************************************)
EXTENDS BeaconReceive, SequenceTheorems, WellFoundedInduction, TLAPS

-----------------------------------------------------------------------------
(* Ends and addresses.                                                     *)

LEMMA PeerIsOther ==
  ASSUME NEW e \in Ends
  PROVE  Peer(e) \in Ends \ {e} /\ \A p \in Ends \ {e} : p = Peer(e)
<1>1. \E p \in Ends : p # e
  BY DEF Ends
<1>2. Peer(e) \in Ends /\ Peer(e) # e
  BY <1>1 DEF Peer
<1> QED
  BY <1>2 DEF Ends

LEMMA SenderKnown ==
  ASSUME NEW f, NEW e \in Ends, f.from = Mac(e)
  PROVE  By(f) = e
<1>1. By(f) \in Ends /\ f.from = Mac(By(f))
  BY DEF By
<1> QED
  BY <1>1 DEF Ends, Mac

LEMMA ByType == \A f : By(f) \in Ends \cup {"other"}
  BY DEF By

\* A whole frame was sent by the other end.
LEMMA WholeByPeer ==
  ASSUME NEW e \in Ends, NEW f, Whole(e, f)
  PROVE  By(f) = Peer(e)
<1>1. PICK p \in Ends \ {e} : f.from = Mac(p)
  BY DEF Whole
<1> QED
  BY <1>1, SenderKnown, PeerIsOther

-----------------------------------------------------------------------------
(* Induction over a set of numbers.                                        *)

LEMMA LeastElement ==
  ASSUME NEW T \in SUBSET Nat, T # {}
  PROVE  \E n \in T : \A m \in T : n <= m
<1>1. PICK n \in T : \A m \in T : <<m, n>> \notin OpToRel(<, Nat)
  BY WFMin, NatLessThanWellFounded, Zenon
<1>2. \A m \in T : ~(m < n)
  BY <1>1, Zenon DEF OpToRel
<1> QED
  BY <1>2

LEMMA SetInduction ==
  ASSUME NEW T, 0 \in T, \A n \in Nat : n \in T => n + 1 \in T
  PROVE  \A n \in Nat : n \in T
<1> SUFFICES ASSUME {n \in Nat : n \notin T} # {} PROVE FALSE
  OBVIOUS
<1> DEFINE U == {n \in Nat : n \notin T}
<1>1. PICK n \in U : \A m \in U : n <= m
  BY LeastElement
<1>2. n \in Nat /\ n # 0 /\ n \notin T
  OBVIOUS
<1>3. n - 1 \in Nat /\ n - 1 \notin U
  BY <1>1, <1>2
<1>4. n - 1 \in T
  BY <1>3
<1> QED
  BY <1>2, <1>3, <1>4

-----------------------------------------------------------------------------
(* The machine of the socket filter.                                       *)

Size == 44
Run(e, f, k, r) == r = [n \in 0..k |-> IF n = 0 THEN Start ELSE Cycle(e, f, r[n - 1])]

LEMMA ProgramSize == \A e \in Ends : Len(Program[e]) = Size
  BY DEF Program, Size

LEMMA RunExists ==
  ASSUME NEW e, NEW f
  PROVE  \A k \in Nat : \E r : Run(e, f, k, r)
<1> DEFINE T == {k \in Nat : \E r : Run(e, f, k, r)}
<1>1. 0 \in T
  <2> DEFINE r == [n \in 0..0 |-> Start]
  <2>1. r = [n \in 0..0 |-> IF n = 0 THEN Start ELSE Cycle(e, f, r[n - 1])]
    OBVIOUS
  <2> HIDE DEF r
  <2>2. Run(e, f, 0, r)
    BY <2>1 DEF Run
  <2> QED
    BY <2>2
<1>2. ASSUME NEW k \in Nat, k \in T PROVE k + 1 \in T
  <2>1. PICK r : Run(e, f, k, r)
    BY <1>2
  <2> DEFINE q == [n \in 0..(k + 1) |-> IF n = k + 1 THEN Cycle(e, f, r[k]) ELSE r[n]]
  <2>2. \A n \in 0..k : q[n] = r[n]
    OBVIOUS
  <2>3. \A n \in 0..k : r[n] = IF n = 0 THEN Start ELSE Cycle(e, f, r[n - 1])
    BY <2>1 DEF Run
  <2>4. q[k + 1] = Cycle(e, f, r[k])
    OBVIOUS
  <2>5. q = [n \in 0..(k + 1) |-> q[n]]
    OBVIOUS
  <2> HIDE DEF q
  <2>6. ASSUME NEW n \in 0..(k + 1)
        PROVE  q[n] = IF n = 0 THEN Start ELSE Cycle(e, f, q[n - 1])
    <3>1. CASE n = 0
      BY <2>2, <2>3, <3>1
    <3>2. CASE n \in 1..k
      <4>1. n \in 0..k /\ n - 1 \in 0..k
        BY <3>2
      <4> QED
        BY <2>2, <2>3, <3>2, <4>1
    <3>3. CASE n = k + 1
      <4>1. n - 1 = k /\ k \in 0..k
        BY <3>3
      <4>2. q[n - 1] = r[k]
        BY <2>2, <4>1
      <4> QED
        BY <2>4, <3>3, <4>2
    <3> QED
      BY <3>1, <3>2, <3>3
  <2>7. q = [n \in 0..(k + 1) |-> IF n = 0 THEN Start ELSE Cycle(e, f, q[n - 1])]
    BY <2>5, <2>6
  <2> QED
    BY <2>7 DEF Run
<1> HIDE DEF T
<1>3. \A k \in Nat : k \in T
  BY <1>1, <1>2, SetInduction
<1> QED
  BY <1>3 DEF T

LEMMA MachineRuns ==
  ASSUME NEW e \in Ends, NEW f
  PROVE  /\ Machine(e, f)[0] = Start
         /\ \A n \in 0..(Size - 1) : Machine(e, f)[n + 1] = Cycle(e, f, Machine(e, f)[n])
         /\ Filter(e, f) = Machine(e, f)[Size]
<1>1. PICK k \in Nat : k = Len(Program[e]) /\ k = Size
  BY ProgramSize DEF Size
<1>2. Machine(e, f) = CHOOSE r : r = [n \in 0..Len(Program[e]) |->
                                        IF n = 0 THEN Start ELSE Cycle(e, f, r[n - 1])]
  BY Zenon DEF Machine
<1>3. \E r : r = [n \in 0..Len(Program[e]) |-> IF n = 0 THEN Start ELSE Cycle(e, f, r[n - 1])]
  <2>1. Len(Program[e]) \in Nat
    BY <1>1
  <2>2. \E r : Run(e, f, Len(Program[e]), r)
    BY <2>1, RunExists
  <2> QED
    BY <2>2, Zenon DEF Run
<1>4. Machine(e, f) = [n \in 0..Len(Program[e]) |->
                         IF n = 0 THEN Start ELSE Cycle(e, f, Machine(e, f)[n - 1])]
  BY <1>2, <1>3, Zenon
<1> DEFINE M == Machine(e, f)
<1>5. \A n \in 0..k : M[n] = IF n = 0 THEN Start ELSE Cycle(e, f, M[n - 1])
  BY <1>1, <1>4
<1> HIDE DEF M
<1>6. \A n \in 0..(Size - 1) : M[n + 1] = Cycle(e, f, M[n])
  <2> SUFFICES ASSUME NEW n \in 0..(Size - 1) PROVE M[n + 1] = Cycle(e, f, M[n])
    OBVIOUS
  <2>1. n + 1 \in 0..k /\ n + 1 # 0 /\ n + 1 - 1 = n
    BY <1>1 DEF Size
  <2> QED
    BY <1>5, <2>1
<1>7. M[0] = Start
  BY <1>5
<1>8. Filter(e, f) = M[Size]
  BY <1>1 DEF Filter, M
<1> QED
  BY <1>6, <1>7, <1>8 DEF M

LEMMA Settles ==
  ASSUME NEW e \in Ends, NEW f, NEW n \in 0..Size, Machine(e, f)[n].returned # -1
  PROVE  Filter(e, f) = Machine(e, f)[n]
<1> DEFINE M == Machine(e, f)
           T == {k \in Nat : n + k <= Size => M[n + k] = M[n]}
<1>1. Size = 44 /\ n \in Nat
  BY DEF Size
<1>2. 0 \in T
  BY <1>1
<1>3. ASSUME NEW k \in Nat, k \in T PROVE k + 1 \in T
  <2> SUFFICES ASSUME n + k + 1 <= Size PROVE M[n + k + 1] = M[n]
    BY <1>1
  <2>1. n + k \in 0..(Size - 1) /\ M[n + k] = M[n]
    BY <1>1, <1>3
  <2>2. M[n + k + 1] = Cycle(e, f, M[n + k])
    BY <2>1, MachineRuns
  <2> QED
    BY <2>1, <2>2 DEF Cycle
<1> HIDE DEF M, T
<1>4. \A k \in Nat : k \in T
  BY <1>2, <1>3, SetInduction
<1>5. Size - n \in Nat /\ n + (Size - n) = Size
  BY <1>1
<1>6. M[Size] = M[n]
  BY <1>1, <1>4, <1>5 DEF T
<1> QED
  BY <1>6, MachineRuns DEF M

\* The machine on its way, and when it has returned.
At(pc, a, x) == [pc |-> pc, a |-> a, x |-> x, returned |-> -1]

LEMMA Fetch ==
  ASSUME NEW e \in Ends, NEW f, NEW n \in Nat, NEW pc \in Nat, NEW a, NEW x,
         n < 44, pc < 44, Machine(e, f)[n] = At(pc, a, x)
  PROVE  Machine(e, f)[n + 1] = Instruction(f, At(pc, a, x), Program[e][pc + 1])
<1>1. At(pc, a, x).returned = -1 /\ At(pc, a, x).pc = pc
  BY DEF At
<1>2. Len(Program[e]) = 44
  BY ProgramSize DEF Size
<1>3. Machine(e, f)[n + 1] = Cycle(e, f, At(pc, a, x))
  BY MachineRuns DEF Size
<1> QED
  BY <1>1, <1>2, <1>3 DEF Cycle

\* The instructions that a beacon, and any other frame, runs through.
LEMMA Code ==
  ASSUME NEW e \in Ends
  PROVE  LET p == Program[e]
             mac == Mac(Peer(e))
         IN
         /\ p[1] = <<"low", 0, 0, 3>> /\ p[2] = <<"shl", 0, 0, 8>> /\ p[3] = <<"tax", 0, 0, 0>>
         /\ p[4] = <<"low", 0, 0, 2>> /\ p[5] = <<"orx", 0, 0, 0>> /\ p[6] = <<"st", 0, 0, 0>>
         /\ p[7] = <<"tax", 0, 0, 0>> /\ p[8] = <<"ldb", 0, 0, 0>>
         /\ p[9] = <<"and", 0, 0, 252>> /\ p[10] = <<"jeq", 0, 33, Beacon>>
         /\ p[11] = <<"ldb", 0, 0, 0>> /\ p[12] = <<"jset", 31, 0, 4>>
         /\ p[13] = <<"jset", 0, 21, 8>>
         /\ p[35] = <<"ldw", 0, 0, 12>> /\ p[36] = <<"jeq", 0, 2, mac.lo>>
         /\ p[37] = <<"ldh", 0, 0, 10>> /\ p[38] = <<"jeq", 4, 0, mac.hi>>
         /\ p[39] = <<"ldw", 0, 0, 6>> /\ p[40] = <<"jeq", 0, 3, mac.lo>>
         /\ p[41] = <<"ldh", 0, 0, 4>> /\ p[42] = <<"jeq", 0, 1, mac.hi>>
         /\ p[43] = <<"ret", 0, 0, 262144>> /\ p[44] = <<"ret", 0, 0, 0>>
  BY DEF Program


\* What one instruction does, by its kind.
LEMMA Proceeds ==
  ASSUME NEW f, NEW pc \in Nat, NEW a, NEW x, NEW op, NEW k,
         op \notin {"jeq", "jset", "tax", "ret"}
  PROVE  Instruction(f, At(pc, a, x), <<op, 0, 0, k>>)
         = At(pc + 1, Accumulator(f, At(pc, a, x), op, k), x)
  BY DEF Instruction, Skipped, At

LEMMA Copies ==
  ASSUME NEW f, NEW pc \in Nat, NEW a, NEW x
  PROVE  Instruction(f, At(pc, a, x), <<"tax", 0, 0, 0>>) = At(pc + 1, a, a)
<1>1. Accumulator(f, At(pc, a, x), "tax", 0) = a
  BY DEF Accumulator, At
<1> QED
  BY <1>1 DEF Instruction, Skipped, At

LEMMA Branches ==
  ASSUME NEW f, NEW pc \in Nat, NEW a, NEW x, NEW t \in Nat, NEW u \in Nat, NEW k
  PROVE  Instruction(f, At(pc, a, x), <<"jeq", t, u, k>>)
         = At(pc + 1 + (IF a = k THEN t ELSE u), a, x)
<1>1. Accumulator(f, At(pc, a, x), "jeq", k) = a
  BY DEF Accumulator, At
<1> QED
  BY <1>1 DEF Instruction, Skipped, Holds, At

LEMMA Tests ==
  ASSUME NEW f, NEW pc \in Nat, NEW a, NEW x, NEW t \in Nat, NEW u \in Nat, NEW k
  PROVE  Instruction(f, At(pc, a, x), <<"jset", t, u, k>>)
         = At(pc + 1 + (IF BitSet(a, k) THEN t ELSE u), a, x)
<1>1. Accumulator(f, At(pc, a, x), "jset", k) = a
  BY DEF Accumulator, At
<1> QED
  BY <1>1 DEF Instruction, Skipped, Holds, At

LEMMA Returns ==
  ASSUME NEW f, NEW pc \in Nat, NEW a, NEW x, NEW k
  PROVE  Instruction(f, At(pc, a, x), <<"ret", 0, 0, k>>).returned = k
  BY DEF Instruction

\* What is loaded behind the radiotap header.
LEMMA Loads ==
  ASSUME NEW f, NEW pc, NEW a, NEW x, x = f.radiotap
  PROVE  /\ Accumulator(f, At(pc, a, x), "ldb", 0) = f.type
         /\ Accumulator(f, At(pc, a, x), "ldw", 12) = f.from.lo
         /\ Accumulator(f, At(pc, a, x), "ldh", 10) = f.from.hi
         /\ Accumulator(f, At(pc, a, x), "ldw", 6) = f.to.lo
         /\ Accumulator(f, At(pc, a, x), "ldh", 4) = f.to.hi
<1>1. At(pc, a, x).x = f.radiotap
  BY DEF At
<1>2. /\ Load(f, "ldb", 0) = f.type
      /\ Load(f, "ldw", 12) = f.from.lo
      /\ Load(f, "ldh", 10) = f.from.hi
      /\ Load(f, "ldw", 6) = f.to.lo
      /\ Load(f, "ldh", 4) = f.to.hi
  BY DEF Load
<1>3. ASSUME NEW op \in {"ldb", "ldh", "ldw"}, NEW k PROVE Accumulator(f, At(pc, a, x), op, k) = Load(f, op, k)
  BY <1>1 DEF Accumulator
<1> QED
  BY <1>2, <1>3

\* The first seven instructions leave the length of the radiotap header in x.
LEMMA FindsHeader ==
  ASSUME NEW e \in Ends, NEW f, f.radiotap \in Nat
  PROVE  \E a : Machine(e, f)[7] = At(7, a, f.radiotap)
<1> DEFINE M == Machine(e, f)
           p == Program[e]
           r == f.radiotap
           hi == r \div 256
           lo == r % 256
<1>0. /\ p[0 + 1] = <<"low", 0, 0, 3>> /\ p[1 + 1] = <<"shl", 0, 0, 8>>
      /\ p[2 + 1] = <<"tax", 0, 0, 0>> /\ p[3 + 1] = <<"low", 0, 0, 2>>
      /\ p[4 + 1] = <<"orx", 0, 0, 0>> /\ p[5 + 1] = <<"st", 0, 0, 0>>
      /\ p[6 + 1] = <<"tax", 0, 0, 0>>
  BY Code
<1>1. M[0] = At(0, 0, 0)
  BY MachineRuns DEF Start, At
<1>2. M[0 + 1] = At(1, hi, 0)
  <2>1. M[0 + 1] = Instruction(f, At(0, 0, 0), p[0 + 1])
    BY <1>1, Fetch
  <2>2. Accumulator(f, At(0, 0, 0), "low", 3) = hi
    BY DEF Accumulator
  <2>3. Instruction(f, At(0, 0, 0), <<"low", 0, 0, 3>>) = At(0 + 1, Accumulator(f, At(0, 0, 0), "low", 3), 0)
    BY Proceeds
  <2> QED
    BY <1>0, <2>1, <2>2, <2>3
<1>3. M[1 + 1] = At(2, hi * 256, 0)
  <2>1. M[1 + 1] = Instruction(f, At(1, hi, 0), p[1 + 1])
    BY <1>2, Fetch
  <2>2. Accumulator(f, At(1, hi, 0), "shl", 8) = hi * 256
    BY DEF Accumulator, At
  <2>3. Instruction(f, At(1, hi, 0), <<"shl", 0, 0, 8>>) = At(1 + 1, Accumulator(f, At(1, hi, 0), "shl", 8), 0)
    BY Proceeds
  <2> QED
    BY <1>0, <2>1, <2>2, <2>3
<1>4. M[2 + 1] = At(3, hi * 256, hi * 256)
  <2>1. M[2 + 1] = Instruction(f, At(2, hi * 256, 0), p[2 + 1])
    BY <1>3, Fetch
  <2>2. Instruction(f, At(2, hi * 256, 0), <<"tax", 0, 0, 0>>) = At(2 + 1, hi * 256, hi * 256)
    BY Copies
  <2> QED
    BY <1>0, <2>1, <2>2
<1>5. M[3 + 1] = At(4, lo, hi * 256)
  <2>1. M[3 + 1] = Instruction(f, At(3, hi * 256, hi * 256), p[3 + 1])
    BY <1>4, Fetch
  <2>2. Accumulator(f, At(3, hi * 256, hi * 256), "low", 2) = lo
    BY DEF Accumulator
  <2>3. Instruction(f, At(3, hi * 256, hi * 256), <<"low", 0, 0, 2>>)
        = At(3 + 1, Accumulator(f, At(3, hi * 256, hi * 256), "low", 2), hi * 256)
    BY Proceeds
  <2> QED
    BY <1>0, <2>1, <2>2, <2>3
<1>6. M[4 + 1] = At(5, r, hi * 256)
  <2>1. M[4 + 1] = Instruction(f, At(4, lo, hi * 256), p[4 + 1])
    BY <1>5, Fetch
  <2>2. Accumulator(f, At(4, lo, hi * 256), "orx", 0) = lo + hi * 256
    BY DEF Accumulator, Joined, At
  <2>3. lo + hi * 256 = r
    OBVIOUS
  <2>4. Instruction(f, At(4, lo, hi * 256), <<"orx", 0, 0, 0>>)
        = At(4 + 1, Accumulator(f, At(4, lo, hi * 256), "orx", 0), hi * 256)
    BY Proceeds
  <2> QED
    BY <1>0, <2>1, <2>2, <2>3, <2>4
<1>7. M[5 + 1] = At(6, r, hi * 256)
  <2>1. M[5 + 1] = Instruction(f, At(5, r, hi * 256), p[5 + 1])
    BY <1>6, Fetch
  <2>2. Accumulator(f, At(5, r, hi * 256), "st", 0) = r
    BY DEF Accumulator, At
  <2>3. Instruction(f, At(5, r, hi * 256), <<"st", 0, 0, 0>>)
        = At(5 + 1, Accumulator(f, At(5, r, hi * 256), "st", 0), hi * 256)
    BY Proceeds
  <2> QED
    BY <1>0, <2>1, <2>2, <2>3
<1>8. M[6 + 1] = At(7, r, r)
  <2>1. M[6 + 1] = Instruction(f, At(6, r, hi * 256), p[6 + 1])
    BY <1>7, Fetch
  <2>2. Instruction(f, At(6, r, hi * 256), <<"tax", 0, 0, 0>>) = At(6 + 1, r, r)
    BY Copies
  <2> QED
    BY <1>0, <2>1, <2>2
<1> QED
  BY <1>8

\* The two ways out.
LEMMA Out ==
  ASSUME NEW e \in Ends, NEW f, NEW n \in Nat, NEW a, NEW x, n < 44
  PROVE  /\ Machine(e, f)[n] = At(42, a, x) => Passes(e, f)
         /\ Machine(e, f)[n] = At(43, a, x) => ~Passes(e, f)
<1> DEFINE M == Machine(e, f)
<1>1. Program[e][42 + 1] = <<"ret", 0, 0, 262144>> /\ Program[e][43 + 1] = <<"ret", 0, 0, 0>>
  BY Code
<1>2. n + 1 \in 0..Size
  BY DEF Size
<1>3. ASSUME M[n] = At(42, a, x) PROVE Passes(e, f)
  <2>1. M[n + 1] = Instruction(f, At(42, a, x), Program[e][42 + 1])
    BY <1>3, Fetch
  <2>2. Instruction(f, At(42, a, x), <<"ret", 0, 0, 262144>>).returned = 262144
    BY Returns
  <2>3. M[n + 1].returned = 262144
    BY <1>1, <2>1, <2>2
  <2>4. M[n + 1].returned # -1
    BY <2>3
  <2>5. Filter(e, f) = M[n + 1]
    BY <1>2, <2>4, Settles
  <2> QED
    BY <2>3, <2>5 DEF Passes
<1>4. ASSUME M[n] = At(43, a, x) PROVE ~Passes(e, f)
  <2>1. M[n + 1] = Instruction(f, At(43, a, x), Program[e][43 + 1])
    BY <1>4, Fetch
  <2>2. Instruction(f, At(43, a, x), <<"ret", 0, 0, 0>>).returned = 0
    BY Returns
  <2>3. M[n + 1].returned = 0
    BY <1>1, <2>1, <2>2
  <2>4. M[n + 1].returned # -1
    BY <2>3
  <2>5. Filter(e, f) = M[n + 1]
    BY <1>2, <2>4, Settles
  <2> QED
    BY <2>3, <2>5 DEF Passes
<1> QED
  BY <1>3, <1>4

\* From the receiver's address on: the frame passes if it is the other end's.
LEMMA ByReceiver ==
  ASSUME NEW e \in Ends, NEW f, NEW n \in Nat, NEW a, n < 40,
         Machine(e, f)[n] = At(38, a, f.radiotap)
  PROVE  Passes(e, f) <=> f.to.lo = Mac(Peer(e)).lo /\ f.to.hi = Mac(Peer(e)).hi
<1> DEFINE M == Machine(e, f)
           p == Program[e]
           r == f.radiotap
           lo == Mac(Peer(e)).lo
           hi == Mac(Peer(e)).hi
<1>0. /\ p[38 + 1] = <<"ldw", 0, 0, 6>> /\ p[39 + 1] = <<"jeq", 0, 3, lo>>
      /\ p[40 + 1] = <<"ldh", 0, 0, 4>> /\ p[41 + 1] = <<"jeq", 0, 1, hi>>
  BY Code
<1>1. M[n + 1] = At(39, f.to.lo, r)
  <2>1. M[n + 1] = Instruction(f, At(38, a, r), p[38 + 1])
    BY Fetch
  <2>2. Instruction(f, At(38, a, r), <<"ldw", 0, 0, 6>>) = At(38 + 1, Accumulator(f, At(38, a, r), "ldw", 6), r)
    BY Proceeds
  <2>3. Accumulator(f, At(38, a, r), "ldw", 6) = f.to.lo
    BY Loads
  <2> QED
    BY <1>0, <2>1, <2>2, <2>3
<1>2. M[n + 2] = At(39 + 1 + (IF f.to.lo = lo THEN 0 ELSE 3), f.to.lo, r)
  <2>1. n + 1 \in Nat /\ n + 1 < 44 /\ n + 1 + 1 = n + 2
    OBVIOUS
  <2>2. M[n + 1 + 1] = Instruction(f, At(39, f.to.lo, r), p[39 + 1])
    BY <1>1, <2>1, Fetch
  <2>3. Instruction(f, At(39, f.to.lo, r), <<"jeq", 0, 3, lo>>)
        = At(39 + 1 + (IF f.to.lo = lo THEN 0 ELSE 3), f.to.lo, r)
    BY Branches
  <2> QED
    BY <1>0, <2>1, <2>2, <2>3
<1>3. CASE f.to.lo # lo
  <2>1. M[n + 2] = At(43, f.to.lo, r)
    BY <1>2, <1>3
  <2>2. n + 2 \in Nat /\ n + 2 < 44
    OBVIOUS
  <2>3. ~Passes(e, f)
    BY <2>1, <2>2, Out
  <2> QED
    BY <1>3, <2>3
<1>4. CASE f.to.lo = lo
  <2>1. M[n + 2] = At(40, f.to.lo, r)
    BY <1>2, <1>4
  <2>2. /\ n + 2 \in Nat /\ n + 2 < 44 /\ n + 2 + 1 = n + 3
        /\ n + 3 \in Nat /\ n + 3 < 44 /\ n + 3 + 1 = n + 4
        /\ n + 4 \in Nat /\ n + 4 < 44
    OBVIOUS
  <2>3. M[n + 3] = At(41, f.to.hi, r)
    <3>0. n + 2 \in Nat /\ n + 2 < 44
      BY <2>2
    <3>1. M[n + 2 + 1] = Instruction(f, At(40, f.to.lo, r), p[40 + 1])
      BY <2>1, <3>0, Fetch
    <3>2. Instruction(f, At(40, f.to.lo, r), <<"ldh", 0, 0, 4>>)
          = At(40 + 1, Accumulator(f, At(40, f.to.lo, r), "ldh", 4), r)
      BY Proceeds
    <3>3. Accumulator(f, At(40, f.to.lo, r), "ldh", 4) = f.to.hi
      BY Loads
    <3> QED
      BY <1>0, <2>2, <3>1, <3>2, <3>3
  <2>4. M[n + 4] = At(41 + 1 + (IF f.to.hi = hi THEN 0 ELSE 1), f.to.hi, r)
    <3>0. n + 3 \in Nat /\ n + 3 < 44
      BY <2>2
    <3>1. M[n + 3 + 1] = Instruction(f, At(41, f.to.hi, r), p[41 + 1])
      BY <2>3, <3>0, Fetch
    <3>2. Instruction(f, At(41, f.to.hi, r), <<"jeq", 0, 1, hi>>)
          = At(41 + 1 + (IF f.to.hi = hi THEN 0 ELSE 1), f.to.hi, r)
      BY Branches
    <3> QED
      BY <1>0, <2>2, <3>1, <3>2
  <2>5. CASE f.to.hi = hi
    <3>1. M[n + 4] = At(42, f.to.hi, r)
      BY <2>4, <2>5
    <3> QED
      BY <1>4, <2>2, <2>5, <3>1, Out
  <2>6. CASE f.to.hi # hi
    <3>1. M[n + 4] = At(43, f.to.hi, r)
      BY <2>4, <2>6
    <3>2. ~Passes(e, f)
      BY <2>2, <3>1, Out
    <3> QED
      BY <2>6, <3>2
  <2> QED
    BY <2>5, <2>6
<1> QED
  BY <1>3, <1>4

\* From the sender's address on: that of either will do.
LEMMA BySender ==
  ASSUME NEW e \in Ends, NEW f, NEW n \in Nat, NEW a, n < 36,
         Machine(e, f)[n] = At(34, a, f.radiotap)
  PROVE  Passes(e, f) <=>
           \/ f.from.lo = Mac(Peer(e)).lo /\ f.from.hi = Mac(Peer(e)).hi
           \/ f.to.lo = Mac(Peer(e)).lo /\ f.to.hi = Mac(Peer(e)).hi
<1> DEFINE M == Machine(e, f)
           p == Program[e]
           r == f.radiotap
           lo == Mac(Peer(e)).lo
           hi == Mac(Peer(e)).hi
<1>0. /\ p[34 + 1] = <<"ldw", 0, 0, 12>> /\ p[35 + 1] = <<"jeq", 0, 2, lo>>
      /\ p[36 + 1] = <<"ldh", 0, 0, 10>> /\ p[37 + 1] = <<"jeq", 4, 0, hi>>
  BY Code
<1>1. M[n + 1] = At(35, f.from.lo, r)
  <2>1. M[n + 1] = Instruction(f, At(34, a, r), p[34 + 1])
    BY Fetch
  <2>2. Instruction(f, At(34, a, r), <<"ldw", 0, 0, 12>>) = At(34 + 1, Accumulator(f, At(34, a, r), "ldw", 12), r)
    BY Proceeds
  <2>3. Accumulator(f, At(34, a, r), "ldw", 12) = f.from.lo
    BY Loads
  <2> QED
    BY <1>0, <2>1, <2>2, <2>3
<1>2. M[n + 2] = At(35 + 1 + (IF f.from.lo = lo THEN 0 ELSE 2), f.from.lo, r)
  <2>1. n + 1 \in Nat /\ n + 1 < 44 /\ n + 1 + 1 = n + 2
    OBVIOUS
  <2>2. M[n + 1 + 1] = Instruction(f, At(35, f.from.lo, r), p[35 + 1])
    BY <1>1, <2>1, Fetch
  <2>3. Instruction(f, At(35, f.from.lo, r), <<"jeq", 0, 2, lo>>)
        = At(35 + 1 + (IF f.from.lo = lo THEN 0 ELSE 2), f.from.lo, r)
    BY Branches
  <2> QED
    BY <1>0, <2>1, <2>2, <2>3
<1>3. CASE f.from.lo # lo
  <2>1. M[n + 2] = At(38, f.from.lo, r)
    BY <1>2, <1>3
  <2>2. n + 2 \in Nat /\ n + 2 < 40
    OBVIOUS
  <2>3. Passes(e, f) <=> f.to.lo = lo /\ f.to.hi = hi
    BY <2>1, <2>2, ByReceiver
  <2> QED
    BY <1>3, <2>3
<1>4. CASE f.from.lo = lo
  <2>1. M[n + 2] = At(36, f.from.lo, r)
    BY <1>2, <1>4
  <2>2. /\ n + 2 \in Nat /\ n + 2 < 44 /\ n + 2 + 1 = n + 3
        /\ n + 3 \in Nat /\ n + 3 < 44 /\ n + 3 + 1 = n + 4
        /\ n + 4 \in Nat /\ n + 4 < 40 /\ n + 4 < 44
    OBVIOUS
  <2>3. M[n + 3] = At(37, f.from.hi, r)
    <3>0. n + 2 \in Nat /\ n + 2 < 44
      BY <2>2
    <3>1. M[n + 2 + 1] = Instruction(f, At(36, f.from.lo, r), p[36 + 1])
      BY <2>1, <3>0, Fetch
    <3>2. Instruction(f, At(36, f.from.lo, r), <<"ldh", 0, 0, 10>>)
          = At(36 + 1, Accumulator(f, At(36, f.from.lo, r), "ldh", 10), r)
      BY Proceeds
    <3>3. Accumulator(f, At(36, f.from.lo, r), "ldh", 10) = f.from.hi
      BY Loads
    <3> QED
      BY <1>0, <2>2, <3>1, <3>2, <3>3
  <2>4. M[n + 4] = At(37 + 1 + (IF f.from.hi = hi THEN 4 ELSE 0), f.from.hi, r)
    <3>0. n + 3 \in Nat /\ n + 3 < 44
      BY <2>2
    <3>1. M[n + 3 + 1] = Instruction(f, At(37, f.from.hi, r), p[37 + 1])
      BY <2>3, <3>0, Fetch
    <3>2. Instruction(f, At(37, f.from.hi, r), <<"jeq", 4, 0, hi>>)
          = At(37 + 1 + (IF f.from.hi = hi THEN 4 ELSE 0), f.from.hi, r)
      BY Branches
    <3> QED
      BY <1>0, <2>2, <3>1, <3>2
  <2>5. CASE f.from.hi = hi
    <3>1. M[n + 4] = At(42, f.from.hi, r)
      BY <2>4, <2>5
    <3> QED
      BY <1>4, <2>2, <2>5, <3>1, Out
  <2>6. CASE f.from.hi # hi
    <3>1. M[n + 4] = At(38, f.from.hi, r)
      BY <2>4, <2>6
    <3>2. Passes(e, f) <=> f.to.lo = lo /\ f.to.hi = hi
      BY <2>2, <3>1, ByReceiver
    <3> QED
      BY <2>6, <3>2
  <2> QED
    BY <2>5, <2>6
<1> QED
  BY <1>3, <1>4

\* What and, jset compute of the first byte of a frame.
LEMMA TypeBits ==
  ASSUME NEW t \in Nat
  PROVE  /\ t - (t % 4) = 128 <=> t \in 128..131
         /\ t \in 128..131 => ~BitSet(t, 4) /\ ~BitSet(t, 8)
<1>1. t - (t % 4) = 128 <=> t \in 128..131
  OBVIOUS
<1>2. t \in 128..131 => t \div 4 = 32 /\ t \div 8 = 16
  OBVIOUS
<1> QED
  BY <1>1, <1>2 DEF BitSet

\* The whole program, for any frame of the neighbourhood.
LEMMA FilterDecides ==
  ASSUME NEW e \in Ends, NEW f, f.type \in Nat, f.radiotap \in Nat
  PROVE  Passes(e, f) <=>
           /\ f.type \in 128..131
           /\ \/ f.from.lo = Mac(Peer(e)).lo /\ f.from.hi = Mac(Peer(e)).hi
              \/ f.to.lo = Mac(Peer(e)).lo /\ f.to.hi = Mac(Peer(e)).hi
<1> DEFINE M == Machine(e, f)
           p == Program[e]
           r == f.radiotap
<1>1. PICK t \in Nat : t = f.type
  OBVIOUS
<1> DEFINE m == t - (t % 4)
<1>0. /\ p[7 + 1] = <<"ldb", 0, 0, 0>> /\ p[8 + 1] = <<"and", 0, 0, 252>>
      /\ p[9 + 1] = <<"jeq", 0, 33, 128>> /\ p[10 + 1] = <<"ldb", 0, 0, 0>>
      /\ p[11 + 1] = <<"jset", 31, 0, 4>> /\ p[12 + 1] = <<"jset", 0, 21, 8>>
  BY Code DEF Beacon
<1>2. PICK a : M[7] = At(7, a, r)
  BY FindsHeader
<1>3. M[7 + 1] = At(8, t, r)
  <2>1. M[7 + 1] = Instruction(f, At(7, a, r), p[7 + 1])
    BY <1>2, Fetch
  <2>2. Instruction(f, At(7, a, r), <<"ldb", 0, 0, 0>>) = At(7 + 1, Accumulator(f, At(7, a, r), "ldb", 0), r)
    BY Proceeds
  <2>3. Accumulator(f, At(7, a, r), "ldb", 0) = t
    BY <1>1, Loads
  <2> QED
    BY <1>0, <2>1, <2>2, <2>3
<1>4. M[8 + 1] = At(9, m, r)
  <2>1. M[8 + 1] = Instruction(f, At(8, t, r), p[8 + 1])
    BY <1>3, Fetch
  <2>2. Instruction(f, At(8, t, r), <<"and", 0, 0, 252>>) = At(8 + 1, Accumulator(f, At(8, t, r), "and", 252), r)
    BY Proceeds
  <2>3. Accumulator(f, At(8, t, r), "and", 252) = m
    BY DEF Accumulator, At
  <2> QED
    BY <1>0, <2>1, <2>2, <2>3
<1>5. M[9 + 1] = At(9 + 1 + (IF m = 128 THEN 0 ELSE 33), m, r)
  <2>1. M[9 + 1] = Instruction(f, At(9, m, r), p[9 + 1])
    BY <1>4, Fetch
  <2>2. Instruction(f, At(9, m, r), <<"jeq", 0, 33, 128>>)
        = At(9 + 1 + (IF m = 128 THEN 0 ELSE 33), m, r)
    BY Branches
  <2> QED
    BY <1>0, <2>1, <2>2
<1>6. m = 128 <=> t \in 128..131
  BY TypeBits
<1> HIDE DEF m
<1>7. CASE m # 128
  <2>1. M[10] = At(43, m, r)
    BY <1>5, <1>7
  <2>2. ~Passes(e, f)
    BY <2>1, Out
  <2> QED
    BY <1>1, <1>6, <1>7, <2>2
<1>8. CASE m = 128
  <2>1. M[10] = At(10, m, r)
    BY <1>5, <1>8
  <2>2. M[10 + 1] = At(11, t, r)
    <3>1. M[10 + 1] = Instruction(f, At(10, m, r), p[10 + 1])
      BY <2>1, Fetch
    <3>2. Instruction(f, At(10, m, r), <<"ldb", 0, 0, 0>>) = At(10 + 1, Accumulator(f, At(10, m, r), "ldb", 0), r)
      BY Proceeds
    <3>3. Accumulator(f, At(10, m, r), "ldb", 0) = t
      BY <1>1, Loads
    <3> QED
      BY <1>0, <3>1, <3>2, <3>3
  <2>3. ~BitSet(t, 4) /\ ~BitSet(t, 8)
    BY <1>6, <1>8, TypeBits
  <2>4. M[11 + 1] = At(12, t, r)
    <3>1. M[11 + 1] = Instruction(f, At(11, t, r), p[11 + 1])
      BY <2>2, Fetch
    <3>2. Instruction(f, At(11, t, r), <<"jset", 31, 0, 4>>)
          = At(11 + 1 + (IF BitSet(t, 4) THEN 31 ELSE 0), t, r)
      BY Tests
    <3> QED
      BY <1>0, <2>3, <3>1, <3>2
  <2>5. M[12 + 1] = At(34, t, r)
    <3>1. M[12 + 1] = Instruction(f, At(12, t, r), p[12 + 1])
      BY <2>4, Fetch
    <3>2. Instruction(f, At(12, t, r), <<"jset", 0, 21, 8>>)
          = At(12 + 1 + (IF BitSet(t, 8) THEN 0 ELSE 21), t, r)
      BY Tests
    <3> QED
      BY <1>0, <2>3, <3>1, <3>2
  <2>6. Passes(e, f) <=>
           \/ f.from.lo = Mac(Peer(e)).lo /\ f.from.hi = Mac(Peer(e)).hi
           \/ f.to.lo = Mac(Peer(e)).lo /\ f.to.hi = Mac(Peer(e)).hi
    BY <2>5, BySender
  <2> QED
    BY <1>1, <1>6, <1>8, <2>6
<1> QED
  BY <1>7, <1>8

\* The filter passes what it was compiled from.
LEMMA NoneMisjudged ==
  ASSUME NEW e \in Ends
  PROVE  Misjudged[e] = {}
<1> SUFFICES ASSUME NEW f \in Frames PROVE Passes(e, f) <=> PeerBeacon(e, f)
  <2>1. \A f \in Frames : Passes(e, f) \in BOOLEAN /\ PeerBeacon(e, f) \in BOOLEAN
    BY DEF Passes, PeerBeacon
  <2> QED
    BY <2>1 DEF Misjudged
<1>1. f.type \in Nat /\ f.radiotap \in Nat
  <2>1. f.type \in Types /\ f.radiotap \in Radiotaps
    BY DEF Frames
  <2>2. Types \subseteq 0..255
    BY FilterAssumption, Zenon
  <2>3. \A n \in Radiotaps : n \in Nat
    BY LengthAssumption
  <2>4. \A n \in Types : n \in Nat
    BY <2>2
  <2> QED
    BY <2>1, <2>3, <2>4, Zenon
<1>2. f.to \in [hi : Int, lo : Int] /\ f.from \in [hi : Int, lo : Int]
  BY FilterAssumption DEF Frames
<1> DEFINE mac == Mac(Peer(e))
<1>3. mac \in [hi : Int, lo : Int]
  BY DEF Mac
<1> HIDE DEF mac
<1>4. \A a \in [hi : Int, lo : Int] : a = mac <=> a.lo = mac.lo /\ a.hi = mac.hi
  BY <1>3
<1>5. PeerBeacon(e, f) <=> f.type \in 128..131 /\ (mac = f.from \/ mac = f.to)
  BY PeerIsOther DEF PeerBeacon, Beacon, mac
<1> QED
  BY <1>1, <1>2, <1>4, <1>5, FilterDecides DEF mac

-----------------------------------------------------------------------------
(* The way through a frame.                                                *)

\* What the filter passes and can be decoded is the other end's.
LEMMA PassedByPeer ==
  ASSUME NEW e \in Ends, NEW f \in OnTheAir, f \in Passed[e], f \in Sound
  PROVE  By(f) = Peer(e)
<1>1. f \in Frames /\ Passes(e, f) /\ By(f) \in Ends
  BY AirAssumption DEF Passed, Sound
<1>2. PeerBeacon(e, f)
  BY <1>1, NoneMisjudged DEF Misjudged
<1>3. PICK p \in Ends \ {e} : Mac(p) \in {f.to, f.from}
  BY <1>2 DEF PeerBeacon
<1>4. f.to = Broadcast
  <2>1. \E d \in Ends : f.from = Mac(d)
    BY <1>1 DEF By, Ends
  <2> QED
    BY <2>1, AirAssumption
<1>5. Mac(p) # Broadcast
  BY DEF Mac, Broadcast
<1> QED
  BY <1>3, <1>4, <1>5, SenderKnown, PeerIsOther

LEMMA HlenFits ==
  ASSUME NEW r \in Nat, r + 37 < 256
  PROVE  ((r % 256) + 24 + 13) % 256 = r + 37
<1>1. r % 256 = r
  OBVIOUS
<1>2. (r + 37) % 256 = r + 37
  OBVIOUS
<1> QED
  BY <1>1, <1>2

\* packet_handler() finds the payload of every whole frame: where the 8 bits of
\* hlen suffice, its steps over the headers and the SSID add up to the place the
\* sender put it at.
LEMMA WholeDecodable ==
  ASSUME NEW e \in Ends, NEW f \in Frames, Whole(e, f)
  PROVE  Decodable(f)
<1>1. PICK r \in Nat, i \in Nat, c \in Nat : f.radiotap = r /\ f.ssid = i /\ f.caplen = c
  <2>1. f.radiotap \in Radiotaps /\ f.ssid \in Ssids /\ f.caplen \in Captures
    BY DEF Frames
  <2>2. f.radiotap \in Nat /\ f.ssid \in Nat /\ f.caplen \in Nat
    BY <2>1, LengthAssumption
  <2> QED
    BY <2>2
<1>2. r + 37 < 256 /\ f.size = 528 /\ c >= r + 24 + 13 + 1 + i + 3 + 528
  BY <1>1 DEF Whole, PayloadAt
<1> DEFINE tag == r + 38 + i
<1>3. Hlen(f) = r + 37
  BY <1>1, <1>2, HlenFits DEF Hlen
<1>4. PayloadAt(f) = tag + 3 /\ Hlen(f) + f.ssid + 1 = tag
  BY <1>1, <1>3 DEF PayloadAt
<1>5. SsidFound(f) = {f.ssid} /\ SizeFound(f, tag) = {528}
  BY <1>1, <1>2, <1>3 DEF SsidFound, SizeFound
<1>6. ~(f.caplen < Overhead)
  BY <1>1, <1>2 DEF Overhead
<1>7. tag + 3 + 528 <= f.caplen
  BY <1>1, <1>2
<1>8. {n \in {528} : n > 0 /\ tag + 3 + n <= f.caplen} = {528}
  BY <1>7
<1> HIDE DEF tag
<1>9. {tag + 3 : size \in {n \in SizeFound(f, tag) : n > 0 /\ tag + 3 + n <= f.caplen}}
        = {PayloadAt(f)}
  BY <1>4, <1>5, <1>8
<1>10. Handle(f) = UNION {{PayloadAt(f)}}
  BY <1>4, <1>5, <1>6, <1>9 DEF Handle
<1> QED
  BY <1>10 DEF Decodable

LEMMA NoneMisread ==
  ASSUME NEW e \in Ends
  PROVE  Misread[e] = {}
<1> SUFFICES ASSUME NEW f \in Frames, Whole(e, f)
             PROVE  Passes(e, f) /\ Decodable(f)
  BY DEF Misread
<1>1. PeerBeacon(e, f)
  BY DEF Whole, PeerBeacon, Beacon
<1> QED
  BY <1>1, WholeDecodable, NoneMisjudged DEF Misjudged

-----------------------------------------------------------------------------
(* Numbers.                                                                *)

LEMMA RebuiltType ==
  ASSUME NEW n \in Nat
  PROVE  Rebuilt(n) \subseteq Nat
<1>1. Low(n) \in Nat /\ High(n) \in Nat
  BY NumberAssumption DEF Low, High
<1> QED
  BY <1>1 DEF Rebuilt

\* A number of at most four bytes comes out as it went in.
LEMMA RebuiltSmall ==
  ASSUME NEW n \in Nat, n < IntRange, NEW c \in Rebuilt(n)
  PROVE  c = n
<1>1. Low(n) = n /\ High(n) = 0
  BY NumberAssumption DEF Low, High
<1> QED
  BY <1>1 DEF Rebuilt

-----------------------------------------------------------------------------
(* Types.                                                                  *)

LEMMA NothingType ==
  ASSUME end \in Ends
  PROVE  Nothing \in TakenFrame /\ Nothing.id = Blank /\ Nothing.by = Peer(end) /\ Nothing.n = 0
  BY PeerIsOther DEF Nothing, TakenFrame, Blank

\* The first frame in the socket, and the rest.
LEMMA AirHead ==
  ASSUME TypeOK, air # <<>>
  PROVE  Head(air) \in AirFrame /\ Due(Head(air)) \in TakenFrame /\ Tail(air) \in Seq(AirFrame)
<1>1. Head(air) \in AirFrame /\ Tail(air) \in Seq(AirFrame)
  BY HeadTailProperties DEF TypeOK
<1> QED
  BY <1>1, ByType DEF AirFrame, TakenFrame, Due

LEMMA InitType == Init => TypeOK
<1> SUFFICES ASSUME Init PROVE TypeOK
  OBVIOUS
<1>1. Nothing \in TakenFrame /\ air \in Seq(AirFrame)
  BY NothingType, EmptySeq DEF Init, Ends
<1>2. Numbers \subseteq Nat
  BY NumberAssumption DEF Numbers
<1>3. seqRx \in Nat /\ seqnum \in Nat
  BY <1>2 DEF Init
<1> QED
  BY <1>1, <1>3 DEF Init, TypeOK, Ends, Blank

LEMMA NextType == TypeOK /\ [Next]_vars => TypeOK'
<1> SUFFICES ASSUME TypeOK, [Next]_vars PROVE TypeOK'
  OBVIOUS
<1>1. end' = end
  BY DEF Next, vars, Inject, Overhear, Lose, RestartSender, Timeout, Reject, Discard, Decode,
    Use, UseNothing, ResetSeqnum, RestartReceiver
<1>2. CASE Inject
  <2>1. seqTx' \in Numbers /\ seqTx' \in Nat
    BY <1>2, NumberAssumption DEF Inject, Following, Numbers, TypeOK
  <2>2. \E f \in OnTheAir : air' = Append(air, [id |-> sent', n |-> seqTx', frame |-> f])
    BY <1>2 DEF Inject
  <2>3. sent' = sent + 1
    BY <1>2 DEF Inject
  <2>4. air' \in Seq(AirFrame)
    BY <2>1, <2>2, <2>3, AppendProperties DEF TypeOK, AirFrame
  <2> QED
    BY <1>2, <2>1, <2>3, <2>4 DEF Inject, TypeOK
<1>3. CASE Overhear
  <2>1. \E f \in OnTheAir : air' = Append(air, [id |-> sent', n |-> 1, frame |-> f])
    BY <1>3 DEF Overhear
  <2>2. sent' = sent + 1
    BY <1>3 DEF Overhear
  <2>3. air' \in Seq(AirFrame)
    BY <2>1, <2>2, AppendProperties DEF TypeOK, AirFrame
  <2> QED
    BY <1>3, <2>2, <2>3 DEF Overhear, TypeOK
<1>4. CASE Lose
  BY <1>4, AirHead DEF Lose, TypeOK
<1>0. CASE ResetSeqnum
  BY <1>0 DEF ResetSeqnum, TypeOK
<1>5. CASE RestartSender
  <2>1. seqTx' \in Numbers
    BY <1>5, NumberAssumption DEF RestartSender, Numbers
  <2> QED
    BY <1>5, <2>1 DEF RestartSender, TypeOK
<1>6. CASE Timeout
  BY <1>6 DEF Timeout, Cleared, Blank, TypeOK
<1>7. CASE Reject
  BY <1>7, AirHead DEF Reject, TypeOK
<1>8. CASE Discard
  BY <1>8, AirHead DEF Discard, Arrives, Cleared, Blank, TypeOK
<1>9. CASE Decode
  <2> DEFINE f == Head(air)
  <2>1. f \in AirFrame /\ Due(f) \in TakenFrame /\ air' \in Seq(AirFrame)
    BY <1>9, AirHead DEF Decode, Arrives
  <2>2. PICK c \in Rebuilt(f.n) :
          LET accepted == ~SignSet(f.n) /\ Heard(c) IN
            /\ length' = LengthOf(accepted)
            /\ seqRx' = IF accepted THEN c ELSE seqRx
            /\ seqnum' = IF accepted THEN c ELSE seqnum
    BY <1>9 DEF Decode
  <2>3. c \in Nat
    BY <2>1, RebuiltType DEF AirFrame
  <2>4. length' \in BOOLEAN /\ seqRx' \in Nat /\ seqnum' \in Nat
    BY <2>2, <2>3 DEF LengthOf, Heard, SignSet, TypeOK
  <2>5. buffer' \in Nat /\ due' \in TakenFrame /\ taken' \in TakenFrame
    BY <1>9, <2>1 DEF Decode, AirFrame, TypeOK
  <2>6. UNCHANGED <<end, seqTx, sent, obeyed>> /\ at' = "use"
    BY <1>9 DEF Decode
  <2> QED
    BY <2>1, <2>4, <2>5, <2>6 DEF TypeOK
<1>10. CASE Use
  <2>1. [taken EXCEPT !.id = buffer, !.shown = seqnum] \in TakenFrame /\ obeyed[2] \in TakenFrame
    BY DEF TypeOK, TakenFrame
  <2>2. obeyed' \in TakenFrame \X TakenFrame
    BY <1>10, <2>1 DEF Use
  <2>3. buffer' \in {buffer, 0}
    BY <1>10 DEF Use, Consumed, Blank
  <2>4. length' \in {length, FALSE}
    BY <1>10 DEF Use
  <2>5. UNCHANGED <<end, seqTx, air, seqRx, seqnum, sent, due, taken>> /\ at' = "receive"
    BY <1>10 DEF Use
  <2>6. length \in BOOLEAN
    BY DEF TypeOK
  <2>7. length' \in BOOLEAN
    BY <2>4, <2>6
  <2>8. buffer' \in Nat
    BY <2>3 DEF TypeOK
  <2> QED
    BY <2>2, <2>7, <2>8, <2>5 DEF TypeOK
<1>11. CASE UseNothing
  BY <1>11 DEF UseNothing, TypeOK
<1>12. CASE RestartReceiver
  <2>1. Nothing \in TakenFrame /\ air' \in Seq(AirFrame)
    BY <1>12, NothingType, EmptySeq DEF RestartReceiver, TypeOK
  <2> QED
    BY <1>1, <1>12, <2>1 DEF RestartReceiver, Blank, TypeOK
<1>13. CASE UNCHANGED vars
  BY <1>13 DEF vars, TypeOK
<1> QED
  BY <1>0, <1>2, <1>3, <1>4, <1>5, <1>6, <1>7, <1>8, <1>9, <1>10, <1>11, <1>12, <1>13 DEF Next

\* Whatever the addresses and the kinds of frame about, both ends' filters pass
\* exactly the beacons to or from the other end (code_drone, code_pilot).
THEOREM FilterIsRight == Spec => []PassesPeerBeacons
<1>1. TypeOK => PassesPeerBeacons
  BY NoneMisjudged DEF TypeOK, PassesPeerBeacons
<1> QED
  BY <1>1, InitType, NextType, PTL DEF Spec

\* Every whole frame of the other end passes and is decoded from the byte its
\* sender put the payload at, for every radiotap header that fits and every SSID
\* (inject_command, packet_handler).
THEOREM WholeIsFound == Spec => []WholeIsDecoded
<1>1. TypeOK => WholeIsDecoded
  BY NoneMisread DEF TypeOK, WholeIsDecoded
<1> QED
  BY <1>1, InitType, NextType, PTL DEF Spec

-----------------------------------------------------------------------------
(* The order of frames.                                                    *)

\* A frame that is sent comes last.
LEMMA Appended ==
  ASSUME TypeOK, Numbered, NEW x \in AirFrame, x.id = sent + 1,
         air' = Append(air, x), sent' = sent + 1, obeyed' = obeyed
  PROVE  Numbered' /\ \A id \in Nat : Later(id) => Later(id)'
<1> DEFINE n == Len(air)
<1>1. n \in Nat /\ Len(air') = n + 1 /\ air'[n + 1] = x /\ \A i \in 1..n : air'[i] = air[i]
  BY AppendProperties, LenProperties DEF TypeOK
<1>2. sent \in Nat /\ \A i \in 1..n : air[i].id \in Nat
  <2>1. \A i \in 1..n : air[i] \in AirFrame
    BY ElementOfSeq DEF TypeOK
  <2> QED
    BY <2>1 DEF TypeOK, AirFrame
<1>3. \A i \in 1..n : air[i].id <= sent
  BY DEF Numbered, Later
<1>4. \A id \in Nat : Later(id) => Later(id)'
  BY <1>1, <1>2 DEF Later
<1>5. \A i, j \in 1..Len(air') : i < j => air'[i].id < air'[j].id
  BY <1>1, <1>2, <1>3 DEF Numbered
<1>6. obeyed[2].id \in Nat
  BY DEF TypeOK, TakenFrame
<1>7. Later(obeyed[2].id)'
  BY <1>4, <1>6 DEF Numbered
<1> QED
  BY <1>4, <1>5, <1>7 DEF Numbered

\* The first frame in the socket comes before the rest, and after all obeyed.
LEMMA Shortened ==
  ASSUME TypeOK, Numbered, air # <<>>, air' = Tail(air), sent' = sent, obeyed' = obeyed
  PROVE  /\ Numbered' /\ \A id \in Nat : Later(id) => Later(id)' /\ id < Head(air).id
         /\ \A id \in Nat : id = Head(air).id => Later(id)'
<1> DEFINE n == Len(air)
<1>1. n \in Nat \ {0} /\ Head(air) = air[1] /\ Len(air') = n - 1
      /\ \A i \in 1..Len(air') : air'[i] = air[i + 1]
  BY HeadTailProperties, EmptySeq DEF TypeOK
<1>2. sent \in Nat /\ \A i \in 1..n : air[i].id \in Nat
  <2>1. \A i \in 1..n : air[i] \in AirFrame
    BY ElementOfSeq DEF TypeOK
  <2> QED
    BY <2>1 DEF TypeOK, AirFrame
<1>3. \A i \in 1..n : air[i].id <= sent
  BY DEF Numbered, Later
<1>4. \A id \in Nat : Later(id) => Later(id)' /\ id < Head(air).id
  BY <1>1, <1>2 DEF Later
<1>5. \A id \in Nat : id = Head(air).id => Later(id)'
  BY <1>1, <1>2, <1>3 DEF Later, Numbered
<1>6. \A i, j \in 1..Len(air') : i < j => air'[i].id < air'[j].id
  BY <1>1, <1>2 DEF Numbered
<1>7. obeyed[2].id \in Nat
  BY DEF TypeOK, TakenFrame
<1>8. Later(obeyed[2].id)'
  BY <1>4, <1>7 DEF Numbered
<1> QED
  BY <1>4, <1>5, <1>6, <1>8 DEF Numbered

LEMMA InitOrder == Init => OrderInv
<1> SUFFICES ASSUME Init PROVE OrderInv
  OBVIOUS
<1>1. obeyed[2].id = 0 /\ air = <<>> /\ Len(air) = 0 /\ sent = 0
  BY EmptySeq DEF Init, Nothing, Blank
<1>2. Numbered
  BY <1>1 DEF Numbered, Later
<1>3. Fresh
  BY DEF Init, Fresh, Wanted, Blank
<1> QED
  BY <1>1, <1>2, <1>3 DEF OrderInv, Blank

LEMMA NextOrder == TypeOK /\ OrderInv /\ [Next]_vars => OrderInv'
<1> SUFFICES ASSUME TypeOK, OrderInv, [Next]_vars PROVE OrderInv'
  OBVIOUS
<1> USE DEF Blank
<1>1. Numbered /\ Fresh
  BY DEF OrderInv
<1>2. buffer \in Nat /\ obeyed[2].id \in Nat /\ sent \in Nat /\ air \in Seq(AirFrame)
  BY DEF TypeOK, TakenFrame
<1>3. CASE Inject \/ Overhear
  <2>1. UNCHANGED <<end, buffer, length, at, taken, obeyed>> /\ sent' = sent + 1
    BY <1>3 DEF Inject, Overhear
  <2>2. \E f \in OnTheAir, n \in Nat : air' = Append(air, [id |-> sent', n |-> n, frame |-> f])
    <3>1. CASE Inject
      <4>1. seqTx' \in Nat
        BY <3>1, NumberAssumption DEF Inject, Following, Numbers, TypeOK
      <4> QED
        BY <3>1, <4>1 DEF Inject
    <3>2. CASE Overhear
      BY <3>2 DEF Overhear
    <3> QED
      BY <1>3, <3>1, <3>2
  <2>3. PICK x \in AirFrame : x.id = sent + 1 /\ air' = Append(air, x)
    <3>1. PICK f \in OnTheAir, n \in Nat :
            air' = Append(air, [id |-> sent', n |-> n, frame |-> f])
      BY <2>2
    <3>2. [id |-> sent', n |-> n, frame |-> f] \in AirFrame
      BY <1>2, <2>1 DEF AirFrame
    <3> QED
      BY <2>1, <3>1, <3>2
  <2>4. Numbered' /\ \A id \in Nat : Later(id) => Later(id)'
    BY <1>1, <2>1, <2>3, Appended
  <2>5. Fresh'
    BY <1>1, <1>2, <2>1, <2>4 DEF Fresh, Wanted
  <2> QED
    BY <2>1, <2>4, <2>5 DEF OrderInv
<1>4. CASE Lose \/ Reject
  <2>1. UNCHANGED <<end, buffer, length, at, taken, obeyed, sent>> /\ air # <<>> /\ air' = Tail(air)
    BY <1>4 DEF Lose, Reject
  <2>2. Numbered' /\ \A id \in Nat : Later(id) => Later(id)'
    BY <1>1, <2>1, Shortened
  <2>3. Fresh'
    BY <1>1, <1>2, <2>1, <2>2 DEF Fresh, Wanted
  <2> QED
    BY <2>1, <2>2, <2>3 DEF OrderInv
<1>5. CASE Timeout \/ Discard
  <2>1. UNCHANGED <<end, taken, obeyed, sent>> /\ at = "receive" /\ buffer' = Cleared /\ at' = "use"
    BY <1>5 DEF Timeout, Discard, Arrives
  <2>2. Numbered'
    <3>1. CASE Timeout
      BY <1>1, <3>1 DEF Timeout, Numbered, Later
    <3>2. CASE Discard
      BY <1>1, <3>2, Shortened DEF Discard, Arrives
    <3> QED
      BY <1>5, <3>1, <3>2
  <2>3. buffer' = 0
    <3>1. ~Wanted
      BY <1>1, <2>1 DEF Fresh
    <3> QED
      BY <2>1, <3>1 DEF Cleared, Wanted
  <2>4. Fresh'
    BY <2>3 DEF Fresh, Wanted
  <2> QED
    BY <2>1, <2>2, <2>4 DEF OrderInv
<1>6. CASE Decode
  <2>1. UNCHANGED <<end, obeyed, sent>> /\ air # <<>> /\ air' = Tail(air) /\ at' = "use"
        /\ buffer' = Head(air).id /\ taken' = Due(Head(air))
    BY <1>6 DEF Decode, Arrives
  <2>2. Head(air).id \in Nat \ {0}
    BY <2>1, AirHead DEF AirFrame
  <2>3. /\ Numbered' /\ obeyed[2].id < Head(air).id
        /\ \A id \in Nat : id = Head(air).id => Later(id)'
    BY <1>1, <1>2, <2>1, Shortened DEF Numbered
  <2>4. taken'.id = buffer'
    BY <2>1 DEF Due
  <2>5. Later(buffer)'
    BY <2>1, <2>2, <2>3 DEF Later
  <2>6. Fresh'
    BY <2>1, <2>2, <2>3, <2>4, <2>5 DEF Fresh
  <2> QED
    BY <2>1, <2>3, <2>6 DEF OrderInv
<1>7. CASE Use
  <2>1. UNCHANGED <<air, sent, end>> /\ at = "use" /\ at' = "receive" /\ Wanted
        /\ obeyed' = <<obeyed[2], [taken EXCEPT !.id = buffer, !.shown = seqnum]>>
    BY <1>7 DEF Use
  <2>2. obeyed[2].id < buffer /\ Later(buffer)
    BY <1>1, <2>1 DEF Fresh, Wanted
  <2>3. obeyed'[1].id = obeyed[2].id /\ obeyed'[2].id = buffer
    BY <2>1 DEF TypeOK, TakenFrame
  <2>4. Numbered'
    BY <1>1, <2>1, <2>2, <2>3 DEF Numbered, Later
  <2>5. ~Wanted'
    BY <1>7 DEF Use, Wanted, Consumed, TypeOK, Ends
  <2> QED
    BY <2>1, <2>2, <2>3, <2>4, <2>5 DEF OrderInv, Fresh
<1>8. CASE UseNothing
  BY <1>1, <1>8 DEF UseNothing, OrderInv, Fresh, Numbered, Later, Wanted
<1>9. CASE RestartReceiver
  <2>1. UNCHANGED <<end, sent, obeyed>> /\ air' = <<>> /\ buffer' = 0
    BY <1>9 DEF RestartReceiver
  <2>2. Numbered'
    BY <1>1, <2>1, EmptySeq DEF Numbered, Later
  <2> QED
    BY <2>1, <2>2 DEF OrderInv, Fresh, Wanted
<1>10. CASE RestartSender \/ ResetSeqnum \/ UNCHANGED vars
  <2>1. UNCHANGED <<end, air, buffer, length, at, sent, taken, obeyed>>
    BY <1>10 DEF RestartSender, ResetSeqnum, vars
  <2> QED
    BY <2>1 DEF OrderInv, Fresh, Numbered, Later, Wanted
<1> QED
  BY <1>3, <1>4, <1>5, <1>6, <1>7, <1>8, <1>9, <1>10 DEF Next

\* Type correctness of the receiver, and every frame it uses was sent after the
\* ones it used before, whatever is lost, garbled or restarted (pilot_recv,
\* telemetry_recv, recv_80211beacon).
THEOREM UsedInOrder ==
  Spec => [](TypeOK /\ (obeyed[1].id < obeyed[2].id \/ obeyed[2].id = Blank))
<1>1. OrderInv => obeyed[1].id < obeyed[2].id \/ obeyed[2].id = Blank
  BY DEF OrderInv
<1> QED
  BY <1>1, InitType, NextType, InitOrder, NextOrder, PTL DEF Spec

-----------------------------------------------------------------------------
(* What the program finds in its buffer.                                   *)

\* Nothing new: the buffer is blank when the program looks at it.
LEMMA NothingNew ==
  ASSUME TypeOK, OrderInv, Timeout \/ Discard
  PROVE  /\ at = "receive" /\ at' = "use" /\ ~Wanted /\ buffer' = Blank /\ ~Wanted'
         /\ UNCHANGED <<end, seqnum, taken, obeyed>>
<1>1. at = "receive" /\ at' = "use" /\ buffer' = Cleared /\ UNCHANGED <<end, seqnum, taken, obeyed>>
  BY DEF Timeout, Discard, Arrives
<1>2. ~Wanted
  BY <1>1 DEF OrderInv, Fresh
<1>3. buffer' = Blank
  BY <1>1, <1>2 DEF Cleared, Wanted
<1> QED
  BY <1>1, <1>2, <1>3 DEF Wanted

\* A frame is decoded: the buffer holds it, and the number that came out of it
\* counts if it was accepted.
LEMMA SomethingNew ==
  ASSUME TypeOK, Decode
  PROVE  LET f == Head(air) IN
         /\ f \in AirFrame /\ f.frame \in Passed[end] /\ f.frame \in Sound
         /\ at = "receive" /\ at' = "use" /\ UNCHANGED <<end, obeyed>>
         /\ buffer' = f.id /\ buffer' # Blank /\ taken' = Due(f)
         /\ due' = IF By(f.frame) = Peer(end) THEN taken' ELSE due
         /\ length' => ~SignSet(f.n) /\ (f.n < IntRange => seqnum' = f.n)
         /\ ~SignSet(f.n) => length'
<1> DEFINE f == Head(air)
<1>1. f \in AirFrame
  BY AirHead DEF Decode, Arrives
<1>2. PICK c \in Rebuilt(f.n) :
        LET accepted == ~SignSet(f.n) /\ Heard(c) IN
          /\ length' = LengthOf(accepted)
          /\ seqRx' = IF accepted THEN c ELSE seqRx
          /\ seqnum' = IF accepted THEN c ELSE seqnum
  BY DEF Decode
<1>3. (length' => ~SignSet(f.n)) /\ (~SignSet(f.n) => length' /\ seqnum' = c)
  BY <1>2 DEF LengthOf, Heard
<1>4. f.n < IntRange => c = f.n
  BY <1>1, <1>2, RebuiltSmall DEF AirFrame
<1>5. buffer' # Blank
  BY <1>1 DEF Decode, AirFrame, Blank
<1> QED
  BY <1>1, <1>3, <1>4, <1>5 DEF Decode, Arrives

\* A buffer is used.
LEMMA Used ==
  ASSUME TypeOK, OrderInv, Use
  PROVE  /\ at = "use" /\ at' = "receive" /\ buffer # Blank /\ Wanted /\ buffer = taken.id
         /\ UNCHANGED <<end, due, taken>>
         /\ obeyed'[2] = [taken EXCEPT !.shown = seqnum]
<1>1. at = "use" /\ at' = "receive" /\ Wanted /\ UNCHANGED <<end, due, taken>>
      /\ obeyed'[2] = [taken EXCEPT !.id = buffer, !.shown = seqnum]
  BY DEF Use
<1>2. buffer # Blank /\ buffer = taken.id
  BY <1>1 DEF Wanted, OrderInv, Fresh
<1>3. [taken EXCEPT !.id = buffer, !.shown = seqnum] = [taken EXCEPT !.shown = seqnum]
  BY <1>2 DEF TypeOK, TakenFrame
<1> QED
  BY <1>1, <1>2, <1>3

\* The other steps neither listen nor use.
Elsewhere ==
  Inject \/ Overhear \/ Lose \/ RestartSender \/ Reject \/ ResetSeqnum \/ UNCHANGED vars

LEMMA ElsewhereKeeps ==
  ASSUME Elsewhere
  PROVE  UNCHANGED <<end, buffer, length, seqnum, at, taken, obeyed, Wanted>>
  BY DEF Elsewhere, Inject, Overhear, Lose, RestartSender, Reject, ResetSeqnum, vars, Wanted

LEMMA Steps ==
  ASSUME [Next]_vars
  PROVE  Elsewhere \/ Timeout \/ Discard \/ Decode \/ Use \/ UseNothing \/ RestartReceiver
  BY DEF Next, Elsewhere

LEMMA NextByPeer ==
  TypeOK /\ OrderInv /\ ByPeer /\ [Next]_vars => ByPeer'
<1> SUFFICES ASSUME TypeOK, OrderInv, ByPeer, [Next]_vars PROVE ByPeer'
  OBVIOUS
<1>1. CASE Elsewhere
  BY <1>1, ElsewhereKeeps DEF ByPeer
<1>2. CASE Timeout \/ Discard
  BY <1>2, NothingNew DEF ByPeer
<1>3. CASE Decode
  <2> DEFINE f == Head(air)
  <2>1. f \in AirFrame /\ f.frame \in Passed[end] /\ f.frame \in Sound /\ taken' = Due(f)
        /\ UNCHANGED <<end, obeyed>>
    BY <1>3, SomethingNew
  <2>2. By(f.frame) = Peer(end)
    BY <2>1, PassedByPeer DEF TypeOK, AirFrame
  <2> QED
    BY <2>1, <2>2 DEF ByPeer, Due
<1>4. CASE Use
  <2>1. obeyed'[2] = [taken EXCEPT !.shown = seqnum] /\ taken.by = Peer(end) /\ end' = end
        /\ at' = "receive"
    BY <1>4, Used DEF ByPeer
  <2>2. obeyed'[2].by = Peer(end)
    BY <2>1 DEF TypeOK, TakenFrame
  <2> QED
    BY <2>1, <2>2 DEF ByPeer
<1>5. CASE UseNothing \/ RestartReceiver
  BY <1>5 DEF UseNothing, RestartReceiver, ByPeer
<1> QED
  BY <1>1, <1>2, <1>3, <1>4, <1>5, Steps

\* No frame is applied or shown twice, none after a later one, and none but the
\* other end's, whichever end is restarted (pilot_recv, telemetry_recv,
\* decode_packet).
THEOREM UsedOnceInOrder == Spec => []OnceInOrder
<1>1. Init => TypeOK /\ OrderInv /\ ByPeer
  <2> SUFFICES ASSUME Init PROVE ByPeer
    BY InitType, InitOrder
  <2>1. obeyed[2] = Nothing /\ end \in Ends /\ at = "receive"
    BY DEF Init, Ends
  <2> QED
    BY <2>1, NothingType DEF ByPeer
<1>2. OrderInv /\ ByPeer => OnceInOrder
  BY DEF OrderInv, ByPeer, OnceInOrder
<1> QED
  BY <1>1, <1>2, NextType, NextOrder, NextByPeer, PTL DEF Spec

-----------------------------------------------------------------------------
(* The frame that is due, and what the page shows.                         *)

\* A whole frame is neither rejected nor, unless it is garbled, discarded.
LEMMA WholeGoesOn ==
  ASSUME NEW f \in OnTheAir, end \in Ends, Whole(end, f)
  PROVE  f \in Passed[end] /\ f \in Sound
<1>1. f \in Frames
  BY AirAssumption
<1>2. Passes(end, f) /\ Decodable(f)
  BY <1>1, NoneMisread DEF Misread
<1>3. By(f) \in Ends
  BY WholeByPeer, PeerIsOther
<1> QED
  BY <1>2, <1>3 DEF Passed, Sound

LEMMA NextDue ==
  TypeOK /\ OrderInv /\ DueInv /\ [Next]_vars => DueInv'
<1> SUFFICES ASSUME TypeOK, OrderInv, DueInv, [Next]_vars PROVE DueInv'
  OBVIOUS
<1> USE DEF Blank
<1>1. end \in Ends
  BY DEF TypeOK
<1>2. CASE Elsewhere
  <2>1. due' = due
    <3>1. CASE Reject
      <4>1. Head(air).frame \in OnTheAir /\ Head(air).frame \notin Passed[end]
        BY <3>1, AirHead DEF Reject, AirFrame
      <4> QED
        BY <1>1, <3>1, <4>1, WholeGoesOn DEF Reject
    <3> QED
      BY <1>2, <3>1 DEF Elsewhere, Inject, Overhear, Lose, RestartSender, ResetSeqnum, vars
  <2> QED
    BY <1>2, <2>1, ElsewhereKeeps DEF DueInv, Usable
<1>3. CASE Timeout \/ Discard
  <2>1. due' = due
    <3>1. CASE Discard
      <4>1. Head(air).frame \in OnTheAir
        BY <3>1, AirHead DEF Discard, Arrives, AirFrame
      <4> QED
        BY <1>1, <3>1, <4>1, WholeGoesOn DEF Discard
    <3> QED
      BY <1>3, <3>1 DEF Timeout
  <2> QED
    BY <1>3, <2>1, NothingNew DEF DueInv, Usable
<1>4. CASE Decode
  <2> DEFINE f == Head(air)
  <2>1. /\ f \in AirFrame /\ f.frame \in Passed[end] /\ f.frame \in Sound
        /\ at' = "use" /\ end' = end /\ buffer' = f.id /\ buffer' # 0 /\ taken' = Due(f)
        /\ due' = IF By(f.frame) = Peer(end) THEN taken' ELSE due
        /\ ~SignSet(f.n) => length'
    BY <1>4, SomethingNew
  <2>2. By(f.frame) = Peer(end)
    BY <2>1, PassedByPeer DEF TypeOK, AirFrame
  <2>3. due'.id = buffer' /\ due'.n = f.n
    BY <2>1, <2>2 DEF Due
  <2>4. end = "drone" \/ ~SignSet(f.n) => Wanted'
    BY <2>1 DEF Wanted, Usable, Ends
  <2> QED
    BY <2>1, <2>3, <2>4 DEF DueInv, Usable
<1>5. CASE Use
  <2>1. at = "use" /\ Wanted /\ buffer = taken.id /\ at' = "receive" /\ due' = due
        /\ obeyed'[2] = [taken EXCEPT !.shown = seqnum]
    BY <1>5, Used
  <2>2. obeyed'[2].id = taken.id
    BY <2>1 DEF TypeOK, TakenFrame
  <2> QED
    <3>1. end' = end
      BY <1>5, Used
    <3> QED
      BY <2>1, <2>2, <3>1 DEF DueInv, Usable
<1>6. CASE UseNothing
  BY <1>6 DEF UseNothing, DueInv, Usable
<1>7. CASE RestartReceiver
  BY <1>7 DEF RestartReceiver, Nothing, DueInv
<1> QED
  BY <1>2, <1>3, <1>4, <1>5, <1>6, <1>7, Steps

\* A frame of the other end that arrives whole is the next one used, also from a
\* sender that counts from 1 again and, in the drone, also if its number is
\* refused; the station waits while the sign bit of the numbers is set
\* (packet_handler, decode_packet, pilot_recv, telemetry_recv).
THEOREM DueIsUsed == Spec => []WholeIsUsed
<1>1. Init => TypeOK /\ OrderInv /\ DueInv
  BY InitType, InitOrder DEF Init, DueInv, Nothing
<1>2. DueInv => WholeIsUsed
  BY DEF DueInv, WholeIsUsed
<1> QED
  BY <1>1, <1>2, NextType, NextOrder, NextDue, PTL DEF Spec

LEMMA NextShown ==
  TypeOK /\ OrderInv /\ ShownInv /\ PageTruthful /\ [Next]_vars => ShownInv' /\ PageTruthful'
<1> SUFFICES ASSUME TypeOK, OrderInv, ShownInv, PageTruthful, [Next]_vars
             PROVE  ShownInv' /\ PageTruthful'
  OBVIOUS
<1>1. CASE Elsewhere
  BY <1>1, ElsewhereKeeps DEF ShownInv, PageTruthful
<1>2. CASE Timeout \/ Discard
  BY <1>2, NothingNew DEF ShownInv, PageTruthful
<1>3. CASE Decode
  <2> DEFINE f == Head(air)
  <2>1. /\ UNCHANGED <<end, obeyed>> /\ taken' = Due(f)
        /\ length' => ~SignSet(f.n) /\ (f.n < IntRange => seqnum' = f.n)
    BY <1>3, SomethingNew
  <2>2. taken'.n = f.n
    BY <2>1 DEF Due
  <2>3. ShownInv'
    BY <2>1, <2>2 DEF ShownInv, Wanted
  <2> QED
    BY <2>1, <2>3 DEF PageTruthful
<1>4. CASE Use
  <2>1. at = "use" /\ Wanted /\ at' = "receive" /\ end' = end
        /\ obeyed'[2] = [taken EXCEPT !.shown = seqnum]
    BY <1>4, Used
  <2>2. obeyed'[2].n = taken.n /\ obeyed'[2].shown = seqnum
    BY <2>1 DEF TypeOK, TakenFrame
  <2> QED
    BY <2>1, <2>2 DEF ShownInv, PageTruthful
<1>5. CASE UseNothing
  BY <1>5 DEF UseNothing, ShownInv, PageTruthful
<1>6. CASE RestartReceiver
  BY <1>6 DEF RestartReceiver, ShownInv, PageTruthful
<1> QED
  BY <1>1, <1>2, <1>3, <1>4, <1>5, <1>6, Steps

\* The page never shows a frame whose number was refused, and beside a frame with
\* a number of at most 31 bits it shows that number, although it reads both at
\* other times than they are written (packet_handler, telemetry_recv).
THEOREM PageIsTrue == Spec => []PageTruthful
<1>1. Init => TypeOK /\ OrderInv /\ ShownInv /\ PageTruthful
  BY InitType, InitOrder DEF Init, ShownInv, PageTruthful, Nothing
<1> QED
  BY <1>1, NextType, NextOrder, NextShown, PTL DEF Spec

=============================================================================
