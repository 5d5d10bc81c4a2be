---------------------------- MODULE BeaconCipher ----------------------------
(***************************************************************************)
(* The cipher handle of 80211beacons.c.  A program sends beacons in one    *)
(* thread (inject_command) and receives them in another (decode_packet),   *)
(* and both use gcry_hd without a lock.  In CFB mode the handle keeps one  *)
(* register: the initialisation vector, then the last block of ciphertext. *)
(* A block comes out right if the register holds what its own frame left   *)
(* there.  The checksum is taken over the ciphertext, so a garbled frame   *)
(* passes it.  Copying the sixteen bytes of the register is one step.      *)
(***************************************************************************)
EXTENDS Integers

CONSTANT Blocks   \* blocks of a frame, 30: (480 bytes with the sequence number) / 16

ASSUME BlocksAssumption == Blocks \in Nat \ {0}

Threads == {"send", "receive"}
Other(t) == IF t = "send" THEN "receive" ELSE "send"

VARIABLES
  register,  \* what the handle holds: <<thread, block>> of a frame, or nobody's
  pc,        \* per thread: between calls, between blocks, or within a block
  block,     \* per thread: the block it is at
  loaded,    \* per thread: the register was right when the block began
  garbled,   \* per thread: the blocks of its frame that came out wrong
  dirty      \* per thread: the blocks during which the other wrote; history

vars == <<register, pc, block, loaded, garbled, dirty>>

Nobody == <<"nobody", 0>>
Mine(t) == <<t, block[t]>>

Init ==
  /\ register = Nobody
  /\ pc = [t \in Threads |-> "idle"]
  /\ block = [t \in Threads |-> 0]
  /\ loaded = [t \in Threads |-> FALSE]
  /\ garbled = [t \in Threads |-> {}] /\ dirty = [t \in Threads |-> {}]

\* t writes the register while the other is at some block of its frame.
Disturb(t) == [dirty EXCEPT ![Other(t)] = @ \cup {block[Other(t)]}]

\* gcry_cipher_setiv() of a new frame.
SetIv_Kept(t) ==
  /\ pc[t] = "idle"
  /\ pc' = [pc EXCEPT ![t] = "call"]
  /\ block' = [block EXCEPT ![t] = 0]
  /\ garbled' = [garbled EXCEPT ![t] = {}]
  /\ dirty' = [dirty EXCEPT ![t] = {}]
  /\ UNCHANGED <<register, loaded>>
SetIv(t) ==
  /\ pc[t] = "idle"
  /\ pc' = [pc EXCEPT ![t] = "call"]
  /\ block' = [block EXCEPT ![t] = 0]
  /\ register' = <<t, 0>>
  /\ garbled' = [garbled EXCEPT ![t] = {}]
  /\ dirty' = [Disturb(t) EXCEPT ![t] = {}]
  /\ UNCHANGED loaded

More(t) == block[t] < Blocks

\* A block begins: the register is encrypted, into a copy or in place.
Begin(t) ==
  /\ pc[t] = "call" /\ More(t)
  /\ loaded' = [loaded EXCEPT ![t] = register = Mine(t)]
  /\ \/ UNCHANGED <<register, dirty>>
     \/ register' = <<t, -1>> /\ dirty' = Disturb(t)
  /\ pc' = [pc EXCEPT ![t] = "block"]
  /\ UNCHANGED <<block, garbled>>

\* It ends: what the block is combined with is the copy, or what the register
\* holds now; the register is given the block of ciphertext.
Outcomes(t) ==
  {~loaded[t]} \cup IF register \notin {Mine(t), <<t, -1>>} THEN {TRUE} ELSE {}

Feedback(t) == <<t, block[t] + 1>>

End(t) ==
  /\ pc[t] = "block"
  /\ \E wrong \in Outcomes(t) :
       garbled' = [garbled EXCEPT ![t] = @ \cup IF wrong THEN {block[t]} ELSE {}]
  /\ register' = Feedback(t)
  /\ dirty' = Disturb(t)
  /\ block' = [block EXCEPT ![t] = @ + 1]
  /\ pc' = [pc EXCEPT ![t] = "call"]
  /\ UNCHANGED loaded

\* The frame is injected, or handed to the program.
Finish(t) ==
  /\ pc[t] = "call" /\ ~More(t)
  /\ pc' = [pc EXCEPT ![t] = "idle"]
  /\ UNCHANGED <<register, block, loaded, garbled, dirty>>

Thread(t) == SetIv(t) \/ Begin(t) \/ End(t) \/ Finish(t)

Next == \E t \in Threads : Thread(t)

Spec == Init /\ [][Next]_vars

-----------------------------------------------------------------------------
\* Every variable keeps its type.
TypeOK ==
  /\ register \in {Nobody} \cup (Threads \X (-1..Blocks))
  /\ pc \in [Threads -> {"idle", "call", "block"}]
  /\ block \in [Threads -> 0..Blocks] /\ (\A t \in Threads : pc[t] = "block" => block[t] < Blocks)
  /\ loaded \in [Threads -> BOOLEAN]
  /\ garbled \in [Threads -> SUBSET (0..(Blocks - 1))]
  /\ dirty \in [Threads -> SUBSET (0..Blocks)]

\* A race for the handle garbles no more than the blocks it hits: a frame is
\* wrong only where the other thread wrote while that block was at hand, and one
\* that was left alone is right, whatever happened to the frames before it
\* (inject_command, decode_packet).
Contained == \A t \in Threads : garbled[t] \subseteq dirty[t]

-----------------------------------------------------------------------------
(***************************************************************************)
(* What makes it inductive: as long as the other has not written at this   *)
(* block, the register is what the frame left there.                       *)
(***************************************************************************)
Undisturbed(t) ==
  block[t] \notin dirty[t] =>
    /\ pc[t] = "call" => register = Mine(t)
    /\ pc[t] = "block" => loaded[t] /\ register \in {Mine(t), <<t, -1>>}

Ahead(t) == pc[t] # "idle" => \A b \in garbled[t] \cup dirty[t] : b <= block[t]

CipherInv == Contained /\ \A t \in Threads : Undisturbed(t) /\ Ahead(t)

=============================================================================
