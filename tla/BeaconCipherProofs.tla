------------------------- MODULE BeaconCipherProofs -------------------------
(***************************************************************************)
(* Proofs about BeaconCipher, for frames of any number of blocks.          *)
(***************************************************************************)
EXTENDS BeaconCipher, TLAPS

Ind == TypeOK /\ CipherInv

LEMMA ThreadPair ==
  /\ \A t \in Threads : Other(t) \in Threads /\ Other(t) # t /\ Other(Other(t)) = t
  /\ \A t, u \in Threads : u = t \/ u = Other(t)
  /\ \A t \in Threads, m, n \in Int : <<t, m>> # <<Other(t), n>> /\ Nobody # <<t, m>>
  BY DEF Threads, Other, Nobody

LEMMA InitType == Init => TypeOK
  BY BlocksAssumption, ThreadPair DEF Init, TypeOK, Threads

LEMMA SetIvType == \A t \in Threads : TypeOK /\ SetIv(t) => TypeOK'
  BY BlocksAssumption, ThreadPair DEF TypeOK, SetIv, Disturb

LEMMA BeginType == \A t \in Threads : TypeOK /\ Begin(t) => TypeOK'
  BY BlocksAssumption, ThreadPair DEF TypeOK, Begin, Disturb, More

LEMMA EndType == \A t \in Threads : TypeOK /\ End(t) => TypeOK'
  BY BlocksAssumption, ThreadPair DEF TypeOK, End, Disturb, Feedback

LEMMA FinishType == \A t \in Threads : TypeOK /\ Finish(t) => TypeOK'
  BY DEF TypeOK, Finish

LEMMA NextType == TypeOK /\ [Next]_vars => TypeOK'
<1> SUFFICES ASSUME TypeOK, [Next]_vars PROVE TypeOK'
  OBVIOUS
<1>1. CASE Next
  BY <1>1, SetIvType, BeginType, EndType, FinishType DEF Next, Thread
<1>2. CASE UNCHANGED vars
  BY <1>2 DEF vars, TypeOK
<1> QED
  BY <1>1, <1>2

\* The handle and both threads keep their types for frames of any length.
THEOREM Typed == Spec => []TypeOK
  BY InitType, NextType, PTL DEF Spec

-----------------------------------------------------------------------------
(* A step of t keeps the claim for t itself, and by writing the register   *)
(* makes the other's vacuous.                                              *)

LEMMA OtherDirty ==
  ASSUME TypeOK, NEW t \in Threads
  PROVE  LET o == Other(t) IN
         /\ Disturb(t)[o] = dirty[o] \cup {block[o]}
         /\ Disturb(t)[t] = dirty[t]
  BY ThreadPair DEF TypeOK, Disturb

LEMMA NextCipher == Ind /\ [Next]_vars => CipherInv'
<1> SUFFICES ASSUME Ind, [Next]_vars PROVE CipherInv'
  OBVIOUS
<1>1. ASSUME NEW t \in Threads, Thread(t)
      PROVE  CipherInv'
  <2> DEFINE o == Other(t)
  <2>1. o \in Threads /\ o # t /\ Other(o) = t /\ \A u \in Threads : u = t \/ u = o
    BY ThreadPair
  <2>2. SUFFICES /\ garbled'[t] \subseteq dirty'[t] /\ Undisturbed(t)' /\ Ahead(t)'
                 /\ garbled'[o] \subseteq dirty'[o] /\ Undisturbed(o)' /\ Ahead(o)'
    BY <2>1 DEF CipherInv, Contained
  <2>3. /\ garbled[t] \subseteq dirty[t] /\ Undisturbed(t) /\ Ahead(t)
        /\ garbled[o] \subseteq dirty[o] /\ Undisturbed(o) /\ Ahead(o)
    BY <2>1 DEF Ind, CipherInv, Contained
  <2>4. TypeOK /\ TypeOK'
    BY NextType DEF Ind
  <2>5. block[t] \in 0..Blocks /\ block[o] \in 0..Blocks
        /\ garbled[t] \subseteq 0..(Blocks - 1) /\ dirty[t] \subseteq 0..Blocks
        /\ garbled[o] \subseteq 0..(Blocks - 1) /\ dirty[o] \subseteq 0..Blocks
    BY <2>1, <2>4 DEF TypeOK
  <2>6. Disturb(t)[o] = dirty[o] \cup {block[o]} /\ Disturb(t)[t] = dirty[t]
    BY <2>4, OtherDirty
  <2>7. pc' = [pc EXCEPT ![t] = pc'[t]] /\ block' = [block EXCEPT ![t] = block'[t]]
        /\ loaded' = [loaded EXCEPT ![t] = loaded'[t]]
        /\ garbled' = [garbled EXCEPT ![t] = garbled'[t]]
    BY <1>1, <2>4 DEF Thread, SetIv, Begin, End, Finish, TypeOK
  <2>8. pc'[o] = pc[o] /\ block'[o] = block[o] /\ loaded'[o] = loaded[o] /\ garbled'[o] = garbled[o]
    BY <2>1, <2>4, <2>7 DEF TypeOK
  <2>9. ASSUME dirty'[o] = dirty[o] \cup {block[o]}
        PROVE  garbled'[o] \subseteq dirty'[o] /\ Undisturbed(o)' /\ Ahead(o)'
    <3>1. garbled'[o] \subseteq dirty'[o] /\ block'[o] \in dirty'[o]
      BY <2>3, <2>8, <2>9
    <3>2. Ahead(o)'
      BY <2>3, <2>5, <2>8, <2>9 DEF Ahead
    <3> QED
      BY <3>1, <3>2 DEF Undisturbed
  <2>10. ASSUME dirty'[o] = dirty[o], register' = register
         PROVE  garbled'[o] \subseteq dirty'[o] /\ Undisturbed(o)' /\ Ahead(o)'
    BY <2>3, <2>8, <2>10 DEF Undisturbed, Ahead, Mine
  <2>11. CASE SetIv(t)
    <3>1. pc'[t] = "call" /\ block'[t] = 0 /\ garbled'[t] = {} /\ dirty'[t] = {}
          /\ register' = <<t, 0>>
      BY <2>4, <2>11 DEF SetIv, TypeOK, Disturb
    <3>2. dirty'[o] = Disturb(t)[o]
      BY <2>1, <2>4, <2>11 DEF SetIv, TypeOK, Disturb
    <3> QED
      BY <2>6, <2>9, <3>1, <3>2 DEF Undisturbed, Ahead, Mine
  <2>12. CASE Begin(t)
    <3>1. pc[t] = "call" /\ pc'[t] = "block" /\ block'[t] = block[t] /\ garbled'[t] = garbled[t]
          /\ loaded'[t] = (register = Mine(t)) /\ dirty'[t] = dirty[t]
          /\ register' \in {register, <<t, -1>>}
      BY <2>4, <2>6, <2>12 DEF Begin, TypeOK
    <3>2. \/ dirty'[o] = dirty[o] /\ register' = register
          \/ dirty'[o] = dirty[o] \cup {block[o]}
      BY <2>6, <2>12 DEF Begin
    <3>3. Undisturbed(t)' /\ Ahead(t)'
      BY <2>3, <3>1 DEF Undisturbed, Ahead, Mine
    <3> QED
      BY <2>3, <2>9, <2>10, <3>1, <3>2, <3>3
  <2>13. CASE End(t)
    <3>1. pc[t] = "block" /\ pc'[t] = "call" /\ block'[t] = block[t] + 1
          /\ dirty'[t] = dirty[t] /\ dirty'[o] = dirty[o] \cup {block[o]}
          /\ register' = <<t, block[t] + 1>>
      BY <2>4, <2>6, <2>13 DEF End, TypeOK, Feedback
    <3>2. PICK wrong \in Outcomes(t) :
            garbled' = [garbled EXCEPT ![t] = @ \cup IF wrong THEN {block[t]} ELSE {}]
      BY <2>13 DEF End
    <3>3. garbled'[t] = garbled[t] \cup IF wrong THEN {block[t]} ELSE {}
      BY <2>4, <3>2 DEF TypeOK
    <3>4. block[t] \notin dirty[t] => ~wrong
      BY <2>3, <3>1, <3>2 DEF Undisturbed, Outcomes
    <3>5. garbled'[t] \subseteq dirty'[t]
      <4>1. CASE wrong
        BY <2>3, <3>1, <3>3, <3>4, <4>1
      <4>2. CASE ~wrong
        BY <2>3, <3>1, <3>3, <4>2
      <4> QED
        BY <4>1, <4>2
    <3>6. \A b \in garbled[t] \cup dirty[t] : b \in Int /\ b <= block[t]
      BY <2>3, <2>5, <3>1, BlocksAssumption DEF Ahead
    <3>7. Ahead(t)'
      BY <2>5, <3>1, <3>5, <3>6, BlocksAssumption DEF Ahead
    <3>8. Undisturbed(t)'
      BY <3>1 DEF Undisturbed, Mine
    <3> QED
      BY <2>9, <3>1, <3>5, <3>7, <3>8
  <2>14. CASE Finish(t)
    <3>1. pc'[t] = "idle" /\ dirty' = dirty /\ garbled' = garbled /\ register' = register
      BY <2>4, <2>14 DEF Finish, TypeOK
    <3> QED
      BY <2>3, <2>10, <3>1 DEF Undisturbed, Ahead
  <2> QED
    BY <1>1, <2>2, <2>11, <2>12, <2>13, <2>14 DEF Thread
<1>2. CASE UNCHANGED vars
  BY <1>2 DEF vars, Ind, CipherInv, Contained, Undisturbed, Ahead, Mine
<1> QED
  BY <1>1, <1>2 DEF Next

\* For frames of any length: a race for gcry_hd garbles only the blocks it hits,
\* and a frame that is left alone is right (inject_command, decode_packet).
THEOREM RacesContained == Spec => []Contained
<1>1. Init => CipherInv
  BY DEF Init, CipherInv, Contained, Undisturbed, Ahead
<1>2. Ind => Contained
  BY DEF Ind, CipherInv
<1> QED
  BY <1>1, <1>2, InitType, NextType, NextCipher, PTL DEF Spec, Ind

=============================================================================
