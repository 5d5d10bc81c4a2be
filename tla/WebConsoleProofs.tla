-------------------------- MODULE WebConsoleProofs --------------------------
(***************************************************************************)
(* Proofs about WebConsole, for any number of pages and of commands, any   *)
(* texts that fit and any number of frames that arrive at once.            *)
(***************************************************************************)
EXTENDS WebConsole, SequenceTheorems, TLAPS

-----------------------------------------------------------------------------
(* The slot and the buffer.                                                *)

LEMMA NotSigns == NUL \notin Signs
  BY DEF NUL, Signs, Keywords, Digit

LEMMA TextFacts ==
  ASSUME NEW t \in Texts
  PROVE  /\ t \in Seq(Signs) /\ Len(t) \in 1..Longest /\ DOMAIN t = 1..Len(t)
         /\ t # <<>> /\ t = [i \in 1..Len(t) |-> t[i]]
         /\ \A i \in 1..Len(t) : t[i] \in Signs /\ t[i] # NUL
<1>1. t \in Seq(Signs) /\ Len(t) \in 1..Longest
  BY TextAssumption DEF Signs
<1>2. DOMAIN t = 1..Len(t) /\ t = [i \in 1..Len(t) |-> t[i]]
  BY <1>1, LenProperties
<1>3. \A i \in 1..Len(t) : t[i] \in Signs
  BY <1>1, ElementOfSeq
<1>4. t # <<>>
  BY <1>1, EmptySeq DEF Longest
<1> QED
  BY <1>1, <1>2, <1>3, <1>4, NotSigns

LEMMA FrameFacts ==
  ASSUME NEW f \in Frames
  PROVE  f # Nothing /\ f.from \in Clients /\ f.number \in Nat /\ f.text \in Texts
<1>1. f.from \in Clients /\ f.number \in Nat /\ f.text \in Texts
  BY DEF Frames
<1>2. f.text # Nothing.text
  BY <1>1, TextFacts DEF Nothing
<1> QED
  BY <1>1, <1>2

LEMMA NothingType == Nothing.text = <<>> /\ Nothing \notin Frames
  BY FrameFacts DEF Nothing

LEMMA ReadTo ==
  ASSUME NEW s, NEW e \in Room, s[e] = NUL, \A j \in 1..(e - 1) : s[j] # NUL
  PROVE  Reading(s) = [i \in 1..(e - 1) |-> s[i]]
<1> DEFINE end == CHOOSE i \in Room : s[i] = NUL /\ \A j \in 1..(i - 1) : s[j] # NUL
<1>1. end \in Room /\ s[end] = NUL /\ \A j \in 1..(end - 1) : s[j] # NUL
  OBVIOUS
<1>2. Reading(s) = [i \in 1..(end - 1) |-> s[i]]
  BY DEF Reading
<1> HIDE DEF end
<1>3. end \in 1..4 /\ e \in 1..4
  BY <1>1 DEF Room, Longest
<1>4. ~(end < e) /\ ~(e < end)
  BY <1>1, <1>3
<1>5. end = e
  BY <1>3, <1>4
<1> QED
  BY <1>2, <1>5

\* A text that fits is read as it was sent, whatever the buffer held.
LEMMA ReadAsSent ==
  ASSUME TypeOK, NEW t \in Texts
  PROVE  Received(t)[1] # NUL /\ Reading(Received(t)) = t
<1> DEFINE s == Received(t)
           n == Len(t)
<1>1. n \in 1..3 /\ Room = 1..4 /\ DOMAIN t = 1..n
  BY TextFacts DEF Room, Longest
<1>2. \A i \in 1..n : s[i] = t[i] /\ s[i] # NUL
  BY <1>1, TextFacts DEF Received
<1>3. s[n + 1] = NUL
  BY <1>1 DEF Received
<1> HIDE DEF s, n
<1>4. PICK e \in Room : e = n + 1
  BY <1>1
<1>5. s[e] = NUL /\ e - 1 = n
  BY <1>1, <1>3, <1>4
<1>6. \A j \in 1..(e - 1) : s[j] # NUL
  BY <1>2, <1>5
<1>7. Reading(s) = [i \in 1..(e - 1) |-> s[i]]
  BY <1>5, <1>6, ReadTo
<1>8. t = [i \in 1..n |-> t[i]]
  BY TextFacts DEF n
<1>9. Reading(s) = t
  BY <1>2, <1>5, <1>7, <1>8
<1> QED
  BY <1>1, <1>2, <1>9 DEF s

\* An emptied slot leaves nothing to read.
LEMMA ReadNothing == Received(<<>>)[1] = NUL
<1>1. Len(<<>>) = 0 /\ DOMAIN <<>> = {} /\ 1 \in Room
  BY EmptySeq DEF Room, Longest
<1> QED
  BY <1>1 DEF Received

LEMMA ReceivedType ==
  ASSUME TypeOK, NEW t \in Texts \cup {<<>>}
  PROVE  Received(t) \in [Room -> Signs \cup {NUL}]
<1>1. \A i \in DOMAIN t : t[i] \in Signs
  BY TextFacts
<1> QED
  BY <1>1 DEF Received, TypeOK

-----------------------------------------------------------------------------
(* Types.                                                                  *)

LEMMA InitType == Init => TypeOK
<1> SUFFICES ASSUME Init PROVE TypeOK
  OBVIOUS
<1>1. given \in [Clients -> Seq(Texts)] /\ wire \in [Clients -> Seq(Frames)]
      /\ obeyed \in [Clients -> Seq([number: Nat, text: Texts])]
  BY EmptySeq DEF Init
<1>2. slot = Nothing /\ stream \in [Room -> Signs \cup {NUL}]
  BY DEF Init
<1> QED
  BY <1>1, <1>2 DEF TypeOK

LEMMA GiveType ==
  ASSUME TypeOK, NEW c \in Clients, Give(c)
  PROVE  TypeOK'
<1>1. PICK t \in Texts :
        /\ given' = [given EXCEPT ![c] = Append(@, t)]
        /\ wire' = [wire EXCEPT ![c] =
                      Append(@, [from |-> c, number |-> Len(given[c]) + 1, text |-> t])]
  BY DEF Give
<1>2. given[c] \in Seq(Texts) /\ wire[c] \in Seq(Frames)
  BY DEF TypeOK
<1>3. Len(given[c]) + 1 \in Nat
  BY <1>2, LenProperties
<1>4. [from |-> c, number |-> Len(given[c]) + 1, text |-> t] \in Frames
  BY <1>3 DEF Frames
<1>5. Append(given[c], t) \in Seq(Texts)
      /\ Append(wire[c], [from |-> c, number |-> Len(given[c]) + 1, text |-> t]) \in Seq(Frames)
  BY <1>2, <1>4, AppendProperties
<1>6. given' \in [Clients -> Seq(Texts)] /\ wire' \in [Clients -> Seq(Frames)]
  BY <1>1, <1>5 DEF TypeOK
<1> QED
  BY <1>6 DEF TypeOK, Give

\* What poll_www() leaves on the wires and what it stores.
LEMMA PollStep ==
  ASSUME TypeOK, Poll
  PROVE  \E n \in [Clients -> Nat] :
           /\ \A c \in Clients :
                /\ n[c] <= Len(wire[c]) /\ wire'[c] \in Seq(Frames)
                /\ Len(wire'[c]) = Len(wire[c]) - n[c]
                /\ \A i \in 1..Len(wire'[c]) : wire'[c][i] = wire[c][n[c] + i]
           /\ \/ slot' = slot
              \/ \E c \in Clients : n[c] > 0 /\ slot' = wire[c][n[c]]
           /\ wire' = [c \in Clients |-> wire'[c]]
<1>1. PICK n \in [Clients -> 0..MaxGiven] :
        /\ \A c \in Clients : n[c] <= Len(wire[c])
        /\ wire' = [c \in Clients |-> SubSeq(wire[c], n[c] + 1, Len(wire[c]))]
        /\ slot' = slot \/ \E c \in Clients : n[c] > 0 /\ slot' = Stored(c, n[c])
  BY DEF Poll
<1>2. n \in [Clients -> Nat]
  BY <1>1, NumberAssumption
<1>3. ASSUME NEW c \in Clients
      PROVE  /\ wire'[c] \in Seq(Frames)
             /\ Len(wire'[c]) = Len(wire[c]) - n[c]
             /\ \A i \in 1..Len(wire'[c]) : wire'[c][i] = wire[c][n[c] + i]
  <2>1. wire[c] \in Seq(Frames) /\ n[c] \in Nat /\ n[c] <= Len(wire[c])
    BY <1>1, <1>2 DEF TypeOK
  <2>2. PICK l \in Nat, m \in Nat : l = Len(wire[c]) /\ m = n[c] /\ m <= l
    BY <2>1, LenProperties
  <2>3. \A i \in (m + 1)..l : wire[c][i] \in Frames
    <3> SUFFICES ASSUME NEW i \in (m + 1)..l PROVE wire[c][i] \in Frames
      OBVIOUS
    <3>1. i \in 1..Len(wire[c])
      BY <2>2
    <3> QED
      BY <2>1, <3>1, ElementOfSeq
  <2>4. wire'[c] = SubSeq(wire[c], m + 1, l)
    BY <1>1, <2>2
  <2>5. m + 1 \in Int /\ l \in Int
    OBVIOUS
  <2>6. /\ wire'[c] \in Seq(Frames)
        /\ Len(wire'[c]) = IF m + 1 <= l THEN l - (m + 1) + 1 ELSE 0
        /\ \A i \in 1..(l - (m + 1) + 1) : wire'[c][i] = wire[c][m + 1 + i - 1]
    BY <2>3, <2>4, <2>5, SubSeqProperties
  <2>7. Len(wire'[c]) = l - m
    BY <2>2, <2>6
  <2>8. \A i \in 1..(l - m) : m + 1 + i - 1 = m + i
    OBVIOUS
  <2>9. l - (m + 1) + 1 = l - m
    OBVIOUS
  <2>10. \A i \in 1..(l - m) : wire'[c][i] = wire[c][m + i]
    BY <2>6, <2>8, <2>9
  <2> QED
    BY <2>2, <2>6, <2>7, <2>10
<1>4. wire' = [c \in Clients |-> wire'[c]]
  BY <1>1
<1> QED
  BY <1>1, <1>2, <1>3, <1>4 DEF Stored

LEMMA PollType == TypeOK /\ Poll => TypeOK'
<1> SUFFICES ASSUME TypeOK, Poll PROVE TypeOK'
  OBVIOUS
<1>1. PICK n \in [Clients -> Nat] :
        /\ \A c \in Clients : n[c] <= Len(wire[c]) /\ wire'[c] \in Seq(Frames)
        /\ slot' = slot \/ \E c \in Clients : n[c] > 0 /\ slot' = wire[c][n[c]]
        /\ wire' = [c \in Clients |-> wire'[c]]
  BY PollStep
<1>2. wire' \in [Clients -> Seq(Frames)]
  BY <1>1
<1>3. slot' \in Frames \cup {Nothing}
  <2>1. ASSUME NEW c \in Clients, n[c] > 0 PROVE wire[c][n[c]] \in Frames
    <3>1. wire[c] \in Seq(Frames) /\ n[c] \in 1..Len(wire[c])
      BY <1>1, <2>1 DEF TypeOK
    <3> QED
      BY <3>1, ElementOfSeq
  <2> QED
    BY <1>1, <2>1 DEF TypeOK
<1> QED
  BY <1>2, <1>3 DEF TypeOK, Poll

\* recv_www() and parse_www_command(): what was in the slot, if anything, is
\* obeyed as it was sent.
LEMMA ObeyStep ==
  ASSUME TypeOK, Obey
  PROVE  /\ slot' = Nothing /\ UNCHANGED <<given, wire>>
         /\ stream' \in [Room -> Signs \cup {NUL}] /\ stream'[1] = NUL
         /\ slot = Nothing => obeyed' = obeyed
         /\ slot # Nothing =>
              /\ slot \in Frames
              /\ obeyed' = [obeyed EXCEPT ![slot.from] =
                              Append(@, [number |-> slot.number, text |-> slot.text])]
<1> DEFINE s == Received(slot.text)
<1>1. slot.text \in Texts \cup {<<>>}
  BY FrameFacts, NothingType DEF TypeOK
<1>2. s \in [Room -> Signs \cup {NUL}] /\ 1 \in Room
  BY <1>1, ReceivedType DEF Room, Longest
<1>3. stream' = [s EXCEPT ![1] = NUL] /\ slot' = Nothing /\ UNCHANGED <<given, wire>>
  BY DEF Obey, Emptied
<1>4. ASSUME slot = Nothing PROVE obeyed' = obeyed
  <2>1. s[1] = NUL
    BY <1>4, NothingType, ReadNothing
  <2> QED
    BY <2>1 DEF Obey
<1>5. ASSUME slot # Nothing
      PROVE  /\ slot \in Frames
             /\ obeyed' = [obeyed EXCEPT ![slot.from] =
                             Append(@, [number |-> slot.number, text |-> slot.text])]
  <2>1. slot \in Frames /\ slot.text \in Texts
    BY <1>5, FrameFacts DEF TypeOK
  <2>2. s[1] # NUL /\ Reading(s) = slot.text
    BY <2>1, ReadAsSent
  <2> QED
    BY <2>1, <2>2 DEF Obey
<1> HIDE DEF s
<1> QED
  BY <1>2, <1>3, <1>4, <1>5

LEMMA ObeyType == TypeOK /\ Obey => TypeOK'
<1> SUFFICES ASSUME TypeOK, Obey PROVE TypeOK'
  OBVIOUS
<1>1. obeyed' \in [Clients -> Seq([number: Nat, text: Texts])]
  <2>1. CASE slot = Nothing
    BY <2>1, ObeyStep DEF TypeOK
  <2>2. CASE slot # Nothing
    <3> DEFINE r == [number |-> slot.number, text |-> slot.text]
    <3>1. slot.from \in Clients /\ r \in [number: Nat, text: Texts]
      BY <2>2, ObeyStep, FrameFacts
    <3>2. obeyed[slot.from] \in Seq([number: Nat, text: Texts])
      BY <3>1 DEF TypeOK
    <3>3. Append(obeyed[slot.from], r) \in Seq([number: Nat, text: Texts])
      BY <3>1, <3>2, AppendProperties
    <3>4. obeyed' = [obeyed EXCEPT ![slot.from] = Append(obeyed[slot.from], r)]
      BY <2>2, ObeyStep
    <3> QED
      BY <3>1, <3>3, <3>4 DEF TypeOK
  <2> QED
    BY <2>1, <2>2
<1>2. slot' = Nothing /\ UNCHANGED <<given, wire>> /\ stream' \in [Room -> Signs \cup {NUL}]
  BY ObeyStep
<1> QED
  BY <1>1, <1>2 DEF TypeOK

LEMMA NextType == TypeOK /\ [Next]_vars => TypeOK'
<1> SUFFICES ASSUME TypeOK, [Next]_vars PROVE TypeOK'
  OBVIOUS
<1>1. CASE UNCHANGED vars
  BY <1>1 DEF vars, TypeOK
<1> QED
  BY <1>1, PollType, ObeyType, GiveType DEF Next

-----------------------------------------------------------------------------
(* What is still on its way is numbered above what was obeyed.             *)

LEMMA LatestType ==
  ASSUME TypeOK, NEW c \in Clients
  PROVE  Latest(c) \in Nat
<1>1. obeyed[c] \in Seq([number: Nat, text: Texts])
  BY DEF TypeOK
<1>2. CASE obeyed[c] = <<>>
  BY <1>2 DEF Latest, Console!Latest
<1>3. CASE obeyed[c] # <<>>
  <2>1. Len(obeyed[c]) \in 1..Len(obeyed[c])
    BY <1>1, <1>3, EmptySeq, LenProperties
  <2>2. obeyed[c][Len(obeyed[c])] \in [number: Nat, text: Texts]
    BY <1>1, <2>1, ElementOfSeq
  <2> QED
    BY <1>3, <2>2 DEF Latest, Console!Latest
<1> QED
  BY <1>2, <1>3

LEMMA InitOrder == Init => OrderInv
<1> SUFFICES ASSUME Init PROVE OrderInv
  OBVIOUS
<1>1. ASSUME NEW c \in Clients
      PROVE  Latest(c) = 0 /\ Len(given[c]) = 0 /\ 1..Len(wire[c]) = {}
  BY EmptySeq DEF Init, Latest, Console!Latest
<1>2. WireInv
  <2> SUFFICES ASSUME NEW c \in Clients
      PROVE  /\ Latest(c) <= Len(given[c])
             /\ \A i \in 1..Len(wire[c]) :
                  wire[c][i].from = c /\ OnItsWay(wire[c][i], given[c], Latest(c))
             /\ \A i, j \in 1..Len(wire[c]) : i < j => wire[c][i].number < wire[c][j].number
    BY DEF WireInv
  <2>1. Latest(c) <= Len(given[c])
    BY <1>1
  <2>2. \A i \in 1..Len(wire[c]) : FALSE
    BY <1>1
  <2> QED
    BY <2>1, <2>2
<1>3. SlotInv /\ stream[1] = NUL
  BY DEF Init, SlotInv, Room, Longest
<1> QED
  BY <1>2, <1>3 DEF OrderInv

\* What a page gave before stays on its way when it gives more.
LEMMA MoreGiven ==
  ASSUME NEW g \in Seq(Texts), NEW t \in Texts, NEW f \in Frames, NEW l \in Nat,
         OnItsWay(f, g, l)
  PROVE  f.number <= Len(g) /\ OnItsWay(f, Append(g, t), l)
<1>1. PICK n \in Nat : n = Len(g)
  BY LenProperties
<1>2. Len(Append(g, t)) = n + 1 /\ \A i \in 1..n : Append(g, t)[i] = g[i]
  BY <1>1, AppendProperties
<1>3. f.number \in 1..n
  BY <1>1 DEF OnItsWay
<1> QED
  BY <1>1, <1>2, <1>3 DEF OnItsWay

LEMMA GiveOrder ==
  ASSUME TypeOK, OrderInv, NEW d \in Clients, Give(d)
  PROVE  OrderInv'
<1>1. PICK t \in Texts :
        /\ given' = [given EXCEPT ![d] = Append(@, t)]
        /\ wire' = [wire EXCEPT ![d] =
                      Append(@, [from |-> d, number |-> Len(given[d]) + 1, text |-> t])]
  BY DEF Give
<1>2. slot' = slot /\ stream' = stream /\ obeyed' = obeyed
  BY DEF Give
<1>3. \A c \in Clients : Latest(c)' = Latest(c) /\ Latest(c) \in Nat
  BY <1>2, LatestType DEF Latest, Console!Latest
<1>4. \A c \in Clients \ {d} : given'[c] = given[c] /\ wire'[c] = wire[c]
  BY <1>1 DEF TypeOK
<1>5. given[d] \in Seq(Texts) /\ wire[d] \in Seq(Frames)
  BY DEF TypeOK
<1>6. PICK g \in Nat, w \in Nat : g = Len(given[d]) /\ w = Len(wire[d])
  BY <1>5, LenProperties
<1>7. PICK f \in Frames : f.from = d /\ f.number = g + 1 /\ f.text = t
                          /\ wire'[d] = Append(wire[d], f)
  <2>1. [from |-> d, number |-> g + 1, text |-> t] \in Frames
    BY DEF Frames
  <2>2. wire'[d] = Append(wire[d], [from |-> d, number |-> g + 1, text |-> t])
    BY <1>1, <1>6 DEF TypeOK
  <2> QED
    BY <2>1, <2>2
<1>8. given'[d] = Append(given[d], t)
  BY <1>1 DEF TypeOK
<1>9. Len(given'[d]) = g + 1 /\ given'[d][g + 1] = t
  BY <1>5, <1>6, <1>8, AppendProperties
<1>10. Len(wire'[d]) = w + 1 /\ wire'[d][w + 1] = f
       /\ \A i \in 1..w : wire'[d][i] = wire[d][i]
  BY <1>5, <1>6, <1>7, AppendProperties
<1>11. \A h \in Frames : OnItsWay(h, given[d], Latest(d)) =>
                           h.number <= g /\ OnItsWay(h, given'[d], Latest(d))
  BY <1>3, <1>5, <1>6, <1>8, MoreGiven
<1>12. \A i \in 1..w : wire[d][i] \in Frames /\ wire[d][i].from = d
                       /\ OnItsWay(wire[d][i], given[d], Latest(d))
  BY <1>5, <1>6, ElementOfSeq DEF OrderInv, WireInv
<1>13. Latest(d) \in Nat /\ Latest(d) <= g /\ Latest(d)' = Latest(d)
  BY <1>3, <1>6 DEF OrderInv, WireInv
<1>14. \A i \in 1..(w + 1) : i \in 1..w \/ i = w + 1
  OBVIOUS
<1>15. \A i \in 1..(w + 1) :
         wire'[d][i].from = d /\ OnItsWay(wire'[d][i], given'[d], Latest(d))
  <2>1. \A i \in 1..w : wire'[d][i].from = d /\ OnItsWay(wire'[d][i], given'[d], Latest(d))
    BY <1>10, <1>11, <1>12
  <2>2. OnItsWay(f, given'[d], Latest(d))
    BY <1>7, <1>9, <1>13 DEF OnItsWay
  <2> QED
    BY <1>7, <1>10, <1>14, <2>1, <2>2
<1>16. \A i, j \in 1..(w + 1) : i < j => wire'[d][i].number < wire'[d][j].number
  <2> SUFFICES ASSUME NEW i \in 1..(w + 1), NEW j \in 1..(w + 1), i < j
               PROVE  wire'[d][i].number < wire'[d][j].number
    OBVIOUS
  <2>1. i \in 1..w /\ wire'[d][i] = wire[d][i] /\ wire[d][i] \in Frames
    BY <1>10, <1>12
  <2>2. CASE j \in 1..w
    <3>1. wire[d][i].number < wire[d][j].number
      BY <1>6, <2>1, <2>2 DEF OrderInv, WireInv
    <3> QED
      BY <1>10, <2>1, <2>2, <3>1
  <2>3. CASE j = w + 1
    <3>1. wire[d][i].number \in Nat /\ wire[d][i].number <= g
      BY <1>11, <1>12, <2>1, FrameFacts
    <3> QED
      BY <1>7, <1>10, <2>1, <2>3, <3>1
  <2> QED
    BY <1>14, <2>2, <2>3
<1>17. WireInv'
  <2> SUFFICES ASSUME NEW c \in Clients
      PROVE  /\ Latest(c)' <= Len(given'[c])
             /\ \A i \in 1..Len(wire'[c]) :
                  wire'[c][i].from = c /\ OnItsWay(wire'[c][i], given'[c], Latest(c)')
             /\ \A i, j \in 1..Len(wire'[c]) : i < j => wire'[c][i].number < wire'[c][j].number
    BY DEF WireInv
  <2>1. CASE c = d
    BY <1>9, <1>10, <1>13, <1>15, <1>16, <2>1
  <2>2. CASE c # d
    <3>1. given'[c] = given[c] /\ wire'[c] = wire[c] /\ Latest(c)' = Latest(c)
      BY <1>3, <1>4, <2>2
    <3> QED
      BY <3>1 DEF OrderInv, WireInv
  <2> QED
    BY <2>1, <2>2
<1>18. SlotInv'
  <2> SUFFICES ASSUME NEW c \in Clients, slot # Nothing, slot.from = c
      PROVE  /\ OnItsWay(slot, given'[c], Latest(c)')
             /\ \A i \in 1..Len(wire'[c]) : slot.number < wire'[c][i].number
    BY <1>2 DEF SlotInv
  <2>1. slot \in Frames /\ slot.number \in Nat /\ OnItsWay(slot, given[c], Latest(c))
        /\ \A i \in 1..Len(wire[c]) : slot.number < wire[c][i].number
    BY FrameFacts DEF TypeOK, OrderInv, SlotInv
  <2>2. CASE c = d
    <3>1. slot.number <= g /\ OnItsWay(slot, given'[c], Latest(c)')
      BY <1>11, <1>13, <2>1, <2>2
    <3>2. \A i \in 1..w : slot.number < wire'[d][i].number
      BY <1>6, <1>10, <2>1, <2>2
    <3>3. slot.number < wire'[d][w + 1].number
      BY <1>7, <1>10, <2>1, <3>1
    <3> QED
      BY <1>10, <1>14, <2>2, <3>1, <3>2, <3>3
  <2>3. CASE c # d
    BY <1>3, <1>4, <2>1, <2>3
  <2> QED
    BY <2>2, <2>3
<1> QED
  BY <1>2, <1>17, <1>18 DEF OrderInv

LEMMA PollOrder == TypeOK /\ OrderInv /\ Poll => OrderInv'
<1> SUFFICES ASSUME TypeOK, OrderInv, Poll PROVE OrderInv'
  OBVIOUS
<1>1. PICK n \in [Clients -> Nat] :
        /\ \A c \in Clients :
             /\ n[c] <= Len(wire[c]) /\ wire'[c] \in Seq(Frames)
             /\ Len(wire'[c]) = Len(wire[c]) - n[c]
             /\ \A i \in 1..Len(wire'[c]) : wire'[c][i] = wire[c][n[c] + i]
        /\ slot' = slot \/ \E c \in Clients : n[c] > 0 /\ slot' = wire[c][n[c]]
  BY PollStep
<1>2. given' = given /\ stream' = stream /\ obeyed' = obeyed
  BY DEF Poll
<1>3. \A c \in Clients : Latest(c)' = Latest(c)
  BY <1>2 DEF Latest, Console!Latest
<1>4. ASSUME NEW c \in Clients
      PROVE  \A i \in 1..Len(wire'[c]) :
               n[c] + i \in 1..Len(wire[c]) /\ n[c] + i > n[c]
               /\ wire'[c][i] = wire[c][n[c] + i]
  <2>1. Len(wire[c]) \in Nat /\ n[c] \in Nat
    BY LenProperties DEF TypeOK
  <2> QED
    BY <1>1, <2>1
<1>5. WireInv'
  <2> SUFFICES ASSUME NEW c \in Clients
      PROVE  /\ Latest(c)' <= Len(given'[c])
             /\ \A i \in 1..Len(wire'[c]) :
                  wire'[c][i].from = c /\ OnItsWay(wire'[c][i], given'[c], Latest(c)')
             /\ \A i, j \in 1..Len(wire'[c]) : i < j => wire'[c][i].number < wire'[c][j].number
    BY DEF WireInv
  <2>1. Latest(c)' <= Len(given'[c])
    BY <1>2, <1>3 DEF OrderInv, WireInv
  <2>2. \A i \in 1..Len(wire'[c]) :
          wire'[c][i].from = c /\ OnItsWay(wire'[c][i], given'[c], Latest(c)')
    BY <1>2, <1>3, <1>4 DEF OrderInv, WireInv
  <2>3. \A i, j \in 1..Len(wire'[c]) : i < j => n[c] + i < n[c] + j
    BY LenProperties
  <2>4. \A i, j \in 1..Len(wire'[c]) : i < j => wire'[c][i].number < wire'[c][j].number
    BY <1>4, <2>3 DEF OrderInv, WireInv
  <2> QED
    BY <2>1, <2>2, <2>4
<1>6. SlotInv'
  <2> SUFFICES ASSUME NEW c \in Clients, slot' # Nothing, slot'.from = c
      PROVE  /\ OnItsWay(slot', given'[c], Latest(c)')
             /\ \A i \in 1..Len(wire'[c]) : slot'.number < wire'[c][i].number
    BY DEF SlotInv
  <2>1. CASE slot' = slot
    <3>1. OnItsWay(slot, given[c], Latest(c))
          /\ \A i \in 1..Len(wire[c]) : slot.number < wire[c][i].number
      BY <2>1 DEF OrderInv, SlotInv
    <3> QED
      BY <1>2, <1>3, <1>4, <2>1, <3>1
  <2>2. ASSUME NEW e \in Clients, n[e] > 0, slot' = wire[e][n[e]]
        PROVE  /\ OnItsWay(slot', given'[c], Latest(c)')
               /\ \A i \in 1..Len(wire'[c]) : slot'.number < wire'[c][i].number
    <3>1. n[e] \in 1..Len(wire[e])
      BY <1>1, <2>2, LenProperties DEF TypeOK
    <3>2. e = c /\ OnItsWay(slot', given[c], Latest(c))
      BY <2>2, <3>1 DEF OrderInv, WireInv
    <3>3. \A i \in 1..Len(wire[c]) : i > n[c] => wire[c][n[c]].number < wire[c][i].number
      BY <3>1, <3>2 DEF OrderInv, WireInv
    <3>4. \A i \in 1..Len(wire'[c]) : slot'.number < wire'[c][i].number
      BY <1>4, <2>2, <3>2, <3>3
    <3> QED
      BY <1>2, <1>3, <3>2, <3>4
  <2> QED
    BY <1>1, <2>1, <2>2
<1> QED
  BY <1>2, <1>5, <1>6 DEF OrderInv

\* Obeying the slot of a page is one step of that page's own console.
LEMMA ObeyedInOrder ==
  ASSUME TypeOK, OrderInv, Obey, slot # Nothing
  PROVE  \E c \in Clients :
           /\ slot.from = c /\ Latest(c)' = slot.number
           /\ OnItsWay(slot, given[c], Latest(c))
           /\ obeyed'[c] =
                Append(obeyed[c], [number |-> slot.number, text |-> slot.text])
           /\ \A d \in Clients \ {c} : obeyed'[d] = obeyed[d]
<1>1. slot \in Frames
      /\ obeyed' = [obeyed EXCEPT ![slot.from] =
                      Append(@, [number |-> slot.number, text |-> slot.text])]
  BY ObeyStep
<1>2. PICK c \in Clients, r \in [number: Nat, text: Texts] :
        c = slot.from /\ r = [number |-> slot.number, text |-> slot.text]
  BY <1>1, FrameFacts
<1>3. obeyed[c] \in Seq([number: Nat, text: Texts])
  BY DEF TypeOK
<1>4. obeyed'[c] = Append(obeyed[c], r) /\ \A d \in Clients \ {c} : obeyed'[d] = obeyed[d]
  BY <1>1, <1>2 DEF TypeOK
<1>5. PICK n \in Nat : n = Len(obeyed[c])
  BY <1>3, LenProperties
<1>6. /\ Append(obeyed[c], r) \in Seq([number: Nat, text: Texts])
      /\ Len(Append(obeyed[c], r)) = n + 1 /\ Append(obeyed[c], r)[n + 1] = r
  BY <1>3, <1>5, AppendProperties
<1>7. Append(obeyed[c], r) # <<>>
  BY <1>6, EmptySeq
<1>8. Latest(c)' = r.number
  BY <1>4, <1>6, <1>7 DEF Latest, Console!Latest
<1>9. OnItsWay(slot, given[c], Latest(c))
  BY <1>2 DEF OrderInv, SlotInv
<1> QED
  BY <1>2, <1>4, <1>8, <1>9

LEMMA ObeyOrder == TypeOK /\ OrderInv /\ Obey => OrderInv'
<1> SUFFICES ASSUME TypeOK, OrderInv, Obey PROVE OrderInv'
  OBVIOUS
<1>1. slot' = Nothing /\ given' = given /\ wire' = wire /\ stream'[1] = NUL
  BY ObeyStep
<1>2. SlotInv'
  BY <1>1 DEF SlotInv
<1>3. CASE slot = Nothing
  <2>1. obeyed' = obeyed
    BY <1>3, ObeyStep
  <2>2. \A c \in Clients : Latest(c)' = Latest(c)
    BY <2>1 DEF Latest, Console!Latest
  <2> QED
    BY <1>1, <1>2, <2>2 DEF OrderInv, WireInv
<1>4. CASE slot # Nothing
  <2>1. PICK c \in Clients :
          /\ slot.from = c /\ Latest(c)' = slot.number
          /\ OnItsWay(slot, given[c], Latest(c))
          /\ \A d \in Clients \ {c} : obeyed'[d] = obeyed[d]
    BY <1>4, ObeyedInOrder
  <2>2. ASSUME NEW d \in Clients
        PROVE  /\ Latest(d)' <= Len(given[d])
               /\ \A i \in 1..Len(wire[d]) : OnItsWay(wire[d][i], given[d], Latest(d)')
    <3>1. CASE d = c
      <4>1. slot.number <= Len(given[d]) /\ \A i \in 1..Len(wire[d]) : slot.number < wire[d][i].number
        BY <1>4, <2>1, <3>1 DEF OrderInv, SlotInv, OnItsWay
      <4>2. \A i \in 1..Len(wire[d]) : OnItsWay(wire[d][i], given[d], Latest(d))
        BY DEF OrderInv, WireInv
      <4>3. \A i \in 1..Len(wire[d]) : wire[d][i].number \in Nat
        BY <4>2 DEF OnItsWay
      <4>4. slot.number \in Nat
        BY <2>1 DEF OnItsWay
      <4> QED
        BY <2>1, <3>1, <4>1, <4>2, <4>3, <4>4 DEF OnItsWay
    <3>2. CASE d # c
      <4>1. Latest(d)' = Latest(d)
        BY <2>1, <3>2 DEF Latest, Console!Latest
      <4> QED
        BY <4>1 DEF OrderInv, WireInv
    <3> QED
      BY <3>1, <3>2
  <2>3. WireInv'
    BY <1>1, <2>2 DEF OrderInv, WireInv
  <2> QED
    BY <1>1, <1>2, <2>3 DEF OrderInv
<1> QED
  BY <1>3, <1>4

LEMMA NextOrder == TypeOK /\ OrderInv /\ [Next]_vars => OrderInv'
<1> SUFFICES ASSUME TypeOK, OrderInv, [Next]_vars PROVE OrderInv'
  OBVIOUS
<1>1. CASE UNCHANGED vars
  <2>1. \A c \in Clients : Latest(c)' = Latest(c)
    BY <1>1 DEF vars, Latest, Console!Latest
  <2> QED
    BY <1>1, <2>1 DEF vars, OrderInv, WireInv, SlotInv
<1> QED
  BY <1>1, PollOrder, ObeyOrder, GiveOrder DEF Next

-----------------------------------------------------------------------------
(* The console of each page.                                               *)

LEMMA ConsoleStep ==
  ASSUME TypeOK, OrderInv, [Next]_vars, NEW c \in Clients
  PROVE  [Console(c)!Next]_(Console(c)!vars)
<1> USE DEF Console!vars, Console!Next
<1>1. CASE UNCHANGED <<given, obeyed>>
  BY <1>1
<1>2. ASSUME NEW d \in Clients, Give(d) PROVE [Console(c)!Next]_(Console(c)!vars)
  <2>1. PICK t \in Texts : given' = [given EXCEPT ![d] = Append(@, t)]
    BY <1>2 DEF Give
  <2>2. obeyed' = obeyed
    BY <1>2 DEF Give
  <2>3. CASE d = c
    <3>1. given'[c] = Append(given[c], t)
      BY <2>1, <2>3 DEF TypeOK
    <3> QED
      BY <2>2, <3>1 DEF Console!Give
  <2>4. CASE d # c
    BY <2>1, <2>2, <2>4 DEF TypeOK
  <2> QED
    BY <2>3, <2>4
<1>3. CASE Obey /\ slot # Nothing
  <2>1. PICK d \in Clients :
          /\ slot.from = d /\ OnItsWay(slot, given[d], Latest(d))
          /\ obeyed'[d] = Append(obeyed[d], [number |-> slot.number, text |-> slot.text])
          /\ \A e \in Clients \ {d} : obeyed'[e] = obeyed[e]
    BY <1>3, ObeyedInOrder
  <2>2. given' = given
    BY <1>3, ObeyStep
  <2>3. CASE d = c
    <3>1. slot.number \in 1..Len(given[c]) /\ slot.number > Console(c)!Latest
          /\ slot.text = given[c][slot.number]
      BY <2>1, <2>3 DEF OnItsWay, Latest
    <3>2. obeyed'[c] = Append(obeyed[c], [number |-> slot.number, text |-> given[c][slot.number]])
      BY <2>1, <2>3, <3>1
    <3>3. Console(c)!Obey
      BY <2>2, <3>1, <3>2 DEF Console!Obey
    <3> QED
      BY <3>3
  <2>4. CASE d # c
    BY <2>1, <2>2, <2>4
  <2> QED
    BY <2>3, <2>4
<1>4. CASE Obey /\ slot = Nothing
  BY <1>1, <1>4, ObeyStep
<1>5. CASE Poll
  BY <1>1, <1>5 DEF Poll
<1>6. CASE UNCHANGED vars
  BY <1>1, <1>6 DEF vars
<1> QED
  BY <1>2, <1>3, <1>4, <1>5, <1>6 DEF Next

\* What a page sees of the station is what one operator was promised: each of its
\* commands is obeyed at most once, as it was given and in the order given, whatever
\* other pages send, however many frames arrive between two polls and whatever the
\* buffer held before (ev_handler, poll_www, recv_www, parse_www_command).
THEOREM ImplementsConsole == Spec => EachInOrder
<1>1. Init => TypeOK /\ OrderInv /\ \A c \in Clients : Console(c)!Init
  BY InitType, InitOrder DEF Init, Console!Init
<1>2. TypeOK /\ OrderInv /\ [Next]_vars => TypeOK' /\ OrderInv'
  BY NextType, NextOrder
<1>3. TypeOK /\ OrderInv /\ [Next]_vars =>
        [\A c \in Clients : [Console(c)!Next]_(Console(c)!vars)]_vars
  BY ConsoleStep
<1> QED
  BY <1>1, <1>2, <1>3, PTL DEF Spec, EachInOrder

=============================================================================
