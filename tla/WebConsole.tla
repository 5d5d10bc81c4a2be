----------------------------- MODULE WebConsole -----------------------------
(***************************************************************************)
(* How commands of the web page reach the pilot station: websocket frames, *)
(* the one slot of webui.c, the buffer _www_stream and parse_www_command.  *)
(* The telemetry thread polls the web server and takes the slot in turn.   *)
(* A text is a keyword followed by digits; NUL ends what is read of it.    *)
(***************************************************************************)
EXTENDS Integers, Sequences

CONSTANTS
  Clients,      \* pages that are open
  Texts,        \* commands they send
  MaxGiven,     \* commands a page sends
  MaxChannel,   \* 13
  StartChannel  \* DEFAULT_INITIAL_CHANNEL

Keywords == {"wifiMode=", "targetChannel="}
Digit == [d \in {"0", "1", "2", "3", "4", "5", "6", "7", "8", "9"} |->
            CASE d = "0" -> 0 [] d = "1" -> 1 [] d = "2" -> 2 [] d = "3" -> 3 [] d = "4" -> 4
              [] d = "5" -> 5 [] d = "6" -> 6 [] d = "7" -> 7 [] d = "8" -> 8 [] d = "9" -> 9]
NUL == "NUL"
Longest == 3
Room == 1..(Longest + 1)

ASSUME TextAssumption ==
  \A t \in Texts : /\ t \in Seq(Keywords \cup DOMAIN Digit)
                   /\ Len(t) \in 1..Longest /\ t[1] \in Keywords
ASSUME NumberAssumption == {MaxGiven, MaxChannel} \subseteq Nat /\ StartChannel \in 1..MaxChannel

VARIABLES
  given,     \* per page, the commands sent so far; history
  wire,      \* per page, frames its connection has not delivered
  slot,      \* websocket_msg: the frame and its size
  stream,    \* _www_stream
  mode,      \* _requested_wifi
  targeted,  \* _targeted_channel
  pc,
  obeyed     \* per page, the commands obeyed; history

vars == <<given, wire, slot, stream, mode, targeted, pc, obeyed>>

Nothing == [text |-> <<>>]   \* websocket_msg.size is 0

Init ==
  /\ given = [c \in Clients |-> <<>>] /\ wire = [c \in Clients |-> <<>>]
  /\ slot = Nothing
  /\ stream = [i \in Room |-> NUL]
  /\ mode = 2 /\ targeted = StartChannel
  /\ pc = "poll"
  /\ obeyed = [c \in Clients |-> <<>>]

-----------------------------------------------------------------------------
\* A page sends a command.
Give(c) ==
  /\ Len(given[c]) < MaxGiven
  /\ \E t \in Texts :
       /\ given' = [given EXCEPT ![c] = Append(@, t)]
       /\ wire' = [wire EXCEPT ![c] =
                     Append(@, [from |-> c, number |-> Len(given[c]) + 1, text |-> t])]
  /\ UNCHANGED <<slot, stream, mode, targeted, pc, obeyed>>

Stored_First(c, n) == wire[c][1]
Stored(c, n) == wire[c][n]

\* poll_www(): ev_handler stores every frame that has arrived in the one slot.
Poll ==
  /\ pc = "poll"
  /\ \E n \in [Clients -> 0..MaxGiven] :
       /\ \A c \in Clients : n[c] <= Len(wire[c])
       /\ wire' = [c \in Clients |-> SubSeq(wire[c], n[c] + 1, Len(wire[c]))]
       /\ IF \A c \in Clients : n[c] = 0 THEN slot' = slot
          ELSE \E c \in Clients : n[c] > 0 /\ slot' = Stored(c, n[c])
  /\ pc' = "obey"
  /\ UNCHANGED <<given, stream, mode, targeted, obeyed>>

\* recv_www() copies the frame over what the buffer held; the loop terminates it.
Received_Unended(t) == [i \in Room |-> IF i \in DOMAIN t THEN t[i] ELSE stream[i]]
Received(t) == [i \in Room |-> IF i \in DOMAIN t THEN t[i]
                               ELSE IF i = Len(t) + 1 THEN NUL ELSE stream[i]]

\* websocket_msg.size=0
Emptied == Nothing

\* What is read of a buffer.
Reading(s) ==
  LET end == CHOOSE i \in Room : s[i] = NUL /\ \A j \in 1..(i - 1) : s[j] # NUL
  IN  [i \in 1..(end - 1) |-> s[i]]

\* atoi() of what follows the keyword.
Number(t) == IF Len(t) = 1 THEN 0
             ELSE IF Len(t) = 2 THEN Digit[t[2]] ELSE 10 * Digit[t[2]] + Digit[t[3]]

\* parse_www_command().
Switch_BelowTwo(t) == t[1] = "wifiMode=" /\ Number(t) = 1
Switch(t) == t[1] = "wifiMode=" /\ Number(t) \in {1, 2}
Mode(t) == IF Switch(t) THEN Number(t) ELSE mode
Target(t) ==
  IF Switch(t) /\ Number(t) = 2 THEN StartChannel
  ELSE IF t[1] = "targetChannel=" /\ mode = 1 /\ Number(t) \in 1..MaxChannel THEN Number(t)
  ELSE targeted

\* recv_www() and parse_www_command().
Obey ==
  /\ pc = "obey"
  /\ slot' = Emptied
  /\ LET s == Received(slot.text)
         t == Reading(s)
     IN  /\ stream' = [s EXCEPT ![1] = NUL]
         /\ IF s[1] = NUL THEN UNCHANGED <<mode, targeted, obeyed>>
            ELSE /\ mode' = Mode(t) /\ targeted' = Target(t)
                 /\ obeyed' = [obeyed EXCEPT ![slot.from] =
                                 Append(@, [number |-> slot.number, text |-> t])]
  /\ pc' = "poll"
  /\ UNCHANGED <<given, wire>>

Next == Poll \/ Obey \/ \E c \in Clients : Give(c)

Spec == Init /\ [][Next]_vars

\* The thread keeps running and the connections deliver.
Delivery == Poll /\ wire' # wire
FairSpec == Spec /\ WF_vars(Poll \/ Obey) /\ SF_vars(Delivery)

-----------------------------------------------------------------------------
\* No page's command is obeyed twice, out of order or as another one, although
\* the slot and the buffer keep what they held (recv_www, parse_www_command).
Console(c) == INSTANCE LatestCommand WITH given <- given[c], obeyed <- obeyed[c]
EachInOrder ==
  /\ \A c \in Clients : Console(c)!Init
  /\ [][\A c \in Clients : [Console(c)!Next]_(Console(c)!vars)]_vars

\* Once the pages have fallen silent the last command of at least one of them has
\* been obeyed, however many arrived at once: the slot keeps the latest frame of
\* a connection (ev_handler, recv_www).
Latest(c) == Console(c)!Latest
LastObeyed ==
  <>[](\E c \in Clients : given[c] # <<>>) =>
    <>[](\E c \in Clients : given[c] # <<>> /\ Latest(c) = Len(given[c]))

\* A mode that every page asks for last is in force in the end: no target and no
\* older command still in the slot or the buffer undoes it.
LastMode ==
  \A m \in {1, 2} :
    LET t == <<"wifiMode=", IF m = 1 THEN "1" ELSE "2">>
        EndsIn(g) == g # <<>> /\ g[Len(g)] = t
    IN  <>[](/\ \E c \in Clients : given[c] # <<>>
             /\ \A c \in Clients : given[c] = <<>> \/ EndsIn(given[c])) => <>[](mode = m)

-----------------------------------------------------------------------------
(* Why commands keep their order: what is still on its way to the station  *)
(* is numbered above what it obeyed, first in the slot and then on the     *)
(* wire.                                                                   *)

Signs == Keywords \cup DOMAIN Digit
Frames == [from: Clients, number: Nat, text: Texts]

TypeOK ==
  /\ given \in [Clients -> Seq(Texts)]
  /\ wire \in [Clients -> Seq(Frames)]
  /\ slot \in Frames \cup {Nothing}
  /\ stream \in [Room -> Signs \cup {NUL}]
  /\ obeyed \in [Clients -> Seq([number: Nat, text: Texts])]

\* A frame on its way from a page that gave g and of whose commands l was obeyed
\* last holds what the page gave under that number.
OnItsWay(f, g, l) == f.number \in 1..Len(g) /\ f.number > l /\ f.text = g[f.number]

WireInv ==
  \A c \in Clients :
    /\ Latest(c) <= Len(given[c])
    /\ \A i \in 1..Len(wire[c]) :
         wire[c][i].from = c /\ OnItsWay(wire[c][i], given[c], Latest(c))
    /\ \A i, j \in 1..Len(wire[c]) : i < j => wire[c][i].number < wire[c][j].number

SlotInv ==
  \A c \in Clients : slot # Nothing /\ slot.from = c =>
    /\ OnItsWay(slot, given[c], Latest(c))
    /\ \A i \in 1..Len(wire[c]) : slot.number < wire[c][i].number

OrderInv == WireInv /\ SlotInv /\ stream[1] = NUL

=============================================================================
