---------------------------- MODULE PortsProofs ----------------------------
(***************************************************************************)
(* What is plugged in.  Ps2: whatever the size of the screen, the pictures *)
(* and the number of events, callers get keys in order and with their      *)
(* shift, the cursor follows the mouse, and the screen keeps its picture.  *)
(* The USB drivers, for any number of ports, kinds of devices and places   *)
(* in the event ring: an installed device has its address for itself, data *)
(* of EHCI come in time, and what XHCI takes for an answer is one.         *)
(***************************************************************************)
EXTENDS Ps2, MC_Usb, FiniteSetTheorems, SequenceTheorems, TLAPS

(* Shift is held after the first n codes.                                  *)
ShiftHeld(seq, n) ==
  \E s \in 1 .. n : seq[s] = "shift" /\ \A t \in s + 1 .. n : seq[t] \in {"shift", "release"}

(* k is a key the handler has read, with the shift it was pressed with.    *)
Pressed(seq, n, k) ==
  /\ k \in Keys /\ k.code \in 1 .. n
  /\ seq[k.code] = "key"
  /\ k.shifted <=> ShiftHeld(seq, k.code - 1)

(* k is younger than every key of s.                                       *)
Younger(k, s) == \A i \in DOMAIN s : s[i].code < k.code

CodesTyped ==
  /\ codes \in Seq(Codes) /\ handled \in 0 .. Len(codes) /\ keyword_shift \in BOOLEAN
  /\ history.events \in Int /\ Len(codes) <= history.events /\ history.events <= MaxEvents

(* What the mailbox, the main flow and its callers hold.                   *)
KeysHeld ==
  /\ keyword_shift <=> ShiftHeld(codes, handled)
  /\ keyword = NoKey \/ (Pressed(codes, handled, keyword) /\ Younger(keyword, read))
  /\ al = NoKey \/ (Pressed(codes, handled, al) /\ Younger(al, read))
  /\ pc = "take" => al # NoKey
  /\ read \in Seq(Keys)
  /\ \A i \in DOMAIN read : Pressed(codes, handled, read[i])
  /\ \A i, j \in DOMAIN read : i < j => read[i].code < read[j].code

PcTyped == pc \in {"idle", "poll", "take", "look", "save", "draw", "status", "clear", "picture"}

MouseTyped ==
  /\ wire \in Seq(Bytes) /\ mouse_cycle \in 0 .. 2
  /\ mouse_byte \in [0 .. 2 -> Bytes \union {0}] /\ mousetype \in 0 .. 2
  /\ x \in MinX .. MaxX /\ y \in MinY .. MaxY /\ clck \in 0 .. 3

HistoryTyped ==
  history \in [events : Int, shifted : BOOLEAN, plain : BOOLEAN, misled : BOOLEAN, target : Int \X Int,
              picture : [Pixels -> Nat], spoilt : BOOLEAN]

ScreenTyped ==
  /\ screen = [p \in Pixels |-> screen[p]] /\ <<oldx, oldy>> \in Pixels /\ resample \in BOOLEAN

(* Where the cursor is after a move from p.                                *)
After(p, dx, dy) == <<Between(p[1] + dx, MinX, MaxX), Between(p[2] + dy, MinY, MaxY)>>

(* The type is known when a packet with flags f was read, if it is (known) *)
(* before; where the packet leads to from p; it is not taken for one of    *)
(* the other type.                                                         *)
Tells(known, f) == known \/ f = 8
LeadsTo(known, p, f, dx, dy) == IF Tells(known, f) THEN After(p, dx, dy) ELSE p
Harmless(known, f, dx) == Tells(known, f) \/ dx # 8

(* What is on the wire, and in mouse_byte, leads from the cursor to where  *)
(* the mouse is.                                                           *)
Led ==
  \/ /\ mouse_cycle = 0 /\ wire = <<>>
     /\ history.plain <=> mousetype = 1
     /\ history.target = <<x, y>>
  \/ \E f \in Bytes, dx, dy \in Moves :
       /\ mouse_cycle = 0 /\ wire = <<f, dx, dy>>
       /\ Harmless(mousetype = 1, f, dx)
       /\ history.plain <=> Tells(mousetype = 1, f)
       /\ history.target = LeadsTo(mousetype = 1, <<x, y>>, f, dx, dy)
  \/ \E dx, dy \in Moves :
       /\ mouse_cycle = 1 /\ wire = <<dx, dy>>
       /\ Harmless(mousetype = 1, mouse_byte[0], dx)
       /\ history.plain <=> Tells(mousetype = 1, mouse_byte[0])
       /\ history.target = LeadsTo(mousetype = 1, <<x, y>>, mouse_byte[0], dx, dy)
  \/ \E dy \in Moves :
       /\ mouse_cycle = 2 /\ wire = <<dy>> /\ mouse_byte[1] \in Moves
       /\ Harmless(mousetype = 1, mouse_byte[0], mouse_byte[1])
       /\ history.plain <=> Tells(mousetype = 1, mouse_byte[0])
       /\ history.target = LeadsTo(mousetype = 1, <<x, y>>, mouse_byte[0], mouse_byte[1], dy)
  \/ \E dy \in Moves, f \in Bytes, ddx, ddy \in Moves :
       /\ mouse_cycle = 2 /\ wire = <<dy, f, ddx, ddy>> /\ mouse_byte[1] \in Moves
       /\ Harmless(mousetype = 1, mouse_byte[0], mouse_byte[1])
       /\ Harmless(Tells(mousetype = 1, mouse_byte[0]), f, ddx)
       /\ history.plain <=> Tells(Tells(mousetype = 1, mouse_byte[0]), f)
       /\ history.target = LeadsTo(Tells(mousetype = 1, mouse_byte[0]),
                             LeadsTo(mousetype = 1, <<x, y>>, mouse_byte[0], mouse_byte[1], dy), f, ddx, ddy)

Follows == history.shifted \/ history.misled \/ (mousetype \in {0, 1} /\ Led)

(* The picture p is on the screen, and the cursor where it was drawn last. *)
CursorOn(p) ==
  IF resample THEN screen = p ELSE screen = [p EXCEPT ![<<oldx, oldy>>] = Cursor] /\ under = p[<<oldx, oldy>>]

Kept ==
  history.spoilt \/
    /\ pc \in {"idle", "poll", "take", "look", "status", "clear"} => CursorOn(history.picture)
    /\ pc \in {"save", "draw"} => screen = history.picture /\ ~resample
    /\ pc = "draw" => under = history.picture[<<x, y>>]
    /\ pc = "picture" => screen = history.picture

Sound ==
  /\ PcTyped /\ HistoryTyped /\ CodesTyped /\ KeysHeld
  /\ MouseTyped /\ Follows /\ ScreenTyped /\ Kept

-----------------------------------------------------------------------------
(* Facts about keys.                                                       *)

(* More codes change nothing of those that came before.                    *)
LEMMA HeldStays ==
  ASSUME NEW seq \in Seq(Codes), NEW c \in Codes, NEW n \in 0 .. Len(seq)
  PROVE  ShiftHeld(Append(seq, c), n) <=> ShiftHeld(seq, n)
<1>1. \A t \in 1 .. n : Append(seq, c)[t] = seq[t]
  OBVIOUS
<1>2. \A s \in 1 .. n : \A t \in s + 1 .. n : t \in 1 .. n
  OBVIOUS
<1> QED BY <1>1, <1>2 DEF ShiftHeld

LEMMA PressedStays ==
  ASSUME NEW seq \in Seq(Codes), NEW c \in Codes, NEW n \in 0 .. Len(seq), NEW k, Pressed(seq, n, k)
  PROVE  Pressed(Append(seq, c), n, k)
<1>1. k.code \in 1 .. n /\ k.code - 1 \in 0 .. Len(seq)
  BY DEF Pressed
<1>2. Append(seq, c)[k.code] = seq[k.code]
  BY <1>1
<1>3. ShiftHeld(Append(seq, c), k.code - 1) <=> ShiftHeld(seq, k.code - 1)
  BY <1>1, HeldStays
<1> QED BY <1>1, <1>2, <1>3 DEF Pressed

(* Shift after one more code.                                              *)
LEMMA HeldNext ==
  ASSUME NEW seq \in Seq(Codes), NEW n \in Nat, n < Len(seq)
  PROVE  /\ seq[n + 1] = "shift" => ShiftHeld(seq, n + 1)
         /\ seq[n + 1] = "release" => (ShiftHeld(seq, n + 1) <=> ShiftHeld(seq, n))
         /\ seq[n + 1] \in {"key", "unmapped"} => ~ShiftHeld(seq, n + 1)
<1>1. ASSUME seq[n + 1] = "shift"  PROVE ShiftHeld(seq, n + 1)
  BY <1>1 DEF ShiftHeld
<1>2. ASSUME seq[n + 1] = "release"  PROVE ShiftHeld(seq, n + 1) <=> ShiftHeld(seq, n)
  <2>1. ASSUME ShiftHeld(seq, n)  PROVE ShiftHeld(seq, n + 1)
    BY <1>2, <2>1 DEF ShiftHeld
  <2>2. ASSUME ShiftHeld(seq, n + 1)  PROVE ShiftHeld(seq, n)
    <3>1. PICK s \in 1 .. n + 1 : seq[s] = "shift" /\ \A t \in s + 1 .. n + 1 : seq[t] \in {"shift", "release"}
      BY <2>2 DEF ShiftHeld
    <3>2. s # n + 1
      BY <1>2, <3>1
    <3> QED BY <3>1, <3>2 DEF ShiftHeld
  <2> QED BY <2>1, <2>2
<1>3. ASSUME seq[n + 1] \in {"key", "unmapped"}, ShiftHeld(seq, n + 1)  PROVE FALSE
  <2>1. PICK s \in 1 .. n + 1 : seq[s] = "shift" /\ \A t \in s + 1 .. n + 1 : seq[t] \in {"shift", "release"}
    BY <1>3 DEF ShiftHeld
  <2>2. s # n + 1
    BY <1>3, <2>1
  <2> QED BY <1>3, <2>1, <2>2
<1> QED BY <1>1, <1>2, <1>3

LEMMA PressedLater ==
  ASSUME NEW seq, NEW n \in Nat, NEW k, Pressed(seq, n, k)
  PROVE  Pressed(seq, n + 1, k)
<1>1. k.code \in 1 .. n + 1
  BY DEF Pressed
<1> QED BY <1>1 DEF Pressed

(* The keys are as they were when nothing of theirs was touched.           *)
LEMMA KeysUntouched ==
  ASSUME KeysHeld, UNCHANGED <<codes, handled, keyword, keyword_shift, al, read>>, pc' # "take"
  PROVE  KeysHeld'
BY DEF KeysHeld

(* A call that returns al, or nothing, and clears the mailbox.             *)
LEMMA KeyGiven ==
  ASSUME KeysHeld, CodesTyped, UNCHANGED <<codes, handled, keyword_shift>>,
         keyword' = NoKey, al' = NoKey, pc' # "take",
         read' = IF al = NoKey THEN read ELSE Append(read, al)
  PROVE  KeysHeld'
<1>1. CASE al = NoKey
  BY <1>1 DEF KeysHeld
<1>2. CASE al # NoKey
  <2>1. /\ read' = Append(read, al) /\ read \in Seq(Keys) /\ al \in Keys
        /\ Pressed(codes, handled, al) /\ Younger(al, read)
    BY <1>2 DEF KeysHeld, Pressed
  <2>2. read' \in Seq(Keys) /\ DOMAIN read' = 1 .. Len(read) + 1 /\ DOMAIN read = 1 .. Len(read)
    BY <2>1
  <2>3. read'[Len(read) + 1] = al /\ \A i \in DOMAIN read : read'[i] = read[i]
    BY <2>1
  <2>4. \A i \in DOMAIN read' : i \in DOMAIN read \/ i = Len(read) + 1
    BY <2>2
  <2>5. (\A i \in DOMAIN read' : Pressed(codes, handled, read'[i]))
    BY <2>1, <2>3, <2>4 DEF KeysHeld
  <2>6. ASSUME NEW i \in DOMAIN read', NEW j \in DOMAIN read', i < j
        PROVE  read'[i].code < read'[j].code
    <3>1. i \in DOMAIN read
      BY <2>2, <2>6
    <3>2. CASE j = Len(read) + 1
      BY <2>1, <2>3, <3>1, <3>2 DEF Younger
    <3>3. CASE j \in DOMAIN read
      BY <2>3, <2>6, <3>1, <3>3 DEF KeysHeld
    <3> QED BY <2>4, <3>2, <3>3
  <2> QED BY <2>2, <2>5, <2>6 DEF KeysHeld
<1> QED BY <1>1, <1>2

(* A code comes in.                                                        *)
LEMMA KeysSends ==
  ASSUME Sound, NEW c \in Codes, Sends(c)
  PROVE  KeysHeld' /\ CodesTyped'
<1> USE DEF Sound
<1>1. codes \in Seq(Codes) /\ handled \in 0 .. Len(codes) /\ codes' = Append(codes, c)
  BY DEF Sends, CodesTyped
<1>2. UNCHANGED <<handled, keyword, keyword_shift, al, read, pc>>
  BY DEF Sends, flow
<1>3. CodesTyped'
  <2>1. codes' \in Seq(Codes) /\ Len(codes') = Len(codes) + 1
    BY <1>1
  <2>2. history'.events = history.events + 1 /\ history.events < MaxEvents
    BY DEF Sends, Another, HistoryTyped
  <2> QED BY <1>1, <1>2, <2>1, <2>2, ConstantsAssumption DEF CodesTyped
<1>4. ShiftHeld(codes', handled) <=> ShiftHeld(codes, handled)
  BY <1>1, HeldStays
<1>5. \A k : Pressed(codes, handled, k) => Pressed(codes', handled, k)
  BY <1>1, PressedStays
<1>6. KeysHeld'
  BY <1>2, <1>4, <1>5 DEF KeysHeld
<1> QED BY <1>3, <1>6

(* The handler reads one.                                                  *)
LEMMA KeysHandled ==
  ASSUME Sound, irq_keyboard
  PROVE  KeysHeld' /\ CodesTyped'
<1> USE DEF Sound
<1> DEFINE n == handled + 1
           c == codes[n]
<1>1. /\ codes \in Seq(Codes) /\ handled \in Nat /\ handled < Len(codes) /\ n \in 1 .. Len(codes) /\ handled' = n
      /\ Len(codes) \in Nat /\ Len(codes) <= MaxEvents
  BY ConstantsAssumption DEF irq_keyboard, CodesTyped
<1>2. c \in Codes
  BY <1>1
<1>3. UNCHANGED <<codes, al, read, pc, history>>
  BY DEF irq_keyboard, flow
<1>4. keyword' = KeyAfter(c).word /\ keyword_shift' = KeyAfter(c).shift
  BY DEF irq_keyboard
<1>5. keyword_shift \in BOOLEAN /\ (keyword_shift <=> ShiftHeld(codes, handled))
  BY DEF CodesTyped, KeysHeld
<1>6. /\ c = "shift" => ShiftHeld(codes, n)
      /\ c = "release" => (ShiftHeld(codes, n) <=> ShiftHeld(codes, handled))
      /\ c \in {"key", "unmapped"} => ~ShiftHeld(codes, n)
  BY <1>1, HeldNext
<1>7. \A k : Pressed(codes, handled, k) => Pressed(codes, n, k)
  BY <1>1, PressedLater
<1>8. keyword_shift' \in BOOLEAN /\ (keyword_shift' <=> ShiftHeld(codes, n))
  <2>1. CASE c = "release"
    BY <1>4, <1>5, <1>6, <2>1 DEF KeyAfter
  <2>2. CASE c = "shift"
    BY <1>4, <1>6, <2>2 DEF KeyAfter
  <2>3. CASE c = "unmapped"
    BY <1>4, <1>6, <2>3 DEF KeyAfter
  <2>4. CASE c = "key"
    BY <1>4, <1>6, <2>4 DEF KeyAfter
  <2> QED BY <1>2, <2>1, <2>2, <2>3, <2>4 DEF Codes
<1>9. keyword' = NoKey \/ (Pressed(codes, n, keyword') /\ Younger(keyword', read))
  <2>1. CASE c \in {"release", "shift"}
    <3>1. keyword' = keyword
      BY <1>4, <2>1 DEF KeyAfter
    <3> QED BY <1>7, <3>1 DEF KeysHeld
  <2>2. CASE c = "unmapped"
    BY <1>4, <2>2 DEF KeyAfter
  <2>3. CASE c = "key"
    <3>1. keyword' = [code |-> n, shifted |-> keyword_shift]
      BY <1>4, <2>3 DEF KeyAfter
    <3>a. n \in 1 .. MaxEvents /\ n - 1 = handled
      BY <1>1, ConstantsAssumption
    <3>b. keyword_shift \in BOOLEAN
      BY <1>5
    <3>2. keyword' \in Keys /\ keyword'.code = n /\ keyword'.code - 1 = handled
      <4>1. keyword' \in Keys
        BY <3>1, <3>a, <3>b, Zenon DEF Keys
      <4>2. keyword'.code = n
        BY <3>1, Zenon
      <4> QED BY <3>a, <4>1, <4>2
    <3>3. keyword'.shifted <=> ShiftHeld(codes, keyword'.code - 1)
      BY <1>5, <3>1, <3>2
    <3>4. Pressed(codes, n, keyword')
      BY <1>1, <2>3, <3>2, <3>3 DEF Pressed
    <3>5. \A i \in DOMAIN read : read[i].code \in 1 .. handled
      BY DEF KeysHeld, Pressed
    <3>6. Younger(keyword', read)
      BY <1>1, <3>2, <3>5 DEF Younger
    <3> QED BY <3>4, <3>6
  <2> QED BY <1>2, <2>1, <2>2, <2>3 DEF Codes
<1> HIDE DEF n, c
<1>10. al = NoKey \/ (Pressed(codes, n, al) /\ Younger(al, read))
  BY <1>7 DEF KeysHeld
<1>11. KeysHeld'
  BY <1>1, <1>3, <1>7, <1>8, <1>9, <1>10 DEF KeysHeld
<1>12. CodesTyped'
  BY <1>1, <1>3, <1>8 DEF CodesTyped
<1> QED BY <1>11, <1>12

(* A step of the main flow.                                                *)
LEMMA KeysFlow ==
  ASSUME Sound,
         \/ keywait \/ Poll \/ Take \/ Look \/ LookEnds \/ getInputStatus
         \/ (\E picture \in Pictures : Paints(picture)) \/ force_mouse_resample
  PROVE  KeysHeld' /\ CodesTyped'
<1> USE DEF Sound
<1>1. CASE keywait
  <2>1. KeysHeld'
    BY <1>1 DEF keywait, KeysHeld
  <2> QED BY <1>1, <2>1 DEF keywait, CodesTyped
<1>2. CASE Poll
  <2>1. KeysHeld'
    BY <1>2 DEF Poll, KeysHeld, keys
  <2> QED BY <1>2, <2>1 DEF Poll, CodesTyped, keys
<1>3. CASE Take
  <2>1. al # NoKey
    BY <1>3 DEF Take, KeysHeld
  <2>2. KeysHeld'
    BY <1>3, <2>1, KeyGiven DEF Take
  <2> QED BY <1>3, <2>2 DEF Take, CodesTyped
<1>4. CASE Look
  <2>1. KeysHeld'
    BY <1>4 DEF Look, KeysHeld, keys
  <2> QED BY <1>4, <2>1 DEF Look, CodesTyped, keys
<1>5. CASE LookEnds
  <2>1. KeysHeld'
    BY <1>5, KeyGiven DEF LookEnds
  <2> QED BY <1>5, <2>1 DEF LookEnds, CodesTyped
<1>6. CASE DrawBegins \/ DrawSaves \/ DrawEnds
  <2>1. KeysHeld'
    BY <1>6, KeysUntouched DEF DrawBegins, DrawSaves, DrawEnds, keys
  <2>2. UNCHANGED <<codes, handled, keyword_shift>> /\ history'.events = history.events
    BY <1>6 DEF DrawBegins, DrawSaves, DrawEnds, keys, HistoryTyped
  <2> QED BY <2>1, <2>2 DEF CodesTyped
<1>7. CASE StatusReads
  <2>1. KeysHeld'
    BY <1>7 DEF StatusReads, KeysHeld, keys
  <2> QED BY <1>7, <2>1 DEF StatusReads, CodesTyped, keys
<1>8. CASE StatusClears
  <2>1. KeysHeld'
    BY <1>8, KeyGiven DEF StatusClears
  <2> QED BY <1>8, <2>1 DEF StatusClears, CodesTyped
<1>9. ASSUME NEW picture \in Pictures, Paints(picture)  PROVE KeysHeld' /\ CodesTyped'
  <2>1. KeysHeld'
    BY <1>9, KeysUntouched DEF Paints, keys
  <2>2. UNCHANGED <<codes, handled, keyword_shift>> /\ history'.events = history.events + 1
    BY <1>9 DEF Paints, keys, HistoryTyped
  <2>3. history.events < MaxEvents
    BY <1>9 DEF Paints, Another
  <2> QED BY <2>1, <2>2, <2>3, ConstantsAssumption DEF CodesTyped
<1>10. CASE force_mouse_resample
  <2>1. KeysHeld'
    BY <1>10, KeysUntouched DEF force_mouse_resample, keys
  <2> QED BY <1>10, <2>1 DEF force_mouse_resample, CodesTyped, keys
<1> QED BY <1>1, <1>2, <1>3, <1>4, <1>5, <1>6, <1>7, <1>8, <1>9, <1>10 DEF getInputStatus

(* The mouse touches no key.                                               *)
LEMMA KeysMouse ==
  ASSUME Sound, irq_mouse \/ \E button \in Buttons, dx, dy \in Moves : Packet(button, dx, dy)
  PROVE  KeysHeld' /\ CodesTyped'
<1> USE DEF Sound
<1>1. UNCHANGED <<codes, handled, keyword, keyword_shift, pc, al, read>>
  BY DEF irq_mouse, Packet, keys, flow
<1>2. history'.events = history.events \/ (history'.events = history.events + 1 /\ history.events < MaxEvents)
  BY DEF irq_mouse, Packet, Another, HistoryTyped
<1>3. KeysHeld'
  BY <1>1 DEF KeysHeld
<1> QED BY <1>1, <1>2, <1>3, ConstantsAssumption DEF CodesTyped

-----------------------------------------------------------------------------
(* Facts about the mouse.                                                  *)

(* Between gives a place on the screen.                                    *)
LEMMA BetweenTyped ==
  ASSUME NEW v \in Int, NEW low \in Int, NEW high \in Int, low <= high
  PROVE  Between(v, low, high) \in low .. high /\ (v \in low .. high => Between(v, low, high) = v)
BY DEF Between

LEMMA BytesAreNumbers == Moves \subseteq Int /\ Buttons \subseteq Int /\ Bytes \subseteq Int
<1>1. Moves \subseteq Int /\ Buttons \subseteq Int
  BY ConstantsAssumption
<1> QED BY <1>1 DEF Bytes

LEMMA FlagsAreBytes ==
  ASSUME NEW button \in Buttons, NEW dx \in Moves, NEW dy \in Moves
  PROVE  Flags(button, dx, dy) \in Bytes
<1>1. Signs(dx, dy) \in {0, 16, 32, 48}
  BY DEF Signs
<1>2. button \in 0 .. 7
  BY ConstantsAssumption
<1>3. Flags(button, dx, dy) = 8 + button + Signs(dx, dy)
  BY Zenon DEF Flags
<1>4. Flags(button, dx, dy) \in 8 .. 63
  BY <1>1, <1>2, <1>3
<1> QED BY <1>4 DEF Bytes

LEMMA AfterTyped ==
  ASSUME NEW p \in Int \X Int, NEW dx \in Moves, NEW dy \in Moves
  PROVE  After(p, dx, dy) \in Pixels
<1>1. p[1] + dx \in Int /\ p[2] + dy \in Int
  BY BytesAreNumbers
<1>2. MinX \in Int /\ MaxX \in Int /\ MinY \in Int /\ MaxY \in Int /\ MinX <= MaxX /\ MinY <= MaxY
  BY ConstantsAssumption
<1>3. Between(p[1] + dx, MinX, MaxX) \in MinX .. MaxX /\ Between(p[2] + dy, MinY, MaxY) \in MinY .. MaxY
  BY <1>1, <1>2, BetweenTyped
<1> QED BY <1>3 DEF After, Pixels

(* A packet comes on the wire behind what is there.                        *)
LEMMA MousePacket ==
  ASSUME Sound, NEW button \in Buttons, NEW dx \in Moves, NEW dy \in Moves, Packet(button, dx, dy)
  PROVE  MouseTyped' /\ Follows'
<1> USE DEF Sound
<1> DEFINE flags == Flags(button, dx, dy)
<1>0. flags \in Bytes
  BY FlagsAreBytes, Zenon
<1>1. /\ UNCHANGED <<mouse_cycle, mouse_byte, mousetype, x, y, clck>>
      /\ wire' = wire \o <<flags, dx, dy>> /\ Len(wire) <= 1
  BY DEF Packet
<1>a. /\ history' = [history EXCEPT !.events = @ + 1, !.plain = history.plain \/ flags = 8,
                       !.misled = @ \/ (~(history.plain \/ flags = 8) /\ dx = 8),
                       !.target = IF history.plain \/ flags = 8
                                  THEN <<Between(@[1] + dx, MinX, MaxX), Between(@[2] + dy, MinY, MaxY)>>
                                  ELSE @]
  BY DEF Packet
<1> HIDE DEF flags
<1>b. /\ history'.shifted = history.shifted
      /\ ~history'.misled => ~history.misled /\ Harmless(history.plain, flags, dx)
      /\ history'.plain <=> Tells(history.plain, flags)
      /\ history'.target = LeadsTo(history.plain, history.target, flags, dx, dy)
  BY <1>a DEF HistoryTyped, After, Harmless, Tells, LeadsTo
<1>2. wire \in Seq(Bytes) /\ dx \in Bytes /\ dy \in Bytes
  BY DEF MouseTyped, Bytes
<1>3. wire' \in Seq(Bytes)
  <2>1. <<flags, dx, dy>> \in Seq(Bytes)
    BY <1>0, <1>2
  <2> QED BY <1>1, <1>2, <2>1
<1>4. MouseTyped'
  BY <1>1, <1>3 DEF MouseTyped
<1>5. ASSUME ~history'.shifted, ~history'.misled  PROVE mousetype' \in {0, 1} /\ Led'
  <2>1. mousetype \in {0, 1} /\ Led
    BY <1>5, <1>b DEF Follows
  <2>2. Harmless(history.plain, flags, dx)
    BY <1>5, <1>b
  <2>3. CASE mouse_cycle = 0 /\ wire = <<>> /\ (history.plain <=> mousetype = 1) /\ history.target = <<x, y>>
    <3>1. wire' = <<flags, dx, dy>>
      BY <1>1, <2>3
    <3>2. /\ Harmless(mousetype = 1, flags, dx)
          /\ history'.plain <=> Tells(mousetype = 1, flags)
          /\ history'.target = LeadsTo(mousetype = 1, <<x, y>>, flags, dx, dy)
      BY <1>b, <2>2, <2>3 DEF Harmless, Tells, LeadsTo
    <3>3. /\ mouse_cycle' = 0 /\ wire' = <<flags, dx, dy>>
          /\ Harmless(mousetype' = 1, flags, dx)
          /\ history'.plain <=> Tells(mousetype' = 1, flags)
          /\ history'.target = LeadsTo(mousetype' = 1, <<x', y'>>, flags, dx, dy)
      BY <1>1, <2>3, <3>1, <3>2
    <3>4. Led'
      BY <1>0, <3>3, Zenon DEF Led
    <3> QED BY <1>1, <2>1, <3>4
  <2>4. ASSUME NEW m \in Moves, mouse_cycle = 2, wire = <<m>>, mouse_byte[1] \in Moves,
               Harmless(mousetype = 1, mouse_byte[0], mouse_byte[1]),
               history.plain <=> Tells(mousetype = 1, mouse_byte[0]),
               history.target = LeadsTo(mousetype = 1, <<x, y>>, mouse_byte[0], mouse_byte[1], m)
        PROVE  Led'
    <3>1. wire' = <<m, flags, dx, dy>>
      <4>1. wire' = <<m>> \o <<flags, dx, dy>>
        BY <1>1, <2>4
      <4>. DEFINE packet == <<flags, dx, dy>>
      <4>2. <<m>> \in Seq(Bytes) /\ packet \in Seq(Bytes) /\ Len(<<m>>) = 1 /\ Len(packet) = 3
        BY <1>0, <1>2 DEF Bytes
      <4>3. wire' \in Seq(Bytes) /\ Len(wire') = 4
        BY <4>1, <4>2
      <4>4. wire'[1] = m /\ wire'[2] = flags /\ wire'[3] = dx /\ wire'[4] = dy
        BY <4>1, <4>2
      <4> QED BY <4>3, <4>4
    <3>2. /\ Harmless(Tells(mousetype = 1, mouse_byte[0]), flags, dx)
          /\ history'.plain <=> Tells(Tells(mousetype = 1, mouse_byte[0]), flags)
      BY <1>b, <2>2, <2>4 DEF Harmless, Tells
    <3>3. history'.target = LeadsTo(Tells(mousetype = 1, mouse_byte[0]),
                    LeadsTo(mousetype = 1, <<x, y>>, mouse_byte[0], mouse_byte[1], m), flags, dx, dy)
      <4>1. \A p : LeadsTo(history.plain, p, flags, dx, dy)
                     = LeadsTo(Tells(mousetype = 1, mouse_byte[0]), p, flags, dx, dy)
        BY <2>4, Zenon DEF LeadsTo, Tells
      <4> QED BY <1>b, <2>4, <4>1
    <3>4. /\ mouse_cycle' = 2 /\ wire' = <<m, flags, dx, dy>> /\ mouse_byte'[1] \in Moves
          /\ Harmless(mousetype' = 1, mouse_byte'[0], mouse_byte'[1])
          /\ Harmless(Tells(mousetype' = 1, mouse_byte'[0]), flags, dx)
          /\ history'.plain <=> Tells(Tells(mousetype' = 1, mouse_byte'[0]), flags)
          /\ history'.target = LeadsTo(Tells(mousetype' = 1, mouse_byte'[0]),
                LeadsTo(mousetype' = 1, <<x', y'>>, mouse_byte'[0], mouse_byte'[1], m), flags, dx, dy)
      BY <1>1, <2>4, <3>1, <3>2, <3>3
    <3> QED BY <1>0, <3>4, Zenon DEF Led
  <2>5. \/ mouse_cycle = 0 /\ wire = <<>> /\ (history.plain <=> mousetype = 1) /\ history.target = <<x, y>>
        \/ \E m \in Moves :
             /\ mouse_cycle = 2 /\ wire = <<m>> /\ mouse_byte[1] \in Moves
             /\ Harmless(mousetype = 1, mouse_byte[0], mouse_byte[1])
             /\ history.plain <=> Tells(mousetype = 1, mouse_byte[0])
             /\ history.target = LeadsTo(mousetype = 1, <<x, y>>, mouse_byte[0], mouse_byte[1], m)
    <3>1. \A f, m, n : wire # <<f, m, n>>
      <4>. SUFFICES ASSUME NEW f, NEW m, NEW n, wire = <<f, m, n>>
                   PROVE  FALSE
        OBVIOUS
      <4>1. Len(wire) = 3
        OBVIOUS
      <4>. QED  BY <4>1, <1>1
    <3>2. \A m, n : wire # <<m, n>>
      <4>. SUFFICES ASSUME NEW m, NEW n, wire = <<m, n>>
                   PROVE  FALSE
        OBVIOUS
      <4>1. Len(wire) = 2
        OBVIOUS
      <4>. QED  BY <4>1, <1>1
    <3>3. \A k, f, m, n : wire # <<k, f, m, n>>
      <4>. SUFFICES ASSUME NEW k, NEW f, NEW m, NEW n, wire = <<k, f, m, n>>
                   PROVE  FALSE
        OBVIOUS
      <4>1. Len(wire) = 4
        OBVIOUS
      <4>. QED  BY <4>1, <1>1
    <3> QED BY <2>1, <3>1, <3>2, <3>3, Zenon DEF Led
  <2> QED BY <1>1, <2>1, <2>3, <2>4, <2>5
<1> QED BY <1>4, <1>5 DEF Follows

(* The handler takes a byte from it.                                       *)
LEMMA MouseHandled ==
  ASSUME Sound, irq_mouse
  PROVE  MouseTyped' /\ Follows'
<1> USE DEF Sound
<1> DEFINE b == Head(wire)
           type == IF mouse_cycle = 2 THEN TypeFrom(mouse_byte') ELSE mousetype
           moved == mouse_cycle = 2 /\ type # 0
           nx == IF moved THEN x + mouse_byte'[2 - type] ELSE x
           ny == IF moved THEN y + mouse_byte'[2] ELSE y
<1>1. wire # <<>> /\ wire' = Tail(wire)
  BY DEF irq_mouse
<1>2. mouse_byte' = [mouse_byte EXCEPT ![mouse_cycle] = b]
  BY DEF irq_mouse
<1>3. mouse_cycle' = (mouse_cycle + 1) % 3
  BY DEF irq_mouse, NextCycle
<1>4. mousetype' = type /\ x' = Between(nx, MinX, MaxX) /\ y' = Between(ny, MinY, MaxY)
  BY DEF irq_mouse
<1>5. clck' \in {1, 2, 3, clck}
  <2>1. \A f : Clicked(f) \in {1, 2, 3, clck}
    BY Zenon DEF Clicked
  <2>2. clck' = IF moved THEN Clicked(mouse_byte'[type - 1]) ELSE clck
    BY DEF irq_mouse
  <2>. HIDE DEF moved, type
  <2> QED BY <2>1, <2>2
<1>6. UNCHANGED <<history.shifted, history.plain, history.misled, history.target>>
  BY DEF irq_mouse, HistoryTyped
<1>7. /\ wire \in Seq(Bytes) /\ mouse_cycle \in 0 .. 2 /\ mousetype \in 0 .. 2 /\ clck \in 0 .. 3
      /\ mouse_byte \in [0 .. 2 -> Bytes \union {0}]
      /\ x \in MinX .. MaxX /\ y \in MinY .. MaxY
  BY DEF MouseTyped
<1>8. /\ MinX \in Int /\ MaxX \in Int /\ MinY \in Int /\ MaxY \in Int /\ MinX <= MaxX /\ MinY <= MaxY
      /\ Moves \subseteq Int /\ Buttons \subseteq Int
  BY ConstantsAssumption
<1>9. b \in Bytes /\ wire' \in Seq(Bytes)
  BY <1>1, <1>7
<1>10. mouse_byte' \in [0 .. 2 -> Bytes \union {0}] /\ \A i \in 0 .. 2 : mouse_byte'[i] = IF i = mouse_cycle THEN b ELSE mouse_byte[i]
  BY <1>2, <1>7, <1>9
<1>11. mouse_cycle' = IF mouse_cycle = 2 THEN 0 ELSE mouse_cycle + 1
  BY <1>3, <1>7
<1>12. type \in 0 .. 2
  BY <1>7 DEF TypeFrom
<1>13. nx \in Int /\ ny \in Int
  <2>a. Bytes \union {0} \subseteq Int
    BY BytesAreNumbers
  <2>1. \A i \in 0 .. 2 : mouse_byte'[i] \in Int
    BY <1>10, <2>a
  <2>2. moved => 2 - type \in 0 .. 2
    BY <1>12
  <2>3. x \in Int /\ y \in Int
    BY <1>7, <1>8
  <2> QED BY <2>1, <2>2, <2>3
<1> HIDE DEF b, type, moved, nx, ny
<1>14. x' \in MinX .. MaxX /\ y' \in MinY .. MaxY
  BY <1>4, <1>8, <1>13, BetweenTyped
<1>15. MouseTyped'
  <2>1. mouse_cycle' \in 0 .. 2 /\ clck' \in 0 .. 3
    BY <1>5, <1>7, <1>11
  <2> QED BY <1>4, <1>9, <1>10, <1>12, <1>14, <2>1 DEF MouseTyped
<1>16. ASSUME ~history.shifted, ~history.misled  PROVE mousetype' \in {0, 1} /\ Led'
  <2>1. mousetype \in {0, 1} /\ Led
    BY <1>16 DEF Follows
  <2>2. ASSUME mouse_cycle # 2  PROVE mousetype' = mousetype /\ x' = x /\ y' = y
    <3>1. type = mousetype /\ nx = x /\ ny = y
      BY <2>2 DEF type, moved, nx, ny
    <3> QED BY <1>4, <1>7, <1>8, <3>1, BetweenTyped
  <2>3. ASSUME mouse_cycle = 2, Harmless(mousetype = 1, mouse_byte[0], mouse_byte[1])
        PROVE  /\ mousetype' \in {0, 1}
               /\ mousetype' = 1 <=> Tells(mousetype = 1, mouse_byte[0])
               /\ <<x', y'>> = LeadsTo(mousetype = 1, <<x, y>>, mouse_byte[0], mouse_byte[1], b)
    <3>1. mouse_byte'[0] = mouse_byte[0] /\ mouse_byte'[1] = mouse_byte[1] /\ mouse_byte'[2] = b
      BY <1>10, <2>3
    <3>2. CASE Tells(mousetype = 1, mouse_byte[0])
      <4>1. type = 1
        BY <2>1, <2>3, <3>1, <3>2 DEF type, TypeFrom, Tells
      <4>2. nx = x + mouse_byte[1] /\ ny = y + b
        BY <2>3, <3>1, <4>1 DEF nx, ny, moved
      <4> QED BY <1>4, <3>2, <4>1, <4>2 DEF After, LeadsTo
    <3>3. CASE ~Tells(mousetype = 1, mouse_byte[0])
      <4>1. type = 0
        BY <2>1, <2>3, <3>1, <3>3 DEF type, TypeFrom, Tells, Harmless
      <4>2. nx = x /\ ny = y
        BY <4>1 DEF nx, ny, moved
      <4>3. x' = x /\ y' = y
        BY <1>4, <1>7, <1>8, <4>2, BetweenTyped
      <4> QED BY <1>4, <3>3, <4>1, <4>3 DEF LeadsTo
    <3> QED BY <3>2, <3>3
  <2>5. ASSUME NEW f \in Bytes, NEW dx \in Moves, NEW dy \in Moves, mouse_cycle = 0, wire = <<f, dx, dy>>,
               Harmless(mousetype = 1, f, dx), history.plain <=> Tells(mousetype = 1, f),
               history.target = LeadsTo(mousetype = 1, <<x, y>>, f, dx, dy)
        PROVE  mousetype' \in {0, 1} /\ Led'
    <3>1. b = f /\ wire' = <<dx, dy>>
      BY <1>1, <2>5 DEF b
    <3>2. mouse_byte'[0] = f /\ mouse_cycle' = 1
      BY <1>10, <1>11, <2>5, <3>1
    <3>3. mousetype' = mousetype /\ x' = x /\ y' = y
      BY <2>2, <2>5
    <3> QED BY <1>6, <2>1, <2>5, <3>1, <3>2, <3>3 DEF Led
  <2>6. ASSUME NEW dx \in Moves, NEW dy \in Moves, mouse_cycle = 1, wire = <<dx, dy>>,
               Harmless(mousetype = 1, mouse_byte[0], dx), history.plain <=> Tells(mousetype = 1, mouse_byte[0]),
               history.target = LeadsTo(mousetype = 1, <<x, y>>, mouse_byte[0], dx, dy)
        PROVE  mousetype' \in {0, 1} /\ Led'
    <3>1. b = dx /\ wire' = <<dy>>
      BY <1>1, <2>6 DEF b
    <3>2. mouse_byte'[0] = mouse_byte[0] /\ mouse_byte'[1] = dx /\ mouse_cycle' = 2
      BY <1>10, <1>11, <2>6, <3>1
    <3>3. mousetype' = mousetype /\ x' = x /\ y' = y
      BY <2>2, <2>6
    <3> QED BY <1>6, <2>1, <2>6, <3>1, <3>2, <3>3 DEF Led
  <2>7. ASSUME NEW dy \in Moves, mouse_cycle = 2, wire = <<dy>>, mouse_byte[1] \in Moves,
               Harmless(mousetype = 1, mouse_byte[0], mouse_byte[1]),
               history.plain <=> Tells(mousetype = 1, mouse_byte[0]),
               history.target = LeadsTo(mousetype = 1, <<x, y>>, mouse_byte[0], mouse_byte[1], dy)
        PROVE  mousetype' \in {0, 1} /\ Led'
    <3>1. b = dy /\ wire' = <<>>
      BY <1>1, <2>7 DEF b
    <3>2. mouse_cycle' = 0
      BY <1>11, <2>7
    <3>3. mousetype' \in {0, 1} /\ (history'.plain <=> mousetype' = 1) /\ history'.target = <<x', y'>>
      BY <1>6, <2>3, <2>7, <3>1
    <3> QED BY <3>1, <3>2, <3>3 DEF Led
  <2>8. ASSUME NEW dy \in Moves, NEW f \in Bytes, NEW ddx \in Moves, NEW ddy \in Moves,
               mouse_cycle = 2, wire = <<dy, f, ddx, ddy>>, mouse_byte[1] \in Moves,
               Harmless(mousetype = 1, mouse_byte[0], mouse_byte[1]),
               Harmless(Tells(mousetype = 1, mouse_byte[0]), f, ddx),
               history.plain <=> Tells(Tells(mousetype = 1, mouse_byte[0]), f),
               history.target = LeadsTo(Tells(mousetype = 1, mouse_byte[0]),
                 LeadsTo(mousetype = 1, <<x, y>>, mouse_byte[0], mouse_byte[1], dy), f, ddx, ddy)
        PROVE  mousetype' \in {0, 1} /\ Led'
    <3>1. b = dy /\ wire' = <<f, ddx, ddy>>
      BY <1>1, <2>8 DEF b
    <3>2. mouse_cycle' = 0
      BY <1>11, <2>8
    <3>3. /\ mousetype' \in {0, 1}
          /\ mousetype' = 1 <=> Tells(mousetype = 1, mouse_byte[0])
          /\ <<x', y'>> = LeadsTo(mousetype = 1, <<x, y>>, mouse_byte[0], mouse_byte[1], dy)
      BY <2>3, <2>8, <3>1
    <3>4. /\ Harmless(mousetype' = 1, f, ddx)
          /\ history'.plain <=> Tells(mousetype' = 1, f)
      BY <1>6, <2>8, <3>3 DEF Harmless, Tells
    <3>5. history'.target = LeadsTo(mousetype' = 1, <<x', y'>>, f, ddx, ddy)
      <4>1. \A p : LeadsTo(mousetype' = 1, p, f, ddx, ddy)
                     = LeadsTo(Tells(mousetype = 1, mouse_byte[0]), p, f, ddx, ddy)
        BY <3>3, Zenon DEF LeadsTo, Tells
      <4> QED BY <1>6, <2>8, <3>3, <4>1
    <3> QED BY <3>1, <3>2, <3>3, <3>4, <3>5 DEF Led
  <2>9. CASE mouse_cycle = 0 /\ wire = <<>> /\ history.target = <<x, y>>
    BY <1>1, <2>9
  <2> QED BY <2>1, <2>5, <2>6, <2>7, <2>8, <2>9, Zenon DEF Led
<1> QED BY <1>6, <1>15, <1>16 DEF Follows

(* No other step touches the mouse but StatusClears, which takes the click. *)
LEMMA MouseUntouched ==
  ASSUME Sound, UNCHANGED <<wire, mouse_cycle, mouse_byte, mousetype, x, y>>, clck' \in {0, clck},
         UNCHANGED <<history.shifted, history.plain, history.misled, history.target>>
  PROVE  MouseTyped' /\ Follows'
<1>1. MouseTyped'
  BY DEF Sound, MouseTyped
<1>2. Led => Led'
  BY DEF Led
<1> QED BY <1>1, <1>2 DEF Sound, Follows

-----------------------------------------------------------------------------
(* Facts about the screen.                                                 *)

LEMMA PicturesTyped ==
  ASSUME NEW p \in Pictures
  PROVE  p \in [Pixels -> Nat]
BY ConstantsAssumption

(* The pixel under the cursor put back, the picture is whole.              *)
LEMMA RestoredIsPicture ==
  ASSUME ScreenTyped, NEW p \in [Pixels -> Nat], CursorOn(p), ~Black
  PROVE  Restored = p
<1>1. CASE resample
  BY <1>1 DEF CursorOn, Restored
<1>2. CASE ~resample
  <2>1. screen = [p EXCEPT ![<<oldx, oldy>>] = Cursor] /\ under = p[<<oldx, oldy>>] /\ under # 0
    BY <1>2 DEF CursorOn, Black
  <2>2. Restored = [screen EXCEPT ![<<oldx, oldy>>] = under]
    BY <1>2, <2>1 DEF Restored
  <2> QED BY <2>1, <2>2 DEF ScreenTyped
<1> QED BY <1>1, <1>2

LEMMA RestoredTyped ==
  ASSUME ScreenTyped
  PROVE  Restored = [q \in Pixels |-> Restored[q]]
<1>1. CASE under # 0 /\ ~resample
  <2>1. Restored = [screen EXCEPT ![<<oldx, oldy>>] = under]
    BY <1>1 DEF Restored
  <2> QED BY <2>1 DEF ScreenTyped
<1>2. CASE ~(under # 0 /\ ~resample)
  BY <1>2 DEF Restored, ScreenTyped
<1> QED BY <1>1, <1>2

LEMMA ScreenUntouched ==
  ASSUME Sound, UNCHANGED <<drawn, x, y>>, history'.spoilt = history.spoilt, history'.picture = history.picture,
         \/ pc' = pc
         \/ /\ pc' \in {"idle", "poll", "take", "look", "status", "clear"}
            /\ pc \in {"idle", "poll", "take", "look", "status", "clear"}
  PROVE  ScreenTyped' /\ Kept'
<1>1. ScreenTyped'
  BY DEF Sound, ScreenTyped, drawn
<1>2. UNCHANGED <<screen, under, oldx, oldy, resample, x, y>>
  BY DEF drawn
<1>3. history'.spoilt \/ ~history.spoilt
  BY DEF Sound, HistoryTyped
<1>4. CursorOn(history.picture) => (CursorOn(history.picture))'
  <2>1. CASE resample
    BY <1>2, <2>1 DEF CursorOn
  <2>2. CASE ~resample
    BY <1>2, <2>2 DEF CursorOn
  <2> QED BY <2>1, <2>2
<1>5. ASSUME ~history.spoilt  PROVE Kept'
  <2>1. /\ pc \in {"idle", "poll", "take", "look", "status", "clear"} => CursorOn(history.picture)
        /\ pc \in {"save", "draw"} => screen = history.picture /\ ~resample
        /\ pc = "draw" => under = history.picture[<<x, y>>]
        /\ pc = "picture" => screen = history.picture
    BY <1>5, Zenon DEF Sound, Kept
  <2>2. pc' \in {"idle", "poll", "take", "look", "status", "clear"} => (CursorOn(history.picture))'
    BY <1>4, <2>1
  <2>3. pc' \in {"save", "draw"} => screen' = history'.picture /\ ~resample'
    BY <1>2, <2>1
  <2>4. pc' = "draw" => under' = history'.picture[<<x', y'>>]
    BY <1>2, <2>1
  <2>5. pc' = "picture" => screen' = history'.picture
    BY <1>2, <2>1
  <2> QED BY <2>2, <2>3, <2>4, <2>5, Zenon DEF Kept
<1> QED BY <1>1, <1>3, <1>5, Zenon DEF Kept

LEMMA ScreenMouse ==
  ASSUME Sound, irq_mouse, MouseTyped'
  PROVE  ScreenTyped' /\ Kept'
<1> USE DEF Sound
<1>1. /\ Restored = [q \in Pixels |-> Restored[q]] /\ <<x', y'>> \in Pixels
      /\ screen' = [Restored EXCEPT ![<<x', y'>>] = Cursor]
      /\ under' = Restored[<<x', y'>>] /\ oldx' = x' /\ oldy' = y' /\ resample' = FALSE
  <2>1. Restored = [q \in Pixels |-> Restored[q]]
    BY RestoredTyped
  <2>2. <<x', y'>> \in Pixels
    BY DEF MouseTyped, Pixels
  <2> QED BY <2>1, <2>2 DEF irq_mouse, Update
<1>2. ScreenTyped'
  BY <1>1 DEF ScreenTyped
<1>3. ASSUME ~history'.spoilt  PROVE Kept'
  <2>1. /\ ~history.spoilt /\ ~Black /\ pc \notin {"save", "draw", "picture"} /\ pc' = pc
        /\ history'.picture = history.picture
    BY <1>3 DEF irq_mouse, HistoryTyped, flow
  <2>2. pc \in {"idle", "poll", "take", "look", "status", "clear"}
    BY <2>1 DEF PcTyped
  <2>3. CursorOn(history.picture)
    BY <2>1, <2>2 DEF Kept
  <2>4. history.picture \in [Pixels -> Nat]
    BY DEF HistoryTyped
  <2>5. Restored = history.picture
    BY <2>1, <2>3, <2>4, RestoredIsPicture
  <2>6. /\ screen' = [history'.picture EXCEPT ![<<oldx', oldy'>>] = Cursor]
        /\ under' = history'.picture[<<oldx', oldy'>>] /\ ~resample'
    BY <1>1, <2>1, <2>5
  <2> QED BY <2>1, <2>2, <2>6 DEF Kept, CursorOn
<1> QED BY <1>2, <1>3 DEF Kept

LEMMA ScreenFlow ==
  ASSUME Sound, DrawBegins \/ DrawSaves \/ DrawEnds \/ (\E picture \in Pictures : Paints(picture)) \/ force_mouse_resample
  PROVE  ScreenTyped' /\ Kept'
<1> USE DEF Sound
<1>a. <<x, y>> \in Pixels /\ history.picture \in [Pixels -> Nat]
  BY DEF MouseTyped, Pixels, HistoryTyped
<1>1. CASE DrawBegins
  <2>1. pc = "idle" /\ screen' = Restored /\ resample' = FALSE /\ pc' = "save" /\ UNCHANGED <<under, oldx, oldy>>
    BY <1>1 DEF DrawBegins
  <2>2. history'.picture = history.picture /\ (history'.spoilt <=> (history.spoilt \/ Black))
    BY <1>1 DEF DrawBegins, HistoryTyped
  <2>3. Restored = [q \in Pixels |-> Restored[q]]
    BY RestoredTyped
  <2>4. ScreenTyped'
    BY <2>1, <2>3 DEF ScreenTyped
  <2>5. ASSUME ~history'.spoilt  PROVE Kept'
    <3>1. CursorOn(history.picture)
      BY <2>1, <2>2, <2>5 DEF Kept
    <3>2. Restored = history.picture
      BY <1>a, <2>2, <2>5, <3>1, RestoredIsPicture
    <3> QED BY <2>1, <2>2, <3>2 DEF Kept
  <2> QED BY <2>4, <2>5 DEF Kept
<1>2. CASE DrawSaves
  <2>1. pc = "save" /\ under' = screen[<<x, y>>] /\ pc' = "draw" /\ UNCHANGED <<screen, oldx, oldy, resample, x, y, history>>
    BY <1>2 DEF DrawSaves, mouse
  <2>2. ScreenTyped'
    BY <2>1 DEF ScreenTyped
  <2> QED BY <2>1, <2>2 DEF Kept
<1>3. CASE DrawEnds
  <2>1. /\ pc = "draw" /\ screen' = [screen EXCEPT ![<<x, y>>] = Cursor] /\ oldx' = x /\ oldy' = y /\ pc' = "status"
        /\ UNCHANGED <<under, resample, x, y, history>>
    BY <1>3 DEF DrawEnds, mouse
  <2>2. ScreenTyped'
    BY <1>a, <2>1 DEF ScreenTyped
  <2>3. ASSUME ~history.spoilt  PROVE Kept'
    <3>1. screen = history.picture /\ ~resample /\ under = history.picture[<<x, y>>]
      BY <2>1, <2>3 DEF Kept
    <3> QED BY <2>1, <3>1 DEF Kept, CursorOn
  <2> QED BY <2>1, <2>2, <2>3 DEF Kept
<1>4. ASSUME NEW picture \in Pictures, Paints(picture)  PROVE ScreenTyped' /\ Kept'
  <2>1. screen' = picture /\ pc' = "picture" /\ UNCHANGED <<under, oldx, oldy, resample>> /\ history'.picture = picture
    BY <1>4 DEF Paints, HistoryTyped
  <2>2. ScreenTyped'
    BY <2>1, PicturesTyped DEF ScreenTyped
  <2> QED BY <2>1, <2>2 DEF Kept
<1>5. CASE force_mouse_resample
  <2>1. pc = "picture" /\ resample' = TRUE /\ pc' = "idle" /\ UNCHANGED <<screen, under, oldx, oldy, history>>
    BY <1>5 DEF force_mouse_resample
  <2>2. ScreenTyped'
    BY <2>1 DEF ScreenTyped
  <2> QED BY <2>1, <2>2 DEF Kept, CursorOn
<1> QED BY <1>1, <1>2, <1>3, <1>4, <1>5

-----------------------------------------------------------------------------
(* All of it is inductive.                                                 *)
LEMMA HistoryStep ==
  ASSUME Sound, Next
  PROVE  PcTyped' /\ HistoryTyped'
<1> USE DEF Sound
<1>0. MouseTyped /\ PcTyped
  OBVIOUS
<1>1. ASSUME NEW c \in Codes, Sends(c)  PROVE PcTyped' /\ HistoryTyped'
  <2>1. history.events + 1 \in Int
    BY DEF HistoryTyped
  <2>2. PICK n \in Int : history' = [history EXCEPT !.events = n]
    BY <1>1, <2>1, Zenon DEF Sends
  <2>3. HistoryTyped'
    BY <2>2, Zenon DEF HistoryTyped
  <2> QED BY <1>1, <2>3 DEF Sends, PcTyped, flow
<1>2. ASSUME NEW button \in Buttons, NEW dx \in Moves, NEW dy \in Moves, Packet(button, dx, dy)  PROVE PcTyped' /\ HistoryTyped'
  <2>. DEFINE plain == history.plain \/ Flags(button, dx, dy) = 8
              misled == history.misled \/ (~plain /\ dx = 8)
              target == IF plain THEN After(history.target, dx, dy) ELSE history.target
  <2>1. After(history.target, dx, dy) \in Int \X Int
    <3>1. After(history.target, dx, dy) \in Pixels
      BY AfterTyped DEF HistoryTyped
    <3>2. MinX .. MaxX \subseteq Int /\ MinY .. MaxY \subseteq Int
      BY ConstantsAssumption
    <3> QED BY <3>1, <3>2 DEF Pixels
  <2>2. plain \in BOOLEAN /\ misled \in BOOLEAN /\ target \in Int \X Int /\ history.events + 1 \in Int
    BY <2>1 DEF HistoryTyped
  <2>a. history' = [history EXCEPT !.events = history.events + 1, !.plain = plain, !.misled = misled, !.target = target]
    BY <1>2 DEF Packet, After
  <2>. HIDE DEF plain, misled, target
  <2>3. HistoryTyped'
    <3>1. PICK n \in Int, p \in BOOLEAN, m \in BOOLEAN, t \in Int \X Int :
            history' = [history EXCEPT !.events = n, !.plain = p, !.misled = m, !.target = t]
      BY <2>2, <2>a, Zenon
    <3> QED BY <3>1, Zenon DEF HistoryTyped
  <2> QED BY <1>2, <2>3 DEF Packet, PcTyped, flow
<1>3. CASE irq_keyboard \/ keywait \/ Poll \/ Take \/ Look \/ LookEnds
  BY <1>3 DEF irq_keyboard, keywait, Poll, Take, Look, LookEnds, PcTyped, HistoryTyped, flow
<1>4. CASE irq_mouse
  <2>1. PcTyped'
    BY <1>4 DEF irq_mouse, PcTyped, flow
  <2>2. PICK s \in BOOLEAN : history' = [history EXCEPT !.spoilt = s]
    <3>1. (history.spoilt \/ Black \/ pc \in {"save", "draw", "picture"}) \in BOOLEAN
      OBVIOUS
    <3> QED BY <1>4, <3>1, Zenon DEF irq_mouse
  <2> QED BY <2>1, <2>2 DEF HistoryTyped
<1>5. CASE DrawBegins
  <2>1. PcTyped'
    BY <1>5 DEF DrawBegins, PcTyped
  <2>2. PICK s \in BOOLEAN : history' = [history EXCEPT !.spoilt = s]
    <3>1. (history.spoilt \/ Black) \in BOOLEAN
      OBVIOUS
    <3> QED BY <1>5, <3>1, Zenon DEF DrawBegins
  <2> QED BY <2>1, <2>2 DEF HistoryTyped
<1>6. CASE DrawSaves \/ DrawEnds \/ StatusReads \/ StatusClears \/ force_mouse_resample
  BY <1>6 DEF DrawSaves, DrawEnds, StatusReads, StatusClears, force_mouse_resample, PcTyped, HistoryTyped
<1>7. ASSUME NEW picture \in Pictures, Paints(picture)  PROVE PcTyped' /\ HistoryTyped'
  <2>1. history' = [history EXCEPT !.events = @ + 1, !.picture = picture, !.spoilt = FALSE] /\ pc' = "picture"
    BY <1>7 DEF Paints
  <2>2. picture \in [Pixels -> Nat]
    BY PicturesTyped
  <2>3. HistoryTyped'
    <3>1. PICK n \in Int : history' = [history EXCEPT !.events = n, !.picture = picture, !.spoilt = FALSE]
      <4>1. history.events + 1 \in Int
        BY DEF HistoryTyped
      <4> QED BY <2>1, <4>1, Zenon
    <3> QED BY <2>2, <3>1, Zenon DEF HistoryTyped
  <2> QED BY <2>1, <2>3 DEF PcTyped
<1> QED BY <1>1, <1>2, <1>3, <1>4, <1>5, <1>6, <1>7 DEF Next, getInputStatus

LEMMA SoundInit ==
  ASSUME Init
  PROVE  Sound
<1> USE DEF Init
<1>1. PcTyped
  BY DEF PcTyped
<1>2. ConstantsAssumption
  BY ConstantsAssumption
<1>3. MinX \in Int /\ MaxX \in Int /\ MinY \in Int /\ MaxY \in Int /\ MinX \in MinX .. MaxX /\ MinY \in MinY .. MaxY
  BY <1>2 DEF ConstantsAssumption
<1>4. screen \in [Pixels -> Nat]
  BY PicturesTyped
<1>5. HistoryTyped
  <2>1. (wire # <<>>) \in BOOLEAN
    OBVIOUS
  <2>2. <<MinX, MinY>> \in Int \X Int
    BY <1>3
  <2> QED BY <1>4, <2>1, <2>2 DEF HistoryTyped
<1>6. CodesTyped
  <2>1. history.events = 0 /\ Len(codes) = 0 /\ codes \in Seq(Codes) /\ MaxEvents \in Nat
    <3>1. history.events = 0
      BY Zenon
    <3> QED BY <1>2, <3>1 DEF ConstantsAssumption
  <2> HIDE DEF Init
  <2>2. handled = 0 /\ keyword_shift = FALSE
    BY DEF Init
  <2>3. keyword_shift \in BOOLEAN
    BY <2>2
  <2>4. handled \in 0 .. Len(codes) /\ history.events \in Int /\ Len(codes) <= history.events /\ history.events <= MaxEvents
    BY <2>1, <2>2
  <2> QED BY <2>1, <2>3, <2>4, Zenon DEF CodesTyped
<1>7. KeysHeld
  BY DEF KeysHeld, ShiftHeld
<1>8. MouseTyped
  <2>1. wire \in Seq(Bytes)
    <3>1. Moves \subseteq Bytes
      BY DEF Bytes
    <3>2. wire \in {<<>>} \union {<<m>> : m \in Moves}
      BY <1>2, Zenon DEF ConstantsAssumption
    <3>3. CASE wire = <<>>
      BY <3>3
    <3>4. ASSUME NEW m \in Moves, wire = <<m>>  PROVE wire \in Seq(Bytes)
      BY <3>1, <3>4
    <3> QED BY <3>2, <3>3, <3>4, Zenon
  <2> QED BY <1>3, <2>1 DEF MouseTyped
<1>9. Follows
  <2>1. mousetype = 0 /\ mouse_cycle = 0 /\ x = MinX /\ y = MinY
    BY DEF Init
  <2>2. /\ history.shifted = (wire # <<>>) /\ history.plain = FALSE
        /\ history.target = <<MinX, MinY>>
    BY DEF Init
  <2>3. wire = <<>> => Led
    BY <2>1, <2>2 DEF Led
  <2> QED BY <2>1, <2>2, <2>3 DEF Follows
<1>10. ScreenTyped
  BY <1>3, <1>4 DEF ScreenTyped, Pixels
<1>11. Kept
  BY DEF Kept, CursorOn
<1> QED BY <1>1, <1>5, <1>6, <1>7, <1>8, <1>9, <1>10, <1>11 DEF Sound

LEMMA SoundStep ==
  ASSUME Sound, [Next]_vars
  PROVE  Sound'
<1>1. CASE UNCHANGED vars
  <2>1. UNCHANGED <<codes, handled, keyword, keyword_shift, wire, mouse_cycle, mouse_byte, mousetype, x, y, clck,
                    screen, under, oldx, oldy, resample, pc, al, read, history>>
    BY <1>1 DEF vars, keys, mouse, drawn, flow
  <2>2. PcTyped' /\ HistoryTyped' /\ CodesTyped' /\ KeysHeld'
    BY <2>1 DEF Sound, PcTyped, HistoryTyped, CodesTyped, KeysHeld
  <2>3. MouseTyped' /\ Follows'
    BY <2>1, MouseUntouched
  <2>4. ScreenTyped' /\ Kept'
    BY <1>1, <2>1, ScreenUntouched DEF vars
  <2> QED BY <2>2, <2>3, <2>4 DEF Sound
<1>2. CASE Next
  <2>1. PcTyped' /\ HistoryTyped'
    BY <1>2, HistoryStep
  <2>2. KeysHeld' /\ CodesTyped'
    BY <1>2, KeysSends, KeysHandled, KeysMouse, KeysFlow DEF Next
  <2>3. MouseTyped' /\ Follows'
    <3>1. CASE irq_mouse
      BY <3>1, MouseHandled
    <3>2. CASE \E button \in Buttons, dx, dy \in Moves : Packet(button, dx, dy)
      BY <3>2, MousePacket
    <3>3. CASE StatusClears
      BY <3>3, MouseUntouched DEF StatusClears
    <3>4. ASSUME NEW c \in Codes, Sends(c)  PROVE MouseTyped' /\ Follows'
      BY <3>4, MouseUntouched DEF Sends, mouse, Sound, HistoryTyped
    <3>5. ASSUME NEW picture \in Pictures, Paints(picture)  PROVE MouseTyped' /\ Follows'
      BY <3>5, MouseUntouched DEF Paints, mouse, Sound, HistoryTyped
    <3>6. CASE DrawBegins \/ DrawSaves \/ DrawEnds \/ StatusReads \/ force_mouse_resample
      BY <3>6, MouseUntouched DEF DrawBegins, DrawSaves, DrawEnds, StatusReads, force_mouse_resample, mouse, Sound, HistoryTyped
    <3>7. CASE irq_keyboard \/ keywait \/ Poll \/ Take \/ Look \/ LookEnds
      BY <3>7, MouseUntouched DEF irq_keyboard, keywait, Poll, Take, Look, LookEnds, mouse
    <3> QED BY <1>2, <3>1, <3>2, <3>3, <3>4, <3>5, <3>6, <3>7 DEF Next, getInputStatus
  <2>4. ScreenTyped' /\ Kept'
    <3>1. CASE irq_mouse
      BY <2>3, <3>1, ScreenMouse
    <3>2. CASE DrawBegins \/ DrawSaves \/ DrawEnds \/ (\E picture \in Pictures : Paints(picture)) \/ force_mouse_resample
      BY <3>2, ScreenFlow
    <3>3. ASSUME NEW c \in Codes, Sends(c)  PROVE ScreenTyped' /\ Kept'
      BY <3>3, ScreenUntouched DEF Sends, mouse, flow, Sound, HistoryTyped
    <3>4. ASSUME NEW button \in Buttons, NEW dx \in Moves, NEW dy \in Moves, Packet(button, dx, dy)  PROVE ScreenTyped' /\ Kept'
      BY <3>4, ScreenUntouched DEF Packet, flow, Sound, HistoryTyped
    <3>5. CASE irq_keyboard \/ keywait \/ Poll \/ Take \/ Look \/ LookEnds
      BY <3>5, ScreenUntouched DEF irq_keyboard, keywait, Poll, Take, Look, LookEnds, mouse, flow
    <3>6. CASE StatusReads \/ StatusClears
      BY <3>6, ScreenUntouched DEF StatusReads, StatusClears, mouse
    <3> QED BY <1>2, <3>1, <3>2, <3>3, <3>4, <3>5, <3>6 DEF Next, getInputStatus
  <2> QED BY <2>1, <2>2, <2>3, <2>4 DEF Sound
<1> QED BY <1>1, <1>2

LEMMA SoundHolds == Spec => []Sound
<1>1. Init => Sound
  BY SoundInit
<1>2. Sound /\ [Next]_vars => Sound'
  BY SoundStep
<1> QED BY <1>1, <1>2, PTL DEF Spec

-----------------------------------------------------------------------------
(* The cursor is where the mouse led it once its packets are read, for any *)
(* screen and any moves: irq_mouse keeps the three bytes apart however the *)
(* main flow is interrupted.                                               *)
THEOREM PositionIsTheMouses == Spec => []PositionFollows
<1>1. Sound => PositionFollows
  BY DEF Sound, Follows, Led, PositionFollows
<1> QED BY <1>1, SoundHolds, PTL

(* The picture stays on the screen under the cursor, for any pictures and  *)
(* any number of draws by getInputStatus and by the handler.               *)
THEOREM PictureStays == Spec => []ScreenIsKept
<1>1. Sound => ScreenIsKept
  BY DEF Sound, Kept, CursorOn, ScreenIsKept
<1> QED BY <1>1, SoundHolds, PTL

(* Callers get keys in the order they were pressed, none twice and each    *)
(* with its shift, for any number of codes and callers.                    *)
THEOREM KeysComeInOrder == Spec => []KeysInOrder
<1>1. Sound => KeysInOrder
  <2> SUFFICES ASSUME Sound  PROVE KeysInOrder
    OBVIOUS
  <2> USE DEF Sound
  <2>1. ShiftGoesWithNext
    BY DEF KeysHeld, Pressed, ShiftHeld, ShiftGoesWithNext
  <2>2. TypeOK
    <3>1. keyword \in Keys \union {NoKey} /\ al \in Keys \union {NoKey} /\ read \in Seq(Keys)
      BY DEF KeysHeld, Pressed
    <3>2. DOMAIN screen = Pixels
      BY DEF ScreenTyped
    <3> QED BY <3>1, <3>2 DEF TypeOK, CodesTyped, MouseTyped, ScreenTyped, PcTyped
  <2> QED BY <2>1, <2>2 DEF KeysInOrder, KeysHeld
<1> QED BY <1>1, SoundHolds, PTL

-----------------------------------------------------------------------------
(* The ports are numbered from 0, and Off is no port's address.            *)
N == Cardinality(Ports)

LEMMA PortsAreNumbers == N \in Nat /\ Ports = 0 .. N - 1 /\ Off = N + 1
BY EhciAssumption, FS_CardinalityType DEF N, Off

-----------------------------------------------------------------------------
(* EHCI.  A port is first asked, then its device is installed.             *)
Asking == {"address", "descriptor", "configuration", "configure"}
Installing == {"protocol", "lun", "cbw", "sector", "sense"}
OfPort == Asking \union Installing \union {"hung"}

(* The types that the steps need, with the ranges of port and address.     *)
EhciTyped ==
  /\ kind \in [Ports -> Kinds] /\ address \in [Ports -> 0 .. Off]
  /\ tds \in Seq({"setup", "data", "status", "out"}) /\ to \in 0 .. Off
  /\ error \in {"no", "retry", "halted"} /\ async \in {"on", "stopping", "off"}
  /\ at \in Calls \union {"next", "hung", "ready"}
  /\ keyboard \in 0 .. Off /\ polls \in 0 .. MaxPolls
  /\ installed \subseteq Ports /\ gaveUp \subseteq Ports
  /\ failed \in BOOLEAN /\ stray \in BOOLEAN

(* Every installed device counts the address on once.                      *)
Counting ==
  /\ port \in 0 .. N /\ deviceaddress \in 1 .. Off
  /\ at \in OfPort => port \in Ports
  /\ deviceaddress <= port + (IF at \in Installing \union {"hung"} THEN 2 ELSE 1)

(* An installed device has an address below the one given next, another    *)
(* one than the other installed ones; the device being asked has none, or  *)
(* the next; nobody else has one, but for ports given up.                  *)
Addresses ==
  /\ \A p \in installed : address[p] \in 1 .. deviceaddress - 1
  /\ \A p \in installed : p < port \/ (p = port /\ at \in Installing \union {"hung"})
  /\ \A p, q \in installed : p # q => address[p] # address[q]
  /\ at = "address" => to = 0 /\ address[port] = IF tds = <<>> THEN deviceaddress ELSE 0
  /\ at \in Asking \ {"address"} => address[port] = deviceaddress
  /\ \A q \in Ports \ (installed \union gaveUp) : (q = port /\ at \in Asking) \/ address[q] = Off

(* What is left of a list when no call is underway is left by an error.    *)
InTime == (stray => failed) /\ (~Waiting /\ tds # <<>> => failed)

EhciSound == EhciTyped /\ Counting /\ Addresses /\ InTime

LEMMA EhciIsTyped == EhciSound => EhciType
<1>. SUFFICES ASSUME EhciSound PROVE EhciType
  OBVIOUS
<1>1. deviceaddress \in 1 .. Off /\ port \in 0 .. Cardinality(Ports)
  BY DEF EhciSound, Counting, N
<1>. QED  BY <1>1, Zenon DEF EhciSound, EhciTyped, EhciType

LEMMA EhciAreApart == EhciSound => AddressesApart
<1>. SUFFICES ASSUME EhciSound, NEW p \in installed, NEW q \in Ports \ {p}, address[q] = address[p], q \notin gaveUp
              PROVE  FALSE
  BY DEF AddressesApart
<1>. USE PortsAreNumbers DEF EhciSound, Counting, Addresses
<1>0. address[p] \in 1 .. deviceaddress - 1 /\ address[p] < deviceaddress /\ deviceaddress <= Off
  OBVIOUS
<1>1. CASE q \in installed
  BY <1>1
<1>2. CASE q \notin installed /\ q = port /\ at \in Asking
  <2>1. address[q] \in {0, deviceaddress}
    BY <1>2 DEF Asking
  <2>. QED  BY <1>0, <2>1
<1>3. CASE address[q] = Off
  BY <1>0, <1>3
<1>. QED  BY <1>1, <1>2, <1>3

LEMMA EhciSoundInit == EhciInit => EhciSound
<1>. SUFFICES ASSUME EhciInit PROVE EhciSound
  OBVIOUS
<1>. USE PortsAreNumbers, EhciAssumption DEF EhciInit
<1>1. EhciTyped
  <2>1. tds \in Seq({"setup", "data", "status", "out"}) /\ 0 \in 0 .. Off /\ Off \in 0 .. Off /\ polls \in 0 .. MaxPolls
    OBVIOUS
  <2>. QED  BY <2>1, Zenon DEF EhciTyped
<1>2. Counting
  BY DEF Counting, OfPort, Asking, Installing
<1>3. Addresses
  BY DEF Addresses, Asking
<1>4. InTime
  BY DEF InTime
<1>. QED  BY <1>1, <1>2, <1>3, <1>4 DEF EhciSound

LEMMA TdsOfCall ==
  ASSUME NEW c \in Calls
  PROVE  Tds(c) \in Seq({"setup", "data", "status", "out"}) /\ Tds(c) # <<>>
<1>1. CASE c \in {"address", "configure", "protocol"}
  <2>1. Tds(c) = <<"setup", "status">>
    BY <1>1 DEF Tds
  <2>. QED  BY <2>1
<1>2. CASE c \in {"descriptor", "configuration", "lun", "poll"}
  <2>1. Tds(c) = <<"setup", "data", "status">>
    BY <1>2 DEF Tds
  <2>. QED  BY <2>1
<1>3. CASE c \in {"cbw", "sector", "sense"}
  BY <1>3 DEF Tds
<1>. QED  BY <1>1, <1>2, <1>3 DEF Calls

(* The controller: a device that takes an address has been at 0, and is    *)
(* the one asked or one that was given up.                                 *)
LEMMA ControllerKeeps ==
  ASSUME EhciSound, HostController
  PROVE  EhciSound'
<1>. USE PortsAreNumbers DEF EhciSound
<1>0. UNCHANGED <<kind, deviceaddress, port, at, keyboard, polls, installed, gaveUp, failed>>
  BY DEF HostController
<1>1. CASE Transfers
  <2>1. /\ tds # <<>> /\ tds' = Tail(tds) /\ error' = "no"
        /\ address' = [p \in Ports |-> IF Len(tds) = 1 /\ to = 0 /\ address[p] = to THEN deviceaddress ELSE address[p]]
        /\ stray' = (stray \/ (Head(tds) = "data" /\ ~Waiting))
        /\ UNCHANGED <<to, async>>
    BY <1>1 DEF Transfers, Listeners
  <2>2. tds' \in Seq({"setup", "data", "status", "out"}) /\ (tds' = <<>> <=> Len(tds) = 1)
    <3>1. /\ tds \in Seq({"setup", "data", "status", "out"}) /\ Len(tds) \in Nat \ {0}
          /\ tds' \in Seq({"setup", "data", "status", "out"}) /\ Len(tds') = Len(tds) - 1
      BY <2>1 DEF EhciTyped
    <3>2. tds' = <<>> <=> Len(tds') = 0
      BY <3>1, EmptySeq
    <3>. QED  BY <3>1, <3>2
  <2>3. stray' \in BOOLEAN /\ (stray' => stray \/ ~Waiting)
    BY <2>1, Zenon DEF EhciTyped
  <2>4. address' \in [Ports -> 0 .. Off]
    BY <2>1 DEF EhciTyped, Counting
  <2>5. EhciTyped'
    BY <1>0, <2>1, <2>2, <2>3, <2>4, Zenon DEF EhciTyped
  <2>6. Counting'
    BY <1>0 DEF Counting
  <2>7. Addresses'
    <3>1. \A p \in Ports : address[p] # 0 => address'[p] = address[p]
      BY <2>1
    <3>2. \A p \in installed : address'[p] = address[p]
      BY <3>1 DEF Addresses, EhciTyped
    <3>3. at = "address" => address'[port] = IF tds' = <<>> THEN deviceaddress ELSE 0
      BY <2>1, <2>2 DEF Addresses, Counting, OfPort, Asking
    <3>4. at \in Asking \ {"address"} => address'[port] = deviceaddress
      BY <3>1 DEF Addresses, Counting, OfPort
    <3>5. \A q \in Ports : address[q] = Off => address'[q] = Off
      BY <3>1
    <3>6. /\ \A p \in installed' : address'[p] \in 1 .. deviceaddress' - 1
          /\ \A p \in installed' : p < port' \/ (p = port' /\ at' \in Installing \union {"hung"})
          /\ \A p, q \in installed' : p # q => address'[p] # address'[q]
      BY <1>0, <3>2 DEF Addresses
    <3>7. at' = "address" => to' = 0 /\ address'[port'] = IF tds' = <<>> THEN deviceaddress' ELSE 0
      BY <1>0, <2>1, <3>3 DEF Addresses
    <3>8. \A q \in Ports \ (installed' \union gaveUp') : (q = port' /\ at' \in Asking) \/ address'[q] = Off
      BY <1>0, <3>5 DEF Addresses
    <3>. QED  BY <1>0, <3>4, <3>6, <3>7, <3>8 DEF Addresses
  <2>8. InTime'
    BY <1>0, <2>1, <2>3 DEF InTime, Waiting
  <2>. QED  BY <2>5, <2>6, <2>7, <2>8
<1>2. CASE Errs \/ Stops
  <2>1. /\ UNCHANGED <<tds, to, address, stray>>
        /\ error' \in {"no", "retry", "halted"} /\ async' \in {"on", "stopping", "off"}
    BY <1>2 DEF Errs, Stops, EhciTyped
  <2>2. EhciTyped'
    BY <1>0, <2>1, Zenon DEF EhciTyped
  <2>. QED  BY <1>0, <2>1, <2>2 DEF Counting, Addresses, InTime, Waiting
<1>. QED  BY <1>1, <1>2 DEF HostController

(* What a call that comes back is followed by.                             *)
LEMMA AfterCall ==
  ASSUME Waiting, NEW ok \in BOOLEAN, Continue(ok)
  PROVE  /\ UNCHANGED <<kind, address, polls, stray>> /\ failed' = (failed \/ ~ok)
         /\ \/ at \in Asking /\ GiveUp
            \/ /\ at \in Asking \ {"configure"} /\ ok /\ UNCHANGED <<port, deviceaddress, installed, gaveUp, keyboard>>
               /\ \E c \in Asking \ {"address"} : Send(c, deviceaddress)
            \/ at = "configure" /\ ok /\ Install
            \/ at = "protocol" /\ HidProtocol(ok)
            \/ /\ at \in Installing \ {"protocol"} /\ UNCHANGED <<port, deviceaddress, installed, gaveUp, keyboard>>
               /\ Hang \/ \E c \in Installing \ {"protocol"} : Send(c, to)
            \/ at = "poll" /\ at' = "ready" /\ NoSend /\ UNCHANGED <<port, deviceaddress, installed, gaveUp, keyboard>>
<1>. USE DEF Asking, Installing
<1>1. UNCHANGED <<kind, address, polls, stray>> /\ failed' = (failed \/ ~ok)
  BY DEF Continue
<1>2. CASE at \in Asking /\ GiveUp
  BY <1>1, <1>2
<1>3. CASE at = "address" /\ ~GiveUp
  BY <1>1, <1>3 DEF Continue, ehci_get_device_descriptor
<1>4. CASE at = "descriptor" /\ ~GiveUp
  BY <1>1, <1>4 DEF Continue, ehci_get_device_configuration, ehci_set_device_configuration
<1>5. CASE at = "configuration" /\ ~GiveUp
  BY <1>1, <1>5 DEF Continue, ehci_set_device_configuration
<1>6. CASE at = "configure" /\ ~GiveUp
  BY <1>1, <1>6 DEF Continue
<1>7. CASE at = "protocol"
  BY <1>1, <1>7 DEF Continue
<1>8. CASE at \in {"lun", "cbw", "sector", "sense"}
  BY <1>1, <1>8 DEF Continue, StickStep, usb_stick_read_sector, usb_stick_request_sense, ehci_send_bulk, ehci_recieve_bulk
<1>9. CASE at = "poll"
  BY <1>1, <1>9 DEF Continue
<1>. QED  BY <1>2, <1>3, <1>4, <1>5, <1>6, <1>7, <1>8, <1>9 DEF Waiting, Calls

LEMMA SentIsCall ==
  ASSUME NEW c \in Calls, NEW a \in 0 .. Off, Send(c, a)
  PROVE  /\ at' = c /\ to' = a /\ tds' # <<>> /\ tds' \in Seq({"setup", "data", "status", "out"})
         /\ error' = "no" /\ async' = "on"
BY TdsOfCall DEF Send

(* A call comes back: with every descriptor done, or as an error.          *)
LEMMA CallKeeps ==
  ASSUME EhciSound, Waiting, NEW ok \in BOOLEAN, ok => tds = <<>>, Continue(ok)
  PROVE  EhciSound'
<1>. USE PortsAreNumbers DEF EhciSound
<1>1. UNCHANGED <<kind, address, polls, stray>> /\ failed' = (failed \/ ~ok)
  BY AfterCall
<1>2. failed' \in BOOLEAN /\ (failed => failed') /\ (tds # <<>> => failed')
  BY <1>1, Zenon DEF EhciTyped
<1>3. port \in 0 .. N /\ deviceaddress \in 1 .. Off /\ to \in 0 .. Off /\ keyboard \in 0 .. Off
  BY DEF Counting, EhciTyped
<1>4. CASE at \in Asking /\ GiveUp
  <2>1. /\ at' = "next" /\ port' = port + 1 /\ gaveUp' = gaveUp \union {port} /\ async' = "stopping"
        /\ UNCHANGED <<deviceaddress, installed, keyboard, tds, to, error>>
    BY <1>4 DEF GiveUp, Leave, NoSend
  <2>2. port \in Ports /\ deviceaddress <= port + 1 /\ at \notin Installing \union {"hung"}
    BY <1>4 DEF Counting, OfPort, Asking, Installing
  <2>3. EhciTyped'
    BY <1>1, <1>2, <2>1, <2>2 DEF EhciTyped
  <2>4. Counting'
    BY <1>3, <2>1, <2>2 DEF Counting, OfPort, Asking, Installing
  <2>5. Addresses'
    BY <1>1, <1>3, <2>1, <2>2 DEF Addresses, Asking, EhciTyped
  <2>6. InTime'
    BY <1>1, <1>2, <2>1 DEF InTime, Waiting, Calls
  <2>. QED  BY <2>3, <2>4, <2>5, <2>6
<1>5. ASSUME at \in Asking \ {"configure"}, ok, UNCHANGED <<port, deviceaddress, installed, gaveUp, keyboard>>,
             NEW c \in Asking \ {"address"}, Send(c, deviceaddress)
      PROVE  EhciSound'
  <2>1. c \in Calls /\ deviceaddress \in 0 .. Off
    BY <1>3 DEF Asking, Calls
  <2>2. /\ at' = c /\ to' = deviceaddress /\ tds' # <<>> /\ tds' \in Seq({"setup", "data", "status", "out"})
        /\ error' = "no" /\ async' = "on"
    BY <1>5, <2>1, SentIsCall
  <2>3. EhciTyped'
    BY <1>1, <1>2, <1>5, <2>1, <2>2 DEF EhciTyped
  <2>4. Counting'
    BY <1>5, <2>2 DEF Counting, OfPort, Asking, Installing
  <2>5. address[port] = deviceaddress
    BY <1>5 DEF Addresses
  <2>6. Addresses'
    BY <1>1, <1>5, <2>2, <2>5 DEF Addresses, Asking, Installing
  <2>7. InTime'
    BY <1>1, <1>2, <2>1, <2>2 DEF InTime, Waiting
  <2>. QED  BY <2>3, <2>4, <2>6, <2>7
<1>6. CASE at = "configure" /\ ok /\ Install
  <2>1. /\ installed' = installed \union {port} /\ deviceaddress' = deviceaddress + 1
        /\ UNCHANGED <<gaveUp, keyboard>>
        /\ Leave \/ (UNCHANGED port /\ (Hang \/ \E c \in {"protocol", "lun"} : Send(c, deviceaddress)))
    BY <1>6 DEF Install, usb_device_install, ehci_send_and_recieve_command, usb_stick_get_max_lun
  <2>2. /\ \/ at' = "next" /\ port' = port + 1
           \/ at' \in {"hung", "protocol", "lun"} /\ port' = port
        /\ to' \in 0 .. Off /\ (at' \in {"hung", "next"} => tds' = tds)
        /\ tds' \in Seq({"setup", "data", "status", "out"})
        /\ error' \in {"no", "retry", "halted"} /\ async' \in {"on", "stopping", "off"}
    <3>1. CASE (Hang /\ UNCHANGED port) \/ Leave
      BY <3>1 DEF Hang, Leave, NoSend, EhciTyped
    <3>2. ASSUME NEW c \in {"protocol", "lun"}, Send(c, deviceaddress), UNCHANGED port
          PROVE  <2>2
      <4>1. c \in Calls /\ deviceaddress \in 0 .. Off
        BY <1>3 DEF Calls
      <4>. QED  BY <3>2, <4>1, SentIsCall
    <3>. QED  BY <2>1, <3>1, <3>2
  <2>3. port \in Ports /\ port < N /\ deviceaddress <= port + 1 /\ address[port] = deviceaddress
    BY <1>6 DEF Counting, OfPort, Asking, Installing, Addresses
  <2>4. /\ at' \notin Asking /\ at' # "address"
        /\ \/ at' = "next" /\ at' \notin OfPort /\ at' \notin Installing \union {"hung"} /\ port' = port + 1
           \/ at' \in Installing \union {"hung"} /\ at' \in OfPort /\ port' = port
    BY <2>2 DEF Installing, Asking, OfPort
  <2>5. EhciTyped'
    BY <1>1, <1>2, <2>1, <2>2, <2>3 DEF EhciTyped, Calls
  <2>6. Counting'
    BY <1>3, <2>1, <2>3, <2>4 DEF Counting
  <2>7. Addresses'
    <3>1. at \notin Installing \union {"hung"} /\ port \notin installed
      BY <1>6, <2>3 DEF Addresses, Installing
    <3>2. \A p \in installed : address[p] \in 1 .. deviceaddress - 1 /\ p < port
      BY <3>1 DEF Addresses
    <3>3. \A p, q \in installed' : p # q => address'[p] # address'[q]
      BY <1>1, <1>3, <2>1, <2>3, <3>1, <3>2 DEF Addresses
    <3>4. \A p \in installed' : address'[p] \in 1 .. deviceaddress' - 1 /\ (p < port \/ p = port)
      BY <1>1, <1>3, <2>1, <2>3, <3>2
    <3>6. \A p \in installed' : p < port' \/ (p = port' /\ at' \in Installing \union {"hung"})
      <4>. SUFFICES ASSUME NEW p \in installed'
                    PROVE  p < port' \/ (p = port' /\ at' \in Installing \union {"hung"})
        OBVIOUS
      <4>1. p \in Nat /\ port \in Nat
        BY <1>3, <2>1, <2>3 DEF EhciTyped
      <4>2. CASE port' = port + 1
        BY <3>4, <4>1, <4>2
      <4>3. CASE at' \in Installing \union {"hung"} /\ port' = port
        BY <3>4, <4>3
      <4>. QED  BY <2>4, <4>2, <4>3
    <3>5. \A q \in Ports \ (installed' \union gaveUp') : address'[q] = Off
      BY <1>1, <2>1 DEF Addresses
    <3>. QED  BY <2>4, <3>3, <3>4, <3>5, <3>6 DEF Addresses
  <2>8. InTime'
    BY <1>1, <1>2, <1>6, <2>2 DEF InTime, Waiting, Calls
  <2>. QED  BY <2>5, <2>6, <2>7, <2>8
<1>7. CASE at = "protocol" /\ HidProtocol(ok)
  <2>1. /\ keyboard' \in {to, keyboard} /\ at' = "next" /\ port' = port + 1 /\ async' = "stopping"
        /\ UNCHANGED <<deviceaddress, installed, gaveUp, tds, to, error>>
    BY <1>7 DEF HidProtocol, Leave, NoSend
  <2>2. port \in Ports /\ deviceaddress <= port + 2 /\ at \notin Asking
    BY <1>7 DEF Counting, OfPort, Asking, Installing
  <2>3. EhciTyped'
    BY <1>1, <1>2, <1>3, <2>1 DEF EhciTyped
  <2>4. Counting'
    BY <1>3, <2>1, <2>2 DEF Counting, OfPort, Asking, Installing
  <2>5. Addresses'
    BY <1>1, <1>3, <2>1, <2>2 DEF Addresses, Asking, EhciTyped
  <2>6. InTime'
    BY <1>1, <1>2, <2>1 DEF InTime, Waiting, Calls
  <2>. QED  BY <2>3, <2>4, <2>5, <2>6
<1>8. CASE /\ at \in Installing \ {"protocol"} /\ UNCHANGED <<port, deviceaddress, installed, gaveUp, keyboard>>
           /\ Hang \/ \E c \in Installing \ {"protocol"} : Send(c, to)
  <2>1. /\ at' \in Installing \union {"hung"} /\ to' \in 0 .. Off /\ (at' = "hung" => tds' = tds)
        /\ tds' \in Seq({"setup", "data", "status", "out"})
        /\ error' \in {"no", "retry", "halted"} /\ async' \in {"on", "stopping", "off"}
    <3>1. CASE Hang
      BY <3>1 DEF Hang, NoSend, EhciTyped
    <3>2. ASSUME NEW c \in Installing \ {"protocol"}, Send(c, to)
          PROVE  <2>1
      <4>1. c \in Calls
        BY DEF Calls, Installing
      <4>2. c # "hung"
        BY DEF Installing
      <4>. QED  BY <1>3, <3>2, <4>1, <4>2, SentIsCall
    <3>. QED  BY <1>8, <3>1, <3>2
  <2>2. at \in Installing /\ at \notin Asking /\ at' \notin Asking /\ at' \in OfPort /\ at' # "address" /\ at \in OfPort
    BY <1>8, <2>1 DEF Installing, Asking, OfPort
  <2>3. EhciTyped'
    BY <1>1, <1>2, <1>8, <2>1 DEF EhciTyped, Installing, Calls
  <2>4. Counting'
    BY <1>8, <2>1, <2>2 DEF Counting
  <2>5. Addresses'
    BY <1>1, <1>8, <2>1, <2>2 DEF Addresses
  <2>6. InTime'
    BY <1>1, <1>2, <2>1 DEF InTime, Waiting, Calls, Installing
  <2>. QED  BY <2>3, <2>4, <2>5, <2>6
<1>9. CASE at = "poll" /\ at' = "ready" /\ NoSend /\ UNCHANGED <<port, deviceaddress, installed, gaveUp, keyboard>>
  <2>1. async' = "stopping" /\ UNCHANGED <<tds, to, error>>
    BY <1>9 DEF NoSend
  <2>2. EhciTyped'
    BY <1>1, <1>2, <1>9, <2>1 DEF EhciTyped
  <2>3. Counting' /\ Addresses'
    BY <1>1, <1>9, <2>1 DEF Counting, Addresses, OfPort, Asking, Installing
  <2>4. InTime'
    BY <1>1, <1>2, <1>9, <2>1 DEF InTime
  <2>. QED  BY <2>2, <2>3, <2>4
<1>. QED  BY <1>4, <1>5, <1>6, <1>7, <1>8, <1>9, AfterCall

(* Between calls the next port is taken, or the keyboard is polled.        *)
LEMMA PortTaken ==
  ASSUME EhciSound, Probe \/ Probed \/ PollKeyboard
  PROVE  EhciSound'
<1>. USE PortsAreNumbers DEF EhciSound
<1>0. port \in 0 .. N /\ deviceaddress \in 1 .. Off /\ keyboard \in 0 .. Off
  BY DEF Counting, EhciTyped
<1>1. CASE Probe /\ port' = port + 1
  <2>1. /\ at = "next" /\ port \in Ports /\ port' = port + 1
        /\ UNCHANGED <<kind, deviceaddress, keyboard, polls, installed, gaveUp, failed, stray, address, tds, to, error, async, at>>
    BY <1>1 DEF Probe, list
  <2>2. EhciTyped' /\ InTime'
    BY <2>1 DEF EhciTyped, InTime, Waiting
  <2>3. Counting'
    BY <1>0, <2>1 DEF Counting, OfPort, Asking, Installing
  <2>4. Addresses'
    <3>1. at \notin Installing \union {"hung"} /\ at \notin Asking
      BY <2>1 DEF Asking, Installing
    <3>2. \A p \in installed : p < port'
      BY <2>1, <3>1 DEF Addresses, EhciTyped
    <3>3. \A q \in Ports \ (installed \union gaveUp) : address[q] = Off
      BY <3>1 DEF Addresses
    <3>4. at # "address"
      BY <2>1
    <3>. QED  BY <2>1, <3>1, <3>2, <3>3, <3>4 DEF Addresses
  <2>. QED  BY <2>2, <2>3, <2>4
<1>2. CASE Probe /\ ~(port' = port + 1)
  <2>1. /\ at = "next" /\ port \in Ports /\ address' = [address EXCEPT ![port] = 0] /\ Send("address", 0)
        /\ UNCHANGED <<kind, deviceaddress, keyboard, polls, installed, gaveUp, failed, stray, port>>
    BY <1>2 DEF Probe, ehci_set_device_address
  <2>2. /\ at' = "address" /\ to' = 0 /\ tds' # <<>> /\ tds' \in Seq({"setup", "data", "status", "out"})
        /\ error' = "no" /\ async' = "on"
    <3>1. "address" \in Calls /\ 0 \in 0 .. Off
      BY DEF Calls
    <3>. QED  BY <2>1, <3>1, SentIsCall
  <2>3. EhciTyped'
    <3>1. address' \in [Ports -> 0 .. Off] /\ at' \in Calls
      BY <2>1, <2>2 DEF EhciTyped, Calls
    <3>. QED  BY <2>1, <2>2, <3>1 DEF EhciTyped
  <2>4. Counting'
    BY <2>1, <2>2 DEF Counting, Installing
  <2>5. Addresses'
    <3>1. port \notin installed /\ \A p \in installed : address'[p] = address[p] /\ p < port
      BY <1>0, <2>1 DEF Addresses, Installing, EhciTyped
    <3>2. address'[port] = 0 /\ \A q \in Ports \ {port} : address'[q] = address[q]
      BY <2>1 DEF EhciTyped
    <3>3. at' \in Asking
      BY <2>2 DEF Asking
    <3>. QED  BY <2>1, <2>2, <3>1, <3>2, <3>3 DEF Addresses
  <2>6. InTime'
    BY <2>1, <2>2 DEF InTime, Waiting, Calls
  <2>. QED  BY <2>3, <2>4, <2>5, <2>6
<1>3. CASE Probed
  <2>1. /\ at = "next" /\ at' = "ready"
        /\ UNCHANGED <<kind, address, tds, to, error, async, deviceaddress, port, keyboard, polls, installed, gaveUp, failed, stray>>
    BY <1>3 DEF Probed, list
  <2>. QED  BY <2>1 DEF EhciTyped, Counting, Addresses, InTime, OfPort, Asking, Installing, Waiting, Calls
<1>4. CASE PollKeyboard
  <2>1. /\ at = "ready" /\ polls < MaxPolls /\ polls' = polls + 1 /\ Send("poll", keyboard)
        /\ UNCHANGED <<kind, address, deviceaddress, port, keyboard, installed, gaveUp, failed, stray>>
    BY <1>4 DEF PollKeyboard, ehci_send_and_recieve_command
  <2>2. /\ at' = "poll" /\ to' = keyboard /\ tds' \in Seq({"setup", "data", "status", "out"})
        /\ error' = "no" /\ async' = "on"
    <3>1. "poll" \in Calls
      BY DEF Calls
    <3>. QED  BY <1>0, <2>1, <3>1, SentIsCall
  <2>3. EhciTyped'
    <3>1. polls' \in 0 .. MaxPolls /\ at' \in Calls
      BY <2>1, <2>2, EhciAssumption DEF EhciTyped, Calls
    <3>. QED  BY <2>1, <2>2, <3>1 DEF EhciTyped
  <2>4. Counting' /\ Addresses'
    BY <2>1, <2>2 DEF Counting, Addresses, OfPort, Asking, Installing
  <2>5. InTime'
    BY <2>1, <2>2 DEF InTime, Waiting, Calls
  <2>. QED  BY <2>3, <2>4, <2>5
<1>. QED  BY <1>1, <1>2, <1>3, <1>4

LEMMA EhciSoundStep ==
  ASSUME EhciSound, [EhciNext]_ehciVars
  PROVE  EhciSound'
<1>1. CASE HostController
  BY <1>1, ControllerKeeps
<1>2. CASE Completion \/ TimesOut
  BY <1>2, CallKeeps DEF Completion, TimesOut
<1>3. CASE Probe \/ Probed \/ PollKeyboard
  BY <1>3, PortTaken
<1>4. CASE UNCHANGED ehciVars
  <2>1. /\ UNCHANGED <<kind, address, tds, to, error, async, deviceaddress, port, at, keyboard, polls>>
        /\ UNCHANGED <<installed, gaveUp, failed, stray>>
    BY <1>4 DEF ehciVars, list
  <2>. QED  BY <2>1 DEF EhciSound, EhciTyped, Counting, Addresses, InTime, Waiting
<1>. QED  BY <1>1, <1>2, <1>3, <1>4 DEF EhciNext, EhciDriver

-----------------------------------------------------------------------------
(* XHCI.  A call that waits has its answer last among the new events,      *)
(* unless an event of something else came too; and a request that no ring  *)
(* holds any more has put an event there, unless there was no place.       *)
EventType == [call : Nat, ok : BOOLEAN, slot : Nat]
LeftType == [polls : 0 .. MaxPolls, changes : 0 .. MaxChanges, late : 0 .. MaxLate]

ControllerTyped ==
  /\ events \in Seq(EventType) /\ Len(events) <= EventSlots
  /\ ring \in Seq(Nat) /\ dequeue \in 0 .. Len(ring)
  /\ transfers \in Seq(Nat) /\ slots \in Nat

FlowTyped ==
  /\ kind3 \in [Ports -> Kinds]
  /\ port3 \in Nat /\ at3 \in X!Commands \union X!Requests \union {"next", "ready", "hung"}
  /\ call \in Nat /\ counted \in 0 .. Len(events) /\ slot \in Nat
  /\ keyboard3 \in BOOLEAN
  /\ left \in LeftType
  /\ strange \in BOOLEAN /\ mistaken \in BOOLEAN /\ unheard \in BOOLEAN /\ refused \in BOOLEAN

LastIsOurs == X!Waiting /\ ~strange /\ Len(events) > counted => events[Len(events)].call = call

InTransfers == \E n \in DOMAIN transfers : transfers[n] = call
Heard ==
  at3 \in X!Requests \ {"bulk"} => InTransfers \/ Len(events) > counted \/ Len(events) = EventSlots

XhciSound == ControllerTyped /\ FlowTyped /\ LastIsOurs /\ Heard /\ X!AnswerIsOurs

LEMMA XhciIsTyped == XhciSound => X!XhciType
<1>. SUFFICES ASSUME XhciSound PROVE X!XhciType
  OBVIOUS
<1>1. counted \in 0 .. EventSlots
  BY XhciAssumption DEF X!XhciConstants, XhciSound, ControllerTyped, FlowTyped
<1>2. {strange, mistaken, unheard, refused} \subseteq BOOLEAN
  BY Zenon DEF XhciSound, FlowTyped
<1>. QED  BY <1>1, <1>2, Zenon DEF XhciSound, ControllerTyped, FlowTyped, EventType, LeftType, X!XhciType

LEMMA XhciSoundInit == X!XhciInit => XhciSound
<1>. SUFFICES ASSUME X!XhciInit PROVE XhciSound
  OBVIOUS
<1>. USE XhciAssumption DEF X!XhciInit, X!XhciConstants
<1>1. ControllerTyped
  <2>1. Len(<<>>) = 0
    OBVIOUS
  <2>. QED  BY <2>1 DEF ControllerTyped
<1>2. FlowTyped
  <2>1. left \in LeftType
    BY DEF LeftType
  <2>2. 0 \in Nat /\ counted \in 0 .. Len(events)
    OBVIOUS
  <2>. QED  BY <2>1, <2>2, Zenon DEF FlowTyped
<1>3. LastIsOurs /\ Heard /\ X!AnswerIsOurs
  BY DEF LastIsOurs, Heard, X!AnswerIsOurs, X!Waiting, X!Commands, X!Controls, X!Requests
<1>. QED  BY <1>1, <1>2, <1>3 DEF XhciSound

(* An event that finds a place is the last one.                            *)
LEMMA EventAdded ==
  ASSUME ControllerTyped, NEW c \in Nat, NEW ok \in BOOLEAN, NEW s \in Nat, X!Event(c, ok, s)
  PROVE  /\ events' \in Seq(EventType) /\ Len(events') \in Nat /\ Len(events) \in Nat
         /\ Len(events') <= EventSlots /\ Len(events) <= Len(events')
         /\ \/ Len(events) = EventSlots /\ events' = events
            \/ Len(events') = Len(events) + 1 /\ events'[Len(events')].call = c
         /\ strange' = (strange \/ (c # call /\ X!Waiting))
<1>. DEFINE e == [call |-> c, ok |-> ok, slot |-> s]
<1>1. e \in EventType /\ e.call = c
  BY Zenon DEF EventType
<1>2. /\ events' = IF Len(events) < EventSlots THEN Append(events, e) ELSE events
      /\ strange' = (strange \/ (c # call /\ X!Waiting))
  BY DEF X!Event
<1>. HIDE DEF e
<1>3. EventSlots \in Nat /\ events \in Seq(EventType) /\ Len(events) <= EventSlots
  BY XhciAssumption DEF X!XhciConstants, ControllerTyped
<1>. QED  BY <1>1, <1>2, <1>3

LEMMA EventKeeps ==
  ASSUME XhciSound, NEW c \in Nat, NEW ok \in BOOLEAN, NEW s \in Nat, X!Event(c, ok, s),
         UNCHANGED <<kind3, ring, port3, at3, call, counted, slot, keyboard3, mistaken, unheard, refused>>,
         left' \in LeftType, slots' \in Nat, dequeue' \in 0 .. Len(ring), transfers' \in Seq(Nat),
         InTransfers => InTransfers' \/ c = call
  PROVE  XhciSound'
<1>. USE DEF XhciSound
<1>1. /\ events' \in Seq(EventType) /\ Len(events') \in Nat /\ Len(events) \in Nat
      /\ Len(events') <= EventSlots /\ Len(events) <= Len(events')
      /\ \/ Len(events) = EventSlots /\ events' = events
         \/ Len(events') = Len(events) + 1 /\ events'[Len(events')].call = c
  BY EventAdded
<1>2. strange' = (strange \/ (c # call /\ X!Waiting))
  BY EventAdded
<1>3. strange' \in BOOLEAN /\ (~strange' => ~strange /\ (c = call \/ ~X!Waiting))
  BY <1>2, Zenon DEF FlowTyped
<1>4. counted \in 0 .. Len(events) /\ EventSlots \in Nat
  BY XhciAssumption DEF FlowTyped, X!XhciConstants
<1>5. ControllerTyped'
  BY <1>1 DEF ControllerTyped
<1>6. FlowTyped'
  <2>1. counted' \in 0 .. Len(events')
    BY <1>1, <1>4
  <2>. QED  BY <1>3, <2>1, Zenon DEF FlowTyped
<1>7. LastIsOurs'
  BY <1>1, <1>3, <1>4 DEF LastIsOurs, X!Waiting
<1>8. Heard'
  BY <1>1, <1>4 DEF Heard
<1>9. X!AnswerIsOurs'
  BY <1>1, <1>4 DEF X!AnswerIsOurs
<1>. QED  BY <1>5, <1>6, <1>7, <1>8, <1>9

LEMMA XhciControllerKeeps ==
  ASSUME XhciSound, X!HostController
  PROVE  XhciSound'
<1>. USE XhciAssumption DEF XhciSound, X!XhciConstants
<1>0. UNCHANGED <<kind3, ring, port3, at3, call, counted, slot, keyboard3, mistaken, unheard, refused>>
  BY DEF X!HostController, X!flow
<1>t. /\ ring \in Seq(Nat) /\ dequeue \in 0 .. Len(ring) /\ transfers \in Seq(Nat) /\ slots \in Nat
      /\ left \in LeftType /\ slot \in Nat
  BY DEF ControllerTyped, FlowTyped
<1>1. CASE X!PortChanges
  <2>1. /\ left.changes > 0 /\ left' = [left EXCEPT !.changes = @ - 1] /\ X!Event(0, TRUE, 0)
        /\ UNCHANGED <<dequeue, transfers, slots>>
    BY <1>1 DEF X!PortChanges, X!Changed
  <2>2. left' \in LeftType
    <3>1. left.changes \in 0 .. MaxChanges
      BY <1>t DEF LeftType
    <3>2. left.changes - 1 \in 0 .. MaxChanges
      BY <2>1, <3>1
    <3>. QED  BY <1>t, <2>1, <3>2 DEF LeftType
  <2>3. InTransfers => InTransfers'
    BY <1>0, <2>1 DEF InTransfers
  <2>4. 0 \in Nat /\ TRUE \in BOOLEAN
    OBVIOUS
  <2>. QED  BY <1>0, <1>t, <2>1, <2>2, <2>3, <2>4, EventKeeps
<1>2. ASSUME NEW ok \in BOOLEAN, X!RunsCommand(ok)
      PROVE  XhciSound'
  <2>. DEFINE c == ring[dequeue + 1]
  <2>1. /\ dequeue < Len(ring) /\ dequeue' = dequeue + 1
        /\ slots' = IF c = call /\ at3 = "slot" /\ ok THEN slots + 1 ELSE slots
        /\ X!Event(c, ok, slots') /\ UNCHANGED <<transfers, left>>
    BY <1>2 DEF X!RunsCommand
  <2>2. c \in Nat /\ slots' \in Nat /\ dequeue' \in 0 .. Len(ring)
    BY <1>t, <2>1
  <2>3. InTransfers => InTransfers'
    BY <1>0, <2>1 DEF InTransfers
  <2>. HIDE DEF c
  <2>. QED  BY <1>0, <1>t, <2>1, <2>2, <2>3, EventKeeps
<1>3. ASSUME NEW ok \in BOOLEAN, X!RunsTransfer(ok)
      PROVE  XhciSound'
  <2>1. /\ transfers # <<>> /\ transfers' = Tail(transfers) /\ X!Event(Head(transfers), ok, slot)
        /\ UNCHANGED <<dequeue, slots, left>>
    BY <1>3 DEF X!RunsTransfer
  <2>2. /\ Head(transfers) \in Nat /\ transfers' \in Seq(Nat) /\ Len(transfers) \in Nat \ {0}
        /\ Len(transfers') = Len(transfers) - 1 /\ Head(transfers) = transfers[1]
        /\ \A i \in 1 .. Len(transfers) - 1 : transfers'[i] = transfers[i + 1]
    BY <1>t, <2>1
  <2>3. InTransfers => InTransfers' \/ Head(transfers) = call
    <3>. SUFFICES ASSUME NEW n \in DOMAIN transfers, transfers[n] = call, n # 1
                  PROVE  InTransfers'
      BY <2>2 DEF InTransfers
    <3>0. n \in 1 .. Len(transfers)
      BY <1>t
    <3>1. n - 1 \in 1 .. Len(transfers) - 1
      BY <2>2, <3>0
    <3>2. n - 1 \in DOMAIN transfers' /\ transfers'[n - 1] = call
      BY <2>2, <3>1
    <3>. QED  BY <1>0, <3>2 DEF InTransfers
  <2>. QED  BY <1>0, <1>t, <2>1, <2>2, <2>3, EventKeeps
<1>. QED  BY <1>1, <1>2, <1>3 DEF X!HostController

(* What the driver goes on with: nothing, a command or a request.          *)
GoesOn ==
  \/ \E name \in {"next", "ready", "hung"} : X!NoCall(name)
  \/ \E name \in X!Commands : X!Command(name)
  \/ \E name \in X!Requests : X!Request(name)

LEMMA GoesOnTyped ==
  ASSUME XhciSound, GoesOn, UNCHANGED events
  PROVE  /\ at3' \in X!Commands \union X!Requests \union {"next", "ready", "hung"}
         /\ call' \in Nat /\ ring' \in Seq(Nat) /\ Len(ring) <= Len(ring') /\ transfers' \in Seq(Nat)
         /\ at3' \in X!Requests \ {"bulk"} => InTransfers'
<1>. USE DEF XhciSound
<1>0. call \in Nat /\ ring \in Seq(Nat) /\ transfers \in Seq(Nat) /\ Len(ring) \in Nat
  BY DEF FlowTyped, ControllerTyped
<1>1. ASSUME NEW name \in {"next", "ready", "hung"}, X!NoCall(name)
      PROVE  /\ at3' = name /\ at3' \notin X!Requests /\ UNCHANGED <<call, ring, transfers>>
  BY <1>1 DEF X!NoCall, X!Controls, X!Requests
<1>2. ASSUME NEW name \in X!Commands, X!Command(name)
      PROVE  /\ at3' = name /\ at3' \notin X!Requests /\ call' = call + 1 /\ UNCHANGED transfers
             /\ ring' \in Seq(Nat) /\ Len(ring) <= Len(ring')
  <2>1. /\ at3' = name /\ call' = call + 1 /\ UNCHANGED transfers
        /\ ring' = ring \o IF name = "address" THEN <<call', 0>> ELSE <<call'>>
    BY <1>2 DEF X!Command, X!Stop
  <2>2. <<call', 0>> \in Seq(Nat) /\ <<call'>> \in Seq(Nat) /\ Len(<<call', 0>>) = 2 /\ Len(<<call'>>) = 1
    BY <1>0, <2>1
  <2>3. PICK s \in Seq(Nat) : ring' = ring \o s
    BY <2>1, <2>2
  <2>4. ring' \in Seq(Nat) /\ Len(ring) <= Len(ring')
    BY <1>0, <2>3
  <2>. QED  BY <2>1, <2>4 DEF X!Commands, X!Controls, X!Requests
<1>3. ASSUME NEW name \in X!Requests, X!Request(name)
      PROVE  /\ at3' = name /\ call' = call + 1 /\ UNCHANGED ring /\ transfers' \in Seq(Nat)
             /\ name # "bulk" => InTransfers'
  <2>1. /\ at3' = name /\ call' = call + 1 /\ UNCHANGED ring
        /\ transfers' = IF name = "bulk" THEN transfers ELSE Append(transfers, call')
    BY <1>3 DEF X!Request
  <2>2. transfers' \in Seq(Nat)
    BY <1>0, <2>1
  <2>3. ASSUME name # "bulk" PROVE InTransfers'
    <3>1. Len(transfers) + 1 \in DOMAIN transfers' /\ transfers'[Len(transfers) + 1] = call'
      BY <1>0, <2>1, <2>3
    <3>. QED  BY <3>1 DEF InTransfers
  <2>. QED  BY <2>1, <2>2, <2>3
<1>. QED  BY <1>0, <1>1, <1>2, <1>3 DEF GoesOn

LEMMA GoingOnKeeps ==
  ASSUME XhciSound, GoesOn, X!Count, UNCHANGED <<kind3, events, dequeue, slots>>,
         port3' \in Nat, slot' \in Nat, keyboard3' \in BOOLEAN, left' \in LeftType,
         strange' \in BOOLEAN, mistaken' \in BOOLEAN, ~mistaken', refused' \in BOOLEAN, unheard' \in BOOLEAN, unheard' => Len(events) = EventSlots
  PROVE  XhciSound'
<1>. USE DEF XhciSound
<1>1. /\ at3' \in X!Commands \union X!Requests \union {"next", "ready", "hung"}
      /\ call' \in Nat /\ ring' \in Seq(Nat) /\ Len(ring) <= Len(ring') /\ transfers' \in Seq(Nat)
      /\ at3' \in X!Requests \ {"bulk"} => InTransfers'
  BY GoesOnTyped
<1>2. Len(events) \in Nat /\ counted' = Len(events) /\ Len(ring) \in Nat /\ Len(ring') \in Nat
  BY <1>1 DEF X!Count, ControllerTyped
<1>3. ControllerTyped'
  BY <1>1, <1>2 DEF ControllerTyped
<1>4. FlowTyped'
  <2>1. counted' \in 0 .. Len(events')
    BY <1>2
  <2>. QED  BY <1>1, <2>1, Zenon DEF FlowTyped
<1>5. LastIsOurs'
  BY <1>2 DEF LastIsOurs
<1>6. Heard'
  BY <1>1 DEF Heard
<1>7. X!AnswerIsOurs'
  BY DEF X!AnswerIsOurs
<1>. QED  BY <1>3, <1>4, <1>5, <1>6, <1>7

LEMMA FailsGoesOn ==
  ASSUME XhciSound, X!Fails
  PROVE  GoesOn /\ port3' \in Nat /\ UNCHANGED <<slot, keyboard3>>
<1>0. port3 \in Nat
  BY DEF XhciSound, FlowTyped
<1>1. CASE X!Leave
  BY <1>0, <1>1 DEF X!Leave, GoesOn
<1>2. CASE X!NoCall("hung") /\ UNCHANGED <<port3, slot, keyboard3>>
  BY <1>0, <1>2 DEF GoesOn
<1>. QED  BY <1>1, <1>2 DEF X!Fails

LEMMA SucceedsGoesOn ==
  ASSUME XhciSound, X!Waiting, NEW s \in Nat, X!Succeeds(s)
  PROVE  GoesOn /\ port3' \in Nat /\ slot' \in Nat /\ keyboard3' \in BOOLEAN
<1>. USE DEF X!Commands, X!Controls, X!Requests
<1>0. port3 \in Nat /\ slot \in Nat /\ keyboard3 \in BOOLEAN
  BY DEF XhciSound, FlowTyped
<1>1. CASE X!Leave
  BY <1>0, <1>1 DEF X!Leave, GoesOn
<1>2. CASE slot' = s /\ X!xhci_set_address /\ UNCHANGED <<port3, keyboard3>>
  BY <1>0, <1>2 DEF X!xhci_set_address, GoesOn
<1>3. CASE X!NoCall("next") /\ port3' = port3 + 1 /\ keyboard3' = TRUE /\ UNCHANGED slot
  BY <1>0, <1>3 DEF GoesOn
<1>4. CASE /\ \/ X!GetDescriptor \/ X!GetConfiguration \/ X!Install \/ X!NoCall("ready")
              \/ X!Request("bulk") \/ X!NoCall("hung")
           /\ UNCHANGED <<port3, slot, keyboard3>>
  <2>1. GoesOn
    BY <1>4 DEF X!GetDescriptor, X!GetConfiguration, X!Install, GoesOn
  <2>. QED  BY <1>0, <1>4, <2>1
<1>. QED  BY <1>1, <1>2, <1>3, <1>4 DEF X!Succeeds

LEMMA XhciDriverKeeps ==
  ASSUME XhciSound, X!XhciDriver \/ X!Poll
  PROVE  XhciSound'
<1>. USE XhciAssumption DEF XhciSound, X!XhciConstants
<1>0. /\ port3 \in Nat /\ slot \in Nat /\ keyboard3 \in BOOLEAN /\ left \in LeftType
      /\ strange \in BOOLEAN /\ mistaken \in BOOLEAN /\ unheard \in BOOLEAN /\ refused \in BOOLEAN
      /\ ~mistaken /\ (unheard => Len(events) = EventSlots)
  BY DEF FlowTyped, X!AnswerIsOurs
<1>1. CASE X!Probe
  <2>1. X!Count /\ UNCHANGED <<kind3, events, dequeue, slots, left, strange, mistaken, unheard, refused>>
    BY <1>1 DEF X!Probe, X!history
  <2>2. GoesOn /\ port3' \in Nat /\ UNCHANGED <<slot, keyboard3>>
    BY <1>0, <1>1 DEF X!Probe, X!Leave, X!xhci_enable_slot, GoesOn, X!Commands
  <2>. QED  BY <1>0, <2>1, <2>2, GoingOnKeeps
<1>2. CASE X!Answer
  <2>. DEFINE answer == events[Len(events)]
  <2>1. /\ X!Waiting /\ Len(events) > counted
        /\ IF answer.ok THEN X!Succeeds(answer.slot) ELSE X!Fails
        /\ mistaken' = (mistaken \/ (answer.call # call /\ ~strange))
        /\ X!Count /\ strange' = FALSE /\ UNCHANGED <<kind3, events, dequeue, slots, left, unheard>>
        /\ refused' = (refused \/ (at3 \in X!Controls /\ ~answer.ok))
    BY <1>2 DEF X!Answer
  <2>2. answer.slot \in Nat
    <3>1. events \in Seq(EventType) /\ Len(events) \in Nat /\ counted \in Nat
      BY DEF ControllerTyped, FlowTyped
    <3>2. answer \in EventType
      BY <2>1, <3>1
    <3>. QED  BY <3>2, Zenon DEF EventType
  <2>3. ~strange => answer.call = call
    BY <2>1 DEF LastIsOurs
  <2>4. mistaken' \in BOOLEAN /\ ~mistaken' /\ refused' \in BOOLEAN
    BY <1>0, <2>1, <2>3, Zenon
  <2>5. GoesOn /\ port3' \in Nat /\ slot' \in Nat /\ keyboard3' \in BOOLEAN
    BY <1>0, <2>1, <2>2, SucceedsGoesOn, FailsGoesOn
  <2>. HIDE DEF answer
  <2>. QED  BY <1>0, <2>1, <2>4, <2>5, GoingOnKeeps
<1>3. CASE X!TimesOut
  <2>1. /\ X!Waiting /\ Len(events) = counted
        /\ IF X!Pending THEN left.late > 0 /\ left' = [left EXCEPT !.late = @ - 1] ELSE UNCHANGED left
        /\ unheard' = (unheard \/ (at3 \in X!Requests \ {"bulk"} /\ ~X!Pending))
        /\ refused' = (refused \/ at3 \in X!Controls)
        /\ X!Fails /\ X!Count /\ strange' = FALSE /\ UNCHANGED <<kind3, events, dequeue, slots, mistaken>>
    BY <1>3 DEF X!TimesOut
  <2>2. left' \in LeftType
    <3>1. left.late \in 0 .. MaxLate
      BY <1>0 DEF LeftType
    <3>2. CASE X!Pending
      <4>1. left' = [left EXCEPT !.late = left.late - 1] /\ left.late - 1 \in 0 .. MaxLate
        BY <2>1, <3>1, <3>2
      <4>. QED  BY <1>0, <4>1 DEF LeftType
    <3>. QED  BY <1>0, <2>1, <3>2
  <2>3. InTransfers => X!Pending
    BY Zenon DEF InTransfers, X!Pending
  <2>4. at3 \in X!Requests \ {"bulk"} /\ ~X!Pending => Len(events) = EventSlots
    <3>1. ~(Len(events) > counted)
      BY <2>1 DEF ControllerTyped
    <3>. QED  BY <2>3, <3>1 DEF Heard
  <2>5. unheard' \in BOOLEAN /\ refused' \in BOOLEAN /\ (unheard' => Len(events) = EventSlots)
    <3>1. unheard' => unheard \/ (at3 \in X!Requests \ {"bulk"} /\ ~X!Pending)
      BY <2>1, Zenon
    <3>2. unheard' \in BOOLEAN /\ refused' \in BOOLEAN
      BY <2>1, Zenon
    <3>. QED  BY <1>0, <2>4, <3>1, <3>2
  <2>6. GoesOn /\ port3' \in Nat /\ UNCHANGED <<slot, keyboard3>>
    BY <2>1, FailsGoesOn
  <2>. QED  BY <1>0, <2>1, <2>2, <2>5, <2>6, GoingOnKeeps
<1>4. CASE X!Poll
  <2>1. /\ left.polls > 0 /\ left' = [left EXCEPT !.polls = @ - 1] /\ X!Request("poll") /\ X!Count
        /\ UNCHANGED <<kind3, events, dequeue, slots, port3, slot, keyboard3, strange, mistaken, unheard, refused>>
    BY <1>4 DEF X!Poll, X!history
  <2>2. left' \in LeftType
    <3>1. left.polls \in 0 .. MaxPolls
      BY <1>0 DEF LeftType
    <3>2. left.polls - 1 \in 0 .. MaxPolls
      BY <2>1, <3>1, EhciAssumption
    <3>. QED  BY <1>0, <2>1, <3>2 DEF LeftType
  <2>3. GoesOn
    BY <2>1 DEF GoesOn, X!Controls, X!Requests
  <2>. QED  BY <1>0, <2>1, <2>2, <2>3, GoingOnKeeps
<1>. QED  BY <1>1, <1>2, <1>3, <1>4 DEF X!XhciDriver

LEMMA XhciSoundStep ==
  ASSUME XhciSound, [X!XhciNext]_(X!xhciVars)
  PROVE  XhciSound'
<1>1. CASE X!HostController
  BY <1>1, XhciControllerKeeps
<1>2. CASE X!XhciDriver \/ X!Poll
  BY <1>2, XhciDriverKeeps
<1>3. CASE UNCHANGED X!xhciVars
  <2>1. /\ UNCHANGED <<kind3, events, dequeue, transfers, slots, ring, port3, at3, call, counted, slot, keyboard3>>
        /\ UNCHANGED <<left, strange, mistaken, unheard, refused>>
    BY <1>3 DEF X!xhciVars, X!controller, X!flow, X!history
  <2>. QED  BY <2>1 DEF XhciSound, ControllerTyped, FlowTyped, LastIsOurs, Heard, InTransfers, X!AnswerIsOurs, X!Waiting
<1>. QED  BY <1>1, <1>2, <1>3 DEF X!XhciNext

-----------------------------------------------------------------------------
(* Both in one behaviour.                                                  *)
UsbSound == EhciSound /\ XhciSound

LEMMA UsbSoundInit == MCInit => UsbSound
BY EhciSoundInit, XhciSoundInit DEF MCInit, UsbSound

LEMMA UsbSoundStep ==
  ASSUME UsbSound, [MCNext]_usbVars
  PROVE  UsbSound'
<1>1. UNCHANGED xhci => UNCHANGED X!xhciVars
  BY DEF xhci, X!xhciVars, X!controller, X!flow, X!history
<1>2. [EhciNext]_ehciVars /\ [X!XhciNext]_(X!xhciVars)
  BY <1>1 DEF MCNext, OfEhci, OfXhci, usbVars
<1>. QED  BY <1>2, EhciSoundStep, XhciSoundStep DEF UsbSound

LEMMA UsbSoundAlways == MCSpec => []UsbSound
BY UsbSoundInit, UsbSoundStep, PTL DEF MCSpec

(* No device answers to the address of an installed one, but one on a port *)
(* that was given up: the address is counted on at the end of              *)
(* init_ehci_port only (ehci.c:764), for any number of ports and whatever  *)
(* the devices on them do.                                                 *)
THEOREM DevicesApart == MCSpec => []AddressesApart
<1>1. UsbSound => AddressesApart
  BY EhciAreApart DEF UsbSound
<1>. QED  BY <1>1, UsbSoundAlways, PTL

(* Data arrive while their call waits, although the list is freed without  *)
(* waiting for the controller to stop (ehci.c:473-484), unless a call came *)
(* back with an error.                                                     *)
THEOREM EhciDataComesInTime == MCSpec => []UsbDataInTime
<1>1. UsbSound => UsbDataInTime
  BY DEF UsbSound, EhciSound, InTime, UsbDataInTime
<1>. QED  BY <1>1, UsbSoundAlways, PTL

(* The last event of the ring is the answer to the call that waits, unless *)
(* an event of something else came (xhci.c:531-546,628-665), and a request *)
(* that was carried out is not taken for one that failed before the ring   *)
(* of events is full (xhci.c:493).                                         *)
THEOREM EventIsTheAnswer == MCSpec => []AnswerIsOurs
<1>1. UsbSound => AnswerIsOurs
  BY EhciIsTyped, XhciIsTyped DEF UsbSound, XhciSound, AnswerIsOurs
<1>. QED  BY <1>1, UsbSoundAlways, PTL
=============================================================================
