-------------------------------- MODULE Ps2 ---------------------------------
(***************************************************************************)
(* kernel/dev/ps2.c, keywait of kernel/hal/i386/isr.asm and draw of        *)
(* kernel/dev/video.c: the keyboard, the mouse, and the cursor on screen.  *)
(*                                                                         *)
(* Two interrupt handlers work for one main flow.  That of the keyboard    *)
(* puts the last key into keyword, a mailbox of one key; the main flow     *)
(* takes it out by keywait (getch), by READ from handle 1 and by           *)
(* getInputStatus, reading and clearing it in two steps.  The mouse sends  *)
(* packets of three bytes, flags and how far it moved; its handler         *)
(* collects them, finds out which of the three is the flags, and draws     *)
(* the cursor, keeping the pixels under it.  getInputStatus draws it as    *)
(* well, on the same variables.  A handler may run between any two steps   *)
(* of the main flow.                                                       *)
(*                                                                         *)
(* A key is known by its place among the codes sent.  The cursor, 8 by 6   *)
(* pixels, is one pixel.                                                   *)
(***************************************************************************)
EXTENDS Integers, Sequences

CONSTANTS
  MinX, MaxX, MinY, MaxY,  (* where the cursor may be                      *)
  Moves,       (* how far the mouse moves at once, either way              *)
  Buttons,     (* the buttons held down: 1 left, 2 right, 4 middle, added  *)
  Leading,     (* what the controller may hold before the first packet     *)
  Pictures,    (* the pictures on the screen; 0 is black                   *)
  MaxEvents    (* bound: codes and packets sent, and pictures drawn        *)

Pixels == (MinX .. MaxX) \X (MinY .. MaxY)
Cursor == 10

(* The first byte of a packet: bit 3 is always set, below it are the       *)
(* buttons, above it the signs of the two moves.                           *)
Signs(dx, dy) == (IF dx < 0 THEN 16 ELSE 0) + (IF dy < 0 THEN 32 ELSE 0)
Flags(button, dx, dy) == 8 + button + Signs(dx, dy)
Bytes == Moves \union 8 .. 63

(* A move fits into a byte with its sign.                                  *)
ASSUME ConstantsAssumption ==
  /\ {MinX, MaxX, MinY, MaxY} \subseteq Int /\ MinX <= MaxX /\ MinY <= MaxY
  /\ Moves \subseteq -128 .. 127 /\ Buttons \subseteq 0 .. 7
  /\ Leading \subseteq {<<>>} \union {<<m>> : m \in Moves}
  /\ Pictures \subseteq [Pixels -> Nat \ {Cursor}]
  /\ MaxEvents \in Nat

VARIABLES
  codes,       (* the codes sent: "key", "shift", "release", "unmapped"    *)
  handled,     (* how many of them the handler has read                    *)
  keyword, keyword_shift,  (* the mailbox, a key and its case or NoKey     *)
  wire,        (* bytes of the mouse the controller holds                  *)
  mouse_cycle, mouse_byte, mousetype,
  x, y, clck,  (* ccr_x, ccr_y and the button                              *)
  screen,      (* the pixels                                               *)
  under,       (* mousebuffer: the pixel under the cursor                  *)
  oldx, oldy, resample,
  pc, al,      (* the main flow; the key it has read from the mailbox      *)
  read,        (* the keys its callers got                                 *)
  history      (* events: codes, packets, pictures; shifted: the stream    *)
               (* began with a byte of no packet; plain, misled: a packet  *)
               (* with no button and no move back was sent, and one before *)
               (* it that moved by 8 in x; target: where the moves lead    *)
               (* from the first plain packet on; picture: the screen without a cursor; spoilt: see  *)
               (* ScreenIsKept                                             *)

keys == <<codes, handled, keyword, keyword_shift>>
mouse == <<wire, mouse_cycle, mouse_byte, mousetype, x, y, clck>>
drawn == <<screen, under, oldx, oldy, resample>>
flow == <<pc, al, read>>
vars == <<keys, mouse, drawn, flow, history>>

NoKey == [code |-> 0, shifted |-> FALSE]
Keys == [code : 1 .. MaxEvents, shifted : BOOLEAN]
Codes == {"key", "shift", "release", "unmapped"}

TypeOK ==
  /\ codes \in Seq(Codes) /\ handled \in 0 .. Len(codes)
  /\ keyword \in Keys \union {NoKey} /\ keyword_shift \in BOOLEAN
  /\ wire \in Seq(Bytes) /\ mouse_cycle \in 0 .. 2
  /\ mouse_byte \in [0 .. 2 -> Bytes \union {0}] /\ mousetype \in 0 .. 2
  /\ x \in MinX .. MaxX /\ y \in MinY .. MaxY /\ clck \in 0 .. 3
  /\ DOMAIN screen = Pixels /\ <<oldx, oldy>> \in Pixels /\ resample \in BOOLEAN
  /\ pc \in {"idle", "poll", "take", "look", "save", "draw", "status", "clear", "picture"}
  /\ al \in Keys \union {NoKey} /\ read \in Seq(Keys)

Init ==
  /\ codes = <<>> /\ handled = 0 /\ keyword = NoKey /\ keyword_shift = FALSE
  /\ wire \in Leading
  /\ mouse_cycle = 0 /\ mouse_byte = [i \in 0 .. 2 |-> 0] /\ mousetype = 0
  /\ x = MinX /\ y = MinY /\ clck = 0
  /\ screen \in Pictures
  /\ under = 0 /\ oldx = MinX /\ oldy = MinY /\ resample = TRUE
  /\ pc = "idle" /\ al = NoKey /\ read = <<>>
  /\ history = [events |-> 0, shifted |-> wire # <<>>, plain |-> FALSE, misled |-> FALSE, target |-> <<MinX, MinY>>,
                picture |-> screen, spoilt |-> FALSE]

-----------------------------------------------------------------------------
(* Keys and packets arrive.                                                *)
Between(v, low, high) == IF v < low THEN low ELSE IF v > high THEN high ELSE v

Another == history.events < MaxEvents

Sends(c) ==
  /\ Another
  /\ codes' = Append(codes, c)
  /\ history' = [history EXCEPT !.events = @ + 1]
  /\ UNCHANGED <<handled, keyword, keyword_shift, mouse, drawn, flow>>

(* The mouse was moved, with buttons up or down.                           *)
Packet(button, dx, dy) ==
  LET plain == history.plain \/ Flags(button, dx, dy) = 8 IN
    /\ Another /\ Len(wire) <= 1
    /\ wire' = wire \o <<Flags(button, dx, dy), dx, dy>>
    /\ history' = [history EXCEPT !.events = @ + 1, !.plain = plain, !.misled = @ \/ (~plain /\ dx = 8),
                     !.target = IF plain
                                THEN <<Between(@[1] + dx, MinX, MaxX), Between(@[2] + dy, MinY, MaxY)>>
                                ELSE @]
    /\ UNCHANGED <<keys, mouse_cycle, mouse_byte, mousetype, x, y, clck, drawn, flow>>

-----------------------------------------------------------------------------
(* The handlers.                                                           *)
(* Mutant: the code after shift only ends it.                              *)
KeyAfter_Swallow(c) ==
  CASE c = "release"  -> [word |-> keyword, shift |-> keyword_shift]
    [] c = "shift"    -> [word |-> keyword, shift |-> TRUE]
    [] c = "unmapped" -> [word |-> NoKey, shift |-> FALSE]
    [] keyword_shift  -> [word |-> keyword, shift |-> FALSE]
    [] OTHER -> [word |-> [code |-> handled + 1, shifted |-> FALSE], shift |-> FALSE]

(* A release is passed over; shift is remembered for the next key; a key   *)
(* that stands for nothing (0 in kbdus) empties the mailbox.               *)
KeyAfter(c) ==
  CASE c = "release"  -> [word |-> keyword, shift |-> keyword_shift]
    [] c = "shift"    -> [word |-> keyword, shift |-> TRUE]
    [] c = "unmapped" -> [word |-> NoKey, shift |-> FALSE]
    [] OTHER -> [word |-> [code |-> handled + 1, shifted |-> keyword_shift], shift |-> FALSE]

irq_keyboard ==
  /\ handled < Len(codes)
  /\ handled' = handled + 1
  /\ keyword' = KeyAfter(codes[handled + 1]).word
  /\ keyword_shift' = KeyAfter(codes[handled + 1]).shift
  /\ UNCHANGED <<codes, mouse, drawn, flow, history>>

(* update_drawable_mouse puts back the pixel under the cursor, unless it   *)
(* is 0 or a new picture is on the screen, *)
Restored == IF under # 0 /\ ~resample THEN [screen EXCEPT ![<<oldx, oldy>>] = under] ELSE screen

(* Mutant: the pixel under the new place is kept before the old one is put *)
(* back.                                                                   *)
Update_SaveFirst(px, py) ==
  /\ under' = screen[<<px, py>>]
  /\ screen' = [Restored EXCEPT ![<<px, py>>] = Cursor]
  /\ oldx' = px /\ oldy' = py /\ resample' = FALSE

(* keeps the pixel under the new place, and draws there.                   *)
Update(px, py) ==
  /\ under' = Restored[<<px, py>>]
  /\ screen' = [Restored EXCEPT ![<<px, py>>] = Cursor]
  /\ oldx' = px /\ oldy' = py /\ resample' = FALSE

(* The cursor on a black pixel is not taken away (ps2.c:214).              *)
Black == under = 0 /\ ~resample

(* Mutant: the two types are confused.                                     *)
TypeFrom_Swapped(bytes) ==
  IF mousetype # 0 THEN mousetype ELSE IF bytes[0] = 8 THEN 2 ELSE IF bytes[1] = 8 THEN 1 ELSE 0

(* A third byte ends a packet.  The first whose flags are 8 and no more    *)
(* tells the type - or whose second byte is 8, be it the move in x.        *)
TypeFrom(bytes) ==
  IF mousetype # 0 THEN mousetype ELSE IF bytes[0] = 8 THEN 1 ELSE IF bytes[1] = 8 THEN 2 ELSE 0

(* The last of the buttons set; none changes nothing.                      *)
Bit(byte, b) == (byte \div b) % 2 = 1
Clicked(flags) ==
  IF Bit(flags, 4) THEN 3 ELSE IF Bit(flags, 2) THEN 2 ELSE IF Bit(flags, 1) THEN 1 ELSE clck

NextCycle == (mouse_cycle + 1) % 3

(* With type 2 the first byte is taken for x and the second for the flags; *)
(* until there is a type a packet is left out.                             *)
irq_mouse ==
  /\ wire # <<>>
  /\ wire' = Tail(wire)
  /\ mouse_byte' = [mouse_byte EXCEPT ![mouse_cycle] = Head(wire)]
  /\ mouse_cycle' = NextCycle
  /\ LET whole == mouse_cycle = 2
         type == IF whole THEN TypeFrom(mouse_byte') ELSE mousetype
         moved == whole /\ type # 0
     IN /\ mousetype' = type
        /\ x' = Between(IF moved THEN x + mouse_byte'[2 - type] ELSE x, MinX, MaxX)
        /\ y' = Between(IF moved THEN y + mouse_byte'[2] ELSE y, MinY, MaxY)
        /\ clck' = IF moved THEN Clicked(mouse_byte'[type - 1]) ELSE clck
  /\ Update(x', y')
  /\ history' = [history EXCEPT !.spoilt = @ \/ Black \/ pc \in {"save", "draw", "picture"}]
  /\ UNCHANGED <<keys, flow>>

-----------------------------------------------------------------------------
(* getch: keywait clears the mailbox, *)
keywait ==
  /\ pc = "idle"
  /\ keyword' = NoKey
  /\ pc' = "poll"
  /\ UNCHANGED <<codes, handled, keyword_shift, mouse, drawn, al, read, history>>

(* waits until it is not empty, *)
Poll ==
  /\ pc = "poll"
  /\ keyword # NoKey
  /\ al' = keyword
  /\ pc' = "take"
  /\ UNCHANGED <<keys, mouse, drawn, read, history>>

(* clears it and returns.                                                  *)
Take ==
  /\ pc = "take"
  /\ keyword' = NoKey
  /\ read' = Append(read, al)
  /\ pc' = "idle" /\ al' = NoKey
  /\ UNCHANGED <<codes, handled, keyword_shift, mouse, drawn, history>>

(* READ from handle 1 looks into the mailbox, *)
Look ==
  /\ pc = "idle"
  /\ al' = keyword
  /\ pc' = "look"
  /\ UNCHANGED <<keys, mouse, drawn, read, history>>

(* and clears it.                                                          *)
LookEnds ==
  /\ pc = "look"
  /\ keyword' = NoKey
  /\ read' = IF al = NoKey THEN read ELSE Append(read, al)
  /\ pc' = "idle" /\ al' = NoKey
  /\ UNCHANGED <<codes, handled, keyword_shift, mouse, drawn, history>>

(* getInputStatus draws the cursor step by step, *)
DrawBegins ==
  /\ pc = "idle"
  /\ screen' = Restored /\ resample' = FALSE
  /\ pc' = "save"
  /\ history' = [history EXCEPT !.spoilt = @ \/ Black]
  /\ UNCHANGED <<keys, mouse, under, oldx, oldy, al, read>>

DrawSaves ==
  /\ pc = "save"
  /\ under' = screen[<<x, y>>]
  /\ pc' = "draw"
  /\ UNCHANGED <<keys, mouse, screen, oldx, oldy, resample, al, read, history>>

DrawEnds ==
  /\ pc = "draw"
  /\ screen' = [screen EXCEPT ![<<x, y>>] = Cursor]
  /\ oldx' = x /\ oldy' = y
  /\ pc' = "status"
  /\ UNCHANGED <<keys, mouse, under, resample, al, read, history>>

(* reads the place, the button and the mailbox, *)
StatusReads ==
  /\ pc = "status"
  /\ al' = keyword
  /\ pc' = "clear"
  /\ UNCHANGED <<keys, mouse, drawn, read, history>>

(* Mutant: a key is not cleared.                                           *)
StatusClears_Not ==
  /\ pc = "clear"
  /\ clck' = 0
  /\ read' = IF al = NoKey THEN read ELSE Append(read, al)
  /\ pc' = "idle" /\ al' = NoKey
  /\ UNCHANGED <<keys, wire, mouse_cycle, mouse_byte, mousetype, x, y, drawn, history>>

(* clears the two and returns.                                             *)
StatusClears ==
  /\ pc = "clear"
  /\ keyword' = NoKey /\ clck' = 0
  /\ read' = IF al = NoKey THEN read ELSE Append(read, al)
  /\ pc' = "idle" /\ al' = NoKey
  /\ UNCHANGED <<codes, handled, keyword_shift, wire, mouse_cycle, mouse_byte, mousetype, x, y, drawn, history>>

getInputStatus == DrawBegins \/ DrawSaves \/ DrawEnds \/ StatusReads \/ StatusClears

(* draw of video.c paints the whole screen, *)
Paints(picture) ==
  /\ pc = "idle" /\ Another
  /\ screen' = picture
  /\ pc' = "picture"
  /\ history' = [history EXCEPT !.events = @ + 1, !.picture = picture, !.spoilt = FALSE]
  /\ UNCHANGED <<keys, mouse, under, oldx, oldy, resample, al, read>>

(* and forgets the pixel under the cursor.                                 *)
force_mouse_resample ==
  /\ pc = "picture"
  /\ resample' = TRUE
  /\ pc' = "idle"
  /\ UNCHANGED <<keys, mouse, screen, under, oldx, oldy, al, read, history>>

Next ==
  \/ \E c \in Codes : Sends(c)
  \/ \E button \in Buttons, dx, dy \in Moves : Packet(button, dx, dy)
  \/ irq_keyboard \/ irq_mouse
  \/ keywait \/ Poll \/ Take
  \/ Look \/ LookEnds
  \/ getInputStatus
  \/ (\E picture \in Pictures : Paints(picture)) \/ force_mouse_resample

Spec == Init /\ [][Next]_vars

(* Interrupts are handled; a call goes on.                                 *)
FairSpec == Spec /\ WF_vars(irq_keyboard) /\ WF_vars(Poll \/ Take)

-----------------------------------------------------------------------------
(* A caller gets no release and no shift, and the upper case of a key when *)
(* the key was preceded by shift, be it released meanwhile (ps2.c:343-350). *)
ShiftGoesWithNext ==
  \A i \in DOMAIN read :
    LET n == read[i].code
    IN /\ codes[n] = "key"
       /\ read[i].shifted <=>
            \E s \in 1 .. n - 1 : codes[s] = "shift" /\ \A t \in s + 1 .. n - 1 : codes[t] \in {"shift", "release"}

(* Callers of getch, getInputStatus and READ get keys in the order they    *)
(* were pressed, and none twice, whenever the handler runs (ps2.c:455-491, *)
(* isr.asm:100-111); each with the shift it was pressed with.              *)
KeysInOrder ==
  /\ TypeOK
  /\ \A i, j \in DOMAIN read : i < j => read[i].code < read[j].code
  /\ ShiftGoesWithNext

(* Who waits for a key gets one when one is pressed while he waits, unless *)
(* a key that stands for nothing follows it (isr.asm:103-106, ps2.c:350).  *)
WaiterWakes ==
  \A n \in 1 .. MaxEvents :
    pc = "poll" /\ n \in handled + 1 .. Len(codes) /\ codes[n] = "key"
      ~> \/ pc = "idle"
         \/ \E m \in n + 1 .. Len(codes) : codes[m] = "unmapped"

(* When all that the mouse sent was read, the cursor is where its moves    *)
(* led since the first packet without a button and a move back, whatever   *)
(* the main flow was doing, for a stream that begins with a packet         *)
(* (ps2.c:131-180).  What came before that packet is lost, and if it moved *)
(* by 8 in x the axes are exchanged for ever (ps2.c:147), as with a byte   *)
(* too many at the head.                                                   *)
PositionFollows == wire = <<>> /\ ~history.shifted /\ ~history.misled => <<x, y>> = history.target

(* The screen is the picture painted last with one cursor on it, wherever  *)
(* the cursor was in between (ps2.c:213-260, video.c:27-40).  Excepted,    *)
(* until a picture is painted without a disturbance: after the cursor was  *)
(* on a black pixel, and after the handler ran while the main flow drew.   *)
ScreenIsKept ==
  pc = "idle" /\ ~history.spoilt =>
    screen = IF resample THEN history.picture
             ELSE [history.picture EXCEPT ![<<oldx, oldy>>] = Cursor]
=============================================================================
