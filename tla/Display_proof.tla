---------------------------- MODULE Display_proof ----------------------------
(* Theorems about Display, for every size of the screen that is as wide as *)
(* a glyph, all texts and all messages of the handler; and, of the numbers *)
(* printed, for every width of a word and every buffer that fits it.       *)
EXTENDS Display, NatFacts, SequenceTheorems

Fits == cursor_x + font_width <= fb_width

(* What the cursor and the registers are.                                  *)
Cells ==
  /\ TypeOK
  /\ x \in Nat /\ x % font_width = 0 /\ y \in Nat /\ y % line_height = 0
  /\ drawn \subseteq Nat \X Nat
  /\ message \in Seq(Nat) /\ \A i \in 1 .. Len(message) : message[i] # tab

(* A glyph has room unless the wrap is still to come, and then what it     *)
(* tests is the cursor, or the handler has wrapped it.                     *)
Heals ==
  /\ step = "next" => tabbed \/ Fits
  /\ step \in {"newline", "clear_y"} => Fits
  /\ step = "wrap" => Fits \/ cursor_x = x

Before(cx, cy) == \A g \in drawn : g[2] < cy \/ (g[2] = cy /\ g[1] < cx)

(* As long as the handler kept out of fb_putchar and fb_clear, the glyphs  *)
(* are before the cursor in reading order.                                 *)
Reading ==
  ~raced =>
    /\ over = FALSE
    /\ message # <<>> => step = "next"
    /\ step \in {"next", "wrap"} => Before(cursor_x, cursor_y)
    /\ step = "newline" => Before(0, cursor_y + 1)
    /\ step = "advance" => Before(cursor_x + 1, cursor_y)
    /\ step \in {"advance", "wrap"} => x = cursor_x /\ y = cursor_y
    /\ step \in {"clear_x", "clear_y"} => drawn = {}

IInv == Cells /\ Heals /\ Reading

-----------------------------------------------------------------------------
(* The next column is on the grid, and so are the next line and four       *)
(* columns on.                                                             *)
LEMMA Grid ==
  /\ \A n \in Nat : n % font_width = 0
       => (n + font_width) % font_width = 0 /\ (n + 4 * font_width) % font_width = 0
  /\ \A n \in Nat : n % line_height = 0 => (n + line_height) % line_height = 0
  /\ 0 % font_width = 0 /\ 0 % line_height = 0
  BY DEF font_width, line_height

(* What is left of a message after its first character is a message, and   *)
(* that character is not a tab.                                            *)
LEMMA RestOfMessage ==
  ASSUME NEW m \in Seq(Nat), m # <<>>, \A i \in 1 .. Len(m) : m[i] # tab
  PROVE  /\ Head(m) # tab /\ Tail(m) \in Seq(Nat)
         /\ \A i \in 1 .. Len(Tail(m)) : Tail(m)[i] # tab
<1>1. Len(m) \in Nat \ {0} /\ Head(m) = m[1]
  OBVIOUS
<1>2. Tail(m) \in Seq(Nat) /\ Len(Tail(m)) = Len(m) - 1
  OBVIOUS
<1>3. \A i \in 1 .. Len(m) - 1 : Tail(m)[i] = m[i + 1]
  OBVIOUS
<1> QED
  BY <1>1, <1>2, <1>3

(* The sequence the handler is given is such a message.                    *)
LEMMA MessageFact ==
  ASSUME NEW m \in Messages
  PROVE  m \in Seq(Nat) /\ \A i \in 1 .. Len(m) : m[i] # tab
<1>1. m \in Seq(Nat) /\ tab \notin ToSet(m)
  BY DisplayAssumption
<1>2. \A i \in 1 .. Len(m) : m[i] \in ToSet(m)
  BY <1>1 DEF ToSet
<1> QED
  BY <1>1, <1>2

(* A place that is seen is the cursor's, inside the screen.                *)
LEMMA SeenFact ==
  ASSUME NEW cx \in Nat, NEW cy \in Nat
  PROVE  \A g \in Seen(cx, cy) : /\ g = <<cx, cy>> /\ g[1] = cx /\ g[2] = cy
                                 /\ g[1] < fb_width /\ g[2] < fb_height
                                 /\ g \in Nat \X Nat
  BY DEF Seen

-----------------------------------------------------------------------------
(* A new screen.                                                           *)
LEMMA InitInv == Init => IInv
<1> SUFFICES ASSUME Init PROVE IInv
  OBVIOUS
<1>1. Cells
  <2>1. TypeOK
    BY Grid DEF Init, TypeOK
  <2> QED BY <2>1, Grid DEF Init, Cells
<1>2. Heals
  BY DisplayAssumption DEF Init, Heals, Fits, font_width
<1>3. Reading
  BY DEF Init, Reading, Before
<1> QED
  BY <1>1, <1>2, <1>3 DEF IInv

(* A glyph drawn at the cursor is one more, on the screen.                 *)
LEMMA DrawStep ==
  ASSUME Cells, Draw
  PROVE  /\ drawn' \subseteq Nat \X Nat
         /\ \A g \in drawn' : g[1] < fb_width /\ g[2] < fb_height
         /\ over' \in BOOLEAN
         /\ Before(cursor_x, cursor_y) /\ over = FALSE
              => /\ over' = FALSE
                 /\ \A g \in drawn' : \/ g[2] < cursor_y
                                      \/ g[2] = cursor_y /\ g[1] <= cursor_x
<1> DEFINE S == Seen(cursor_x, cursor_y)
<1>1. cursor_x \in Nat /\ cursor_y \in Nat /\ over \in BOOLEAN /\ drawn \subseteq Nat \X Nat
      /\ \A g \in drawn : g[1] < fb_width /\ g[2] < fb_height
  BY DEF Cells, TypeOK
<1>2. \A g \in S : /\ g[1] = cursor_x /\ g[2] = cursor_y
                   /\ g[1] < fb_width /\ g[2] < fb_height /\ g \in Nat \X Nat
  BY <1>1, SeenFact
<1> HIDE DEF S
<1>3. drawn' = drawn \cup S /\ over' = (over \/ S \cap drawn # {})
  BY DEF Draw, S
<1>4. drawn' \subseteq Nat \X Nat /\ \A g \in drawn' : g[1] < fb_width /\ g[2] < fb_height
  BY <1>1, <1>2, <1>3
<1>5. over' \in BOOLEAN
  BY <1>1, <1>3
<1>6. ASSUME Before(cursor_x, cursor_y), over = FALSE
      PROVE  /\ over' = FALSE
             /\ \A g \in drawn' : g[2] < cursor_y \/ (g[2] = cursor_y /\ g[1] <= cursor_x)
  <2>1. \A g \in drawn : g[1] \in Nat /\ g[2] \in Nat
    BY <1>1
  <2>2. \A g \in drawn : g[2] < cursor_y \/ (g[2] = cursor_y /\ g[1] < cursor_x)
    BY <1>6 DEF Before
  <2>3. S \cap drawn = {}
    BY <1>1, <1>2, <2>1, <2>2
  <2>4. over' = FALSE
    BY <1>3, <1>6, <2>3
  <2>5. \A g \in drawn' : g[2] < cursor_y \/ (g[2] = cursor_y /\ g[1] <= cursor_x)
    BY <1>1, <1>2, <1>3, <2>1, <2>2
  <2> QED BY <2>4, <2>5
<1> QED
  BY <1>4, <1>5, <1>6

(* The handler's interrupt: nothing of the screen moves yet.               *)
LEMMA InterruptStep == IInv /\ Interrupt => IInv'
<1> SUFFICES ASSUME IInv, Interrupt PROVE IInv'
  OBVIOUS
<1> USE DEF IInv
<1>1. UNCHANGED <<cursor_x, cursor_y, step, x, y, drawn, over, tabbed>> /\ message' \in Messages
      /\ raced' = (raced \/ step # "next")
  BY DEF Interrupt, cursor, registers
<1>2. Cells'
  <2>1. raced \in BOOLEAN
    BY DEF Cells, TypeOK
  <2>2. raced' \in BOOLEAN
    BY <1>1, <2>1
  <2>3. TypeOK'
    BY <1>1, <2>2 DEF Cells, TypeOK
  <2>4. message' \in Seq(Nat) /\ \A i \in 1 .. Len(message') : message'[i] # tab
    BY <1>1, MessageFact
  <2> QED BY <1>1, <2>3, <2>4 DEF Cells
<1>3. Heals'
  BY <1>1 DEF Heals, Fits
<1>4. Reading'
  BY <1>1 DEF Reading, Before
<1> QED
  BY <1>2, <1>3, <1>4

(* A character of the handler's message.                                   *)
LEMMA HandlerStep == IInv /\ HandlerPuts => IInv'
<1> SUFFICES ASSUME IInv, HandlerPuts PROVE IInv'
  OBVIOUS
<1> USE DEF IInv
<1>1. UNCHANGED <<step, x, y, raced>> /\ message # <<>> /\ message' = Tail(message)
      /\ tabbed' = FALSE
  BY DEF HandlerPuts, registers
<1>2. cursor_x \in Nat /\ cursor_x % font_width = 0 /\ cursor_y \in Nat
      /\ cursor_y % line_height = 0
  BY DEF Cells, TypeOK
<1>3. message' \in Seq(Nat) /\ \A i \in 1 .. Len(message') : message'[i] # tab
  BY <1>1, RestOfMessage DEF Cells
<1>4. CASE Head(message) = newline /\ cursor_x' = 0 /\ cursor_y' = cursor_y + line_height
           /\ UNCHANGED <<drawn, over>>
  <2>1. Cells'
    <3>1. cursor_y' \in Nat /\ cursor_y' % line_height = 0
      BY <1>2, <1>4, Grid DEF line_height
    <3>2. TypeOK'
      BY <1>1, <1>4, <3>1, Grid DEF Cells, TypeOK
    <3> QED BY <1>1, <1>3, <1>4, <3>2 DEF Cells
  <2>2. Heals'
    BY <1>4, DisplayAssumption DEF Heals, Fits, font_width
  <2>3. Reading'
    <3> SUFFICES ASSUME ~raced' PROVE Reading'
      BY DEF Reading
    <3>1. over = FALSE /\ step = "next" /\ Before(cursor_x, cursor_y)
      BY <1>1 DEF Reading
    <3>2. \A g \in drawn : g[1] \in Nat /\ g[2] \in Nat
      BY DEF Cells
    <3>3. Before(cursor_x, cursor_y)'
      BY <1>2, <1>4, <3>1, <3>2 DEF Before, line_height
    <3> QED BY <1>1, <1>4, <3>1, <3>3 DEF Reading
  <2> QED BY <2>1, <2>2, <2>3
<1>5. ASSUME Draw,
             IF Wraps(cursor_x + font_width)
               THEN cursor_x' = 0 /\ cursor_y' = cursor_y + line_height
               ELSE cursor_x' = cursor_x + font_width /\ cursor_y' = cursor_y
      PROVE  IInv'
  <2>1. cursor_x' \in Nat /\ cursor_x' % font_width = 0 /\ cursor_y' \in Nat
        /\ cursor_y' % line_height = 0
    BY <1>2, <1>5, Grid DEF font_width, line_height
  <2>2. Cells'
    BY <1>1, <1>3, <1>5, <2>1, DrawStep DEF Cells, TypeOK
  <2>3. Heals'
    <3>1. Fits'
      BY <1>2, <1>5, DisplayAssumption DEF Fits, Wraps, font_width
    <3> QED BY <3>1 DEF Heals
  <2>4. Reading'
    <3> SUFFICES ASSUME ~raced' PROVE Reading'
      BY DEF Reading
    <3>1. over = FALSE /\ step = "next" /\ Before(cursor_x, cursor_y)
      BY <1>1 DEF Reading
    <3>2. /\ over' = FALSE /\ drawn' \subseteq Nat \X Nat
          /\ \A g \in drawn' : g[2] < cursor_y \/ (g[2] = cursor_y /\ g[1] <= cursor_x)
      BY <1>5, <3>1, DrawStep
    <3>3. Before(cursor_x, cursor_y)'
      BY <1>2, <1>5, <3>2 DEF Before, font_width, line_height
    <3> QED BY <1>1, <3>1, <3>2, <3>3 DEF Reading
  <2> QED BY <2>2, <2>3, <2>4
<1> QED
  BY <1>4, <1>5 DEF HandlerPuts

-----------------------------------------------------------------------------
(* The cursor and the registers stay on the grid while kernel_main prints. *)
LEMMA CellsStep == IInv /\ Kernel /\ UNCHANGED message => Cells'
<1> SUFFICES ASSUME IInv, Kernel, UNCHANGED message PROVE Cells'
  OBVIOUS
<1> USE DEF IInv
<1>1. /\ cursor_x \in Nat /\ cursor_x % font_width = 0
      /\ cursor_y \in Nat /\ cursor_y % line_height = 0
      /\ x \in Nat /\ x % font_width = 0 /\ y \in Nat /\ y % line_height = 0
      /\ over \in BOOLEAN /\ raced \in BOOLEAN /\ tabbed \in BOOLEAN
  BY DEF Cells, TypeOK
<1> DEFINE Steps == {"next", "newline", "advance", "wrap", "clear_x", "clear_y"}
           G == /\ cursor_x' \in Nat /\ cursor_x' % font_width = 0
                /\ cursor_y' \in Nat /\ cursor_y' % line_height = 0
                /\ x' \in Nat /\ x' % font_width = 0 /\ y' \in Nat /\ y' % line_height = 0
           B == /\ over' \in BOOLEAN /\ raced' \in BOOLEAN /\ tabbed' \in BOOLEAN
                /\ step' \in Steps
           D == /\ drawn' \subseteq Nat \X Nat
                /\ \A g \in drawn' : g[1] < fb_width /\ g[2] < fb_height
<1>2. SUFFICES G /\ B /\ D
  BY DEF Cells, TypeOK
<1>3. drawn \subseteq Nat \X Nat /\ \A g \in drawn : g[1] < fb_width /\ g[2] < fb_height
      /\ step \in Steps
  BY DEF Cells, TypeOK
<1>4. font_width \in Nat /\ 4 * font_width \in Nat /\ line_height \in Nat
  BY DEF font_width, line_height
<1> USE DEF cursor, registers, screenVars
<1>5. CASE fb_print
  BY <1>1, <1>3, <1>5 DEF fb_print
<1>6. CASE Newline
  BY <1>1, <1>3, <1>6, Grid DEF Newline
<1>7. CASE NewlineDown
  BY <1>1, <1>3, <1>4, <1>7, Grid DEF NewlineDown, Done
<1>8. CASE Tab
  <2>1. /\ cursor_x' = cursor_x + 4 * font_width /\ x' = 0 /\ y' = 0 /\ step' = "next"
        /\ tabbed' = (Head(text) = tab) /\ UNCHANGED <<cursor_y, drawn, over, raced>>
    BY <1>8 DEF Tab, Done
  <2>2. cursor_x' \in Nat /\ cursor_x' % font_width = 0
    BY <1>1, <1>4, <2>1, Grid
  <2> QED BY <1>1, <1>3, <2>1, <2>2, Grid
<1>9. CASE Glyph
  <2>1. Draw /\ UNCHANGED <<cursor, raced, tabbed>> /\ x' = cursor_x /\ y' = cursor_y
        /\ step' = "advance"
    BY <1>9 DEF Glyph
  <2>2. D /\ over' \in BOOLEAN
    BY <2>1, DrawStep
  <2> QED BY <1>1, <2>1, <2>2
<1>10. CASE Advance
  <2>1. PICK from \in {x, cursor_x} : cursor_x' = from + font_width /\ x' = from + font_width
    BY <1>10 DEF Advance
  <2>2. /\ step' = "wrap" /\ cursor_y' = cursor_y /\ y' = y /\ drawn' = drawn
        /\ over' = over /\ raced' = raced /\ tabbed' = tabbed
    BY <1>10 DEF Advance
  <2>3. cursor_x' \in Nat /\ cursor_x' % font_width = 0 /\ x' = cursor_x'
    <3>1. from \in Nat /\ from % font_width = 0
      BY <1>1, <2>1
    <3>2. from + font_width \in Nat /\ (from + font_width) % font_width = 0
      BY <1>4, <3>1, Grid
    <3> QED BY <2>1, <3>2
  <2>4. G
    BY <1>1, <2>2, <2>3
  <2>5. B /\ D
    BY <1>1, <1>3, <2>2
  <2> QED BY <2>4, <2>5
<1>11. CASE Wrap
  <2>1. PICK at \in {x, cursor_x}, from \in {y, cursor_y} :
          IF Wraps(at) THEN cursor_x' = 0 /\ cursor_y' = from + line_height
                       ELSE UNCHANGED cursor
    BY <1>11 DEF Wrap
  <2>2. /\ cursor_x' \in Nat /\ cursor_x' % font_width = 0
        /\ cursor_y' \in Nat /\ cursor_y' % line_height = 0
    BY <1>1, <1>4, <2>1, Grid
  <2>3. /\ x' = 0 /\ y' = 0 /\ step' = "next" /\ tabbed' = (Head(text) = tab)
        /\ UNCHANGED <<drawn, over, raced>>
    BY <1>11 DEF Wrap, Done
  <2>4. G
    BY <2>2, <2>3, Grid
  <2> QED BY <1>1, <1>3, <2>3, <2>4
<1>12. CASE fb_clear
  BY <1>1, <1>3, <1>12 DEF fb_clear
<1>13. CASE ClearCursor
  <2>1. UNCHANGED <<x, y, drawn, over, raced>>
    BY <1>13 DEF ClearCursor
  <2>2. step' \in Steps /\ cursor_x' \in {0, cursor_x} /\ cursor_y' \in {0, cursor_y}
        /\ tabbed' \in {FALSE, tabbed}
    BY <1>13 DEF ClearCursor
  <2>3. G
    BY <1>1, <2>1, <2>2, Grid
  <2> QED BY <1>1, <1>3, <2>1, <2>2, <2>3
<1> QED
  BY <1>5, <1>6, <1>7, <1>8, <1>9, <1>10, <1>11, <1>12, <1>13 DEF Kernel

(* The room for the next glyph: a step of kernel_main that leaves the      *)
(* cursor without it is a tab, or has the wrap in front of it.             *)
LEMMA HealsStep == IInv /\ Kernel => Heals'
<1> SUFFICES ASSUME IInv, Kernel PROVE Heals'
  OBVIOUS
<1> USE DEF IInv, cursor, registers, screenVars
<1>1. cursor_x \in Nat /\ x \in Nat /\ fb_width \in Nat /\ fb_width >= 8
  BY DisplayAssumption DEF Cells, TypeOK, font_width
<1>2. cursor_x' = 0 => Fits'
  BY <1>1 DEF Fits, font_width
<1>3. CASE fb_print
  BY <1>3 DEF fb_print, Heals, Fits
<1>4. CASE Newline
  BY <1>2, <1>4 DEF Newline, Heals
<1>5. CASE NewlineDown
  BY <1>5 DEF NewlineDown, Done, Heals, Fits
<1>6. CASE Tab
  BY <1>6 DEF Tab, Done, Heals, Putting
<1>7. CASE Glyph
  BY <1>7 DEF Glyph, Heals
<1>8. CASE Advance
  BY <1>8 DEF Advance, Heals
<1>9. CASE Wrap
  <2>1. PICK at \in {x, cursor_x} : IF Wraps(at) THEN cursor_x' = 0 ELSE cursor_x' = cursor_x
    BY <1>9 DEF Wrap
  <2>2. step = "wrap" /\ step' = "next"
    BY <1>9 DEF Wrap, Done
  <2>3. Fits \/ cursor_x = x
    BY <2>2 DEF Heals
  <2>4. Fits'
    BY <1>1, <1>2, <2>1, <2>3 DEF Fits, Wraps, font_width
  <2> QED BY <2>2, <2>4 DEF Heals
<1>10. CASE fb_clear
  BY <1>10 DEF fb_clear, Heals
<1>11. CASE ClearCursor
  BY <1>2, <1>11 DEF ClearCursor, Heals, Fits
<1> QED
  BY <1>3, <1>4, <1>5, <1>6, <1>7, <1>8, <1>9, <1>10, <1>11 DEF Kernel

(* The reading order: whatever kernel_main draws or moves, what is on the  *)
(* screen stays before the cursor.                                         *)
LEMMA ReadingStep == IInv /\ message = <<>> /\ Kernel /\ UNCHANGED message => Reading'
<1> SUFFICES ASSUME IInv, message = <<>>, Kernel, UNCHANGED message, ~raced'
             PROVE  Reading'
  BY DEF Reading
<1> USE DEF IInv, cursor, registers, screenVars
<1>1. cursor_x \in Nat /\ cursor_y \in Nat /\ \A g \in drawn : g[1] \in Nat /\ g[2] \in Nat
  BY DEF Cells, TypeOK
<1>2. raced' = raced
  BY DEF Kernel, fb_print, Newline, NewlineDown, Tab, Glyph, Advance, Wrap, fb_clear, ClearCursor
<1>3. ~raced /\ over = FALSE
  BY <1>2 DEF Reading
<1>4. CASE fb_print
  BY <1>3, <1>4 DEF fb_print, Reading, Before
<1>5. CASE Newline
  <2>1. Before(cursor_x, cursor_y) /\ UNCHANGED <<drawn, over, cursor_y>> /\ step' = "newline"
    BY <1>3, <1>5 DEF Newline, Putting, Reading
  <2>2. Before(0, cursor_y + 1)'
    BY <1>1, <2>1 DEF Before
  <2> QED BY <1>3, <2>1, <2>2 DEF Reading
<1>6. CASE NewlineDown
  <2>1. /\ Before(0, cursor_y + 1) /\ UNCHANGED <<drawn, over, cursor_x>> /\ step' = "next"
        /\ cursor_y' = cursor_y + line_height
    BY <1>3, <1>6 DEF NewlineDown, Done, Reading
  <2>2. Before(cursor_x, cursor_y)'
    BY <1>1, <2>1 DEF Before, line_height
  <2> QED BY <1>3, <2>1, <2>2 DEF Reading
<1>7. CASE Tab
  <2>1. /\ Before(cursor_x, cursor_y) /\ UNCHANGED <<drawn, over, cursor_y>> /\ step' = "next"
        /\ cursor_x' = cursor_x + 4 * font_width
    BY <1>3, <1>7 DEF Tab, Done, Putting, Reading
  <2>2. Before(cursor_x, cursor_y)'
    BY <1>1, <2>1 DEF Before, font_width
  <2> QED BY <1>3, <2>1, <2>2 DEF Reading
<1>8. CASE Glyph
  <2>1. /\ Draw /\ UNCHANGED <<cursor_x, cursor_y>> /\ x' = cursor_x /\ y' = cursor_y
        /\ step' = "advance" /\ Before(cursor_x, cursor_y)
    BY <1>3, <1>8 DEF Glyph, Reading
  <2>2. /\ over' = FALSE /\ drawn' \subseteq Nat \X Nat
        /\ \A g \in drawn' : g[2] < cursor_y \/ (g[2] = cursor_y /\ g[1] <= cursor_x)
    BY <1>3, <2>1, DrawStep
  <2>3. Before(cursor_x + 1, cursor_y)'
    BY <1>1, <2>1, <2>2 DEF Before
  <2> QED BY <2>1, <2>2, <2>3 DEF Reading
<1>9. CASE Advance
  <2>1. /\ Before(cursor_x + 1, cursor_y) /\ UNCHANGED <<drawn, over, cursor_y, y>>
        /\ step' = "wrap" /\ x = cursor_x /\ y = cursor_y
    BY <1>3, <1>9 DEF Advance, Reading
  <2>2. cursor_x' = cursor_x + font_width /\ x' = cursor_x'
    BY <1>9, <2>1 DEF Advance
  <2>3. Before(cursor_x, cursor_y)'
    BY <1>1, <2>1, <2>2 DEF Before, font_width
  <2> QED BY <1>3, <2>1, <2>2, <2>3 DEF Reading
<1>10. CASE Wrap
  <2>1. /\ Before(cursor_x, cursor_y) /\ UNCHANGED <<drawn, over>>
        /\ step' = "next" /\ x = cursor_x /\ y = cursor_y
    BY <1>3, <1>10 DEF Wrap, Done, Reading
  <2>2. \/ cursor_x' = 0 /\ cursor_y' = cursor_y + line_height
        \/ UNCHANGED <<cursor_x, cursor_y>>
    BY <1>10, <2>1 DEF Wrap
  <2>3. Before(cursor_x, cursor_y)'
    BY <1>1, <2>1, <2>2 DEF Before, line_height
  <2> QED BY <1>3, <2>1, <2>3 DEF Reading
<1>11. CASE fb_clear
  BY <1>3, <1>11 DEF fb_clear, Reading
<1>12. CASE ClearCursor
  BY <1>3, <1>12 DEF ClearCursor, Reading, Before
<1> QED
  BY <1>4, <1>5, <1>6, <1>7, <1>8, <1>9, <1>10, <1>11, <1>12 DEF Kernel

-----------------------------------------------------------------------------
(* Numbers.  Digits are the quotients by the powers of the base, modulo    *)
(* it, from the highest power down: what fb_print_hex prints by definition *)
(* and fb_print_dec by its loop.                                           *)

ArePowers(p, base, n) ==
  /\ p \in [0 .. n -> Nat \ {0}] /\ p[0] = 1
  /\ \A i \in 1 .. n : p[i] = base * p[i - 1]

(* There are powers, and Powers is them.                                   *)
LEMMA PowersFact ==
  ASSUME NEW base \in Nat \ {0}, NEW n \in Nat
  PROVE  ArePowers(Powers(base, n), base, n)
<1> DEFINE P == {k \in 0 .. n : \E p \in [0 .. k -> Nat \ {0}] : ArePowers(p, base, k)}
<1>1. 0 \in P
  <2> DEFINE p == [i \in 0 .. 0 |-> 1]
  <2>1. p \in [0 .. 0 -> Nat \ {0}] /\ ArePowers(p, base, 0)
    BY DEF ArePowers
  <2> HIDE DEF p
  <2> QED BY <2>1
<1>2. ASSUME NEW k \in 0 .. (n - 1), k \in P PROVE k + 1 \in P
  <2>1. PICK p \in [0 .. k -> Nat \ {0}] : ArePowers(p, base, k)
    BY <1>2
  <2> DEFINE q == [i \in 0 .. (k + 1) |-> IF i = k + 1 THEN base * p[k] ELSE p[i]]
  <2>2. p[k] \in Nat \ {0} /\ base * p[k] \in Nat \ {0}
    <3>1. p[k] \in Nat \ {0}
      OBVIOUS
    <3> DEFINE z == p[k]
    <3> HIDE DEF z
    <3>2. z \in Nat \ {0} => base * z \in Nat \ {0}
      OBVIOUS
    <3> QED BY <3>1, <3>2 DEF z
  <2>3. q \in [0 .. (k + 1) -> Nat \ {0}]
    <3>1. \A i \in 0 .. (k + 1) : i # k + 1 => p[i] \in Nat \ {0}
      OBVIOUS
    <3> QED BY <2>2, <3>1
  <2>4. ASSUME NEW i \in 1 .. (k + 1) PROVE q[i] = base * q[i - 1]
    <3>1. CASE i = k + 1
      <4>1. q[i] = base * p[k] /\ i - 1 = k /\ k \in 0 .. (k + 1) /\ k # k + 1
        BY <3>1
      <4> QED BY <4>1
    <3>2. CASE i # k + 1
      <4>1. i \in 1 .. k /\ i \in 0 .. (k + 1) /\ i - 1 \in 0 .. (k + 1) /\ i - 1 # k + 1
        BY <3>2
      <4>2. q[i] = p[i] /\ q[i - 1] = p[i - 1]
        BY <4>1, <3>2
      <4> QED BY <2>1, <4>1, <4>2 DEF ArePowers
    <3> QED BY <3>1, <3>2
  <2>5. q[0] = 1
    BY <2>1 DEF ArePowers
  <2> HIDE DEF q
  <2>6. ArePowers(q, base, k + 1)
    BY <2>3, <2>4, <2>5 DEF ArePowers
  <2>7. k + 1 \in 0 .. n
    OBVIOUS
  <2> QED BY <2>3, <2>6, <2>7
<1>3. n \in P
  <2>1. P \in SUBSET (0 .. n)
    OBVIOUS
  <2> HIDE DEF P
  <2>2. P = 0 .. n
    BY <2>1, <1>1, <1>2, UpEveryLevel
  <2> QED BY <2>2
<1> DEFINE Fix(p) == p = [i \in 0 .. n |-> IF i = 0 THEN 1 ELSE base * p[i - 1]]
<1>4. PICK p \in [0 .. n -> Nat \ {0}] : ArePowers(p, base, n)
  BY <1>3
<1>5. Fix(p)
  <2>1. \A i \in 0 .. n : p[i] = IF i = 0 THEN 1 ELSE base * p[i - 1]
    BY <1>4 DEF ArePowers
  <2> QED BY <2>1
<1>6. Powers(base, n) = CHOOSE q : Fix(q)
  BY DEF Powers
<1>7. Fix(Powers(base, n))
  <2> HIDE DEF Fix
  <2> QED BY <1>5, <1>6
<1>8. PICK q : q = Powers(base, n) /\ Fix(q)
  BY <1>7
<1>9. q[0] = 1 /\ \A i \in 1 .. n : q[i] = base * q[i - 1]
  <2>1. \A i \in 0 .. n : q[i] = IF i = 0 THEN 1 ELSE base * q[i - 1]
    BY <1>8
  <2>2. 0 \in 0 .. n /\ \A i \in 1 .. n : i \in 0 .. n /\ i # 0
    OBVIOUS
  <2> HIDE DEF P, Fix
  <2> QED BY <2>1, <2>2
<1>10. q = [i \in 0 .. n |-> q[i]]
  BY <1>8
<1> DEFINE Q == {i \in 0 .. n : q[i] \in Nat \ {0}}
<1>11. Q = 0 .. n
  <2>1. 0 \in Q
    BY <1>9
  <2>2. ASSUME NEW i \in 0 .. (n - 1), i \in Q PROVE i + 1 \in Q
    <3>1. q[i + 1] = base * q[i] /\ i + 1 \in 0 .. n
      BY <1>9
    <3> DEFINE z == q[i]
    <3>2. z \in Nat \ {0}
      BY <2>2
    <3> HIDE DEF z
    <3>3. base * z \in Nat \ {0}
      BY <3>2
    <3> QED BY <3>1, <3>3 DEF z
  <2>3. Q \in SUBSET (0 .. n)
    OBVIOUS
  <2> HIDE DEF Q
  <2> QED BY <2>1, <2>2, <2>3, UpEveryLevel
<1> HIDE DEF Fix
<1> QED BY <1>8, <1>9, <1>10, <1>11 DEF ArePowers

(* Value is what Horner's rule has summed up when the digits end.          *)
LEMMA ValueIs ==
  ASSUME NEW base \in Nat, NEW digits \in Seq(Nat), NEW f \in [0 .. Len(digits) -> Nat],
         f[0] = 0, \A i \in 1 .. Len(digits) : f[i] = base * f[i - 1] + digits[i]
  PROVE  Value(digits, base) = f[Len(digits)]
<1> DEFINE n == Len(digits)
           Fix(g) == g = [i \in 0 .. n |-> IF i = 0 THEN 0 ELSE base * g[i - 1] + digits[i]]
           upto == CHOOSE g : Fix(g)
<1>1. Fix(f)
  <2>1. \A i \in 0 .. n : f[i] = IF i = 0 THEN 0 ELSE base * f[i - 1] + digits[i]
    OBVIOUS
  <2>2. f = [i \in 0 .. n |-> f[i]]
    OBVIOUS
  <2> HIDE DEF n
  <2> QED BY <2>1, <2>2
<1>2. Fix(upto)
  <2> HIDE DEF Fix
  <2> QED BY <1>1
<1>3. Value(digits, base) = upto[n]
  BY DEF Value
<1>4. n \in Nat
  OBVIOUS
<1> HIDE DEF upto
<1>5. upto[0] = 0 /\ \A i \in 1 .. n : upto[i] = base * upto[i - 1] + digits[i]
  <2>1. PICK g : g = upto /\ Fix(g)
    BY <1>2
  <2> HIDE DEF n
  <2>2. g[0] = 0 /\ \A i \in 1 .. n : g[i] = base * g[i - 1] + digits[i]
    BY <2>1, <1>4
  <2> QED BY <2>1, <2>2
<1> DEFINE Same == {i \in 0 .. n : upto[i] = f[i]}
<1> HIDE DEF Fix
<1>6. ASSUME NEW i \in 0 .. (n - 1), i \in Same PROVE i + 1 \in Same
  <2>1. i + 1 \in 1 .. n /\ i + 1 \in 0 .. n /\ (i + 1) - 1 = i
    BY <1>4
  <2> QED BY <2>1, <1>5, <1>6
<1>7. Same = 0 .. n
  <2>1. 0 \in Same /\ Same \in SUBSET (0 .. n)
    BY <1>4, <1>5
  <2> HIDE DEF Same, n
  <2> QED BY <2>1, <1>4, <1>6, UpEveryLevel
<1>8. n \in Same
  BY <1>4, <1>7
<1> QED BY <1>3, <1>8

(* The lowest digit, and the others.                                       *)
LEMMA LowestDigit ==
  ASSUME NEW base \in Nat \ {0}, NEW q \in Nat
  PROVE  q = base * (q \div base) + (q % base)
BY DivMod

(* The digits of a number denote it.                                       *)
LEMMA DigitsOf ==
  ASSUME NEW base \in Nat \ {0}, NEW top \in Nat, NEW p, ArePowers(p, base, top),
         NEW n \in 0 .. top, NEW val \in Nat, val < p[n],
         NEW digits \in Seq(Nat), Len(digits) = n,
         \A i \in 1 .. n : digits[i] = (val \div p[n - i]) % base
  PROVE  Value(digits, base) = val
<1> DEFINE f == [i \in 0 .. n |-> val \div p[n - i]]
<1>1. \A i \in 0 .. n : n - i \in 0 .. top /\ p[n - i] \in Nat \ {0}
  BY DEF ArePowers
<1>2. f \in [0 .. n -> Nat]
  BY <1>1, DivNat
<1>3. f[0] = 0
  <2>1. f[0] = val \div p[n] /\ p[n] \in Nat \ {0}
    BY DEF ArePowers
  <2>2. val < 1 * p[n]
    BY <2>1
  <2>3. val \div p[n] \in Nat /\ val \div p[n] < 1
    BY <2>1, <2>2, DivNat, DivBelow
  <2> QED BY <2>1, <2>3
<1>4. f[n] = val
  <2>1. f[n] = val \div p[0] /\ p[0] = 1
    BY DEF ArePowers
  <2> QED BY <2>1
<1>5. ASSUME NEW i \in 1 .. n PROVE f[i] = base * f[i - 1] + digits[i]
  <2> DEFINE w == p[n - i]
             q == val \div w
  <2>1. /\ i - 1 \in 0 .. n /\ n - (i - 1) = (n - i) + 1
        /\ (n - i) + 1 \in 1 .. top /\ ((n - i) + 1) - 1 = n - i
    OBVIOUS
  <2>2. p[(n - i) + 1] = base * w /\ w \in Nat \ {0}
    BY <2>1, <1>1 DEF ArePowers
  <2>3. f[i - 1] = val \div (base * w) /\ f[i] = q /\ digits[i] = q % base
    BY <2>1, <2>2
  <2> HIDE DEF f
  <2>4. val \div (base * w) = q \div base /\ q \in Nat
    <3> HIDE DEF w
    <3> QED BY <2>2, RemainderSplit, DivNat
  <2> HIDE DEF q
  <2>5. q = base * (q \div base) + (q % base)
    BY <2>4, LowestDigit
  <2> QED BY <2>3, <2>4, <2>5
<1> HIDE DEF f
<1> QED BY <1>2, <1>3, <1>4, <1>5, ValueIs

(* The digits fb_print_dec has collected of a number.                      *)
Collected(b, top) ==
  \A v \in 0 .. top : b[v] = IF v = 0 THEN <<>> ELSE <<v % 10>> \o b[v \div 10]

(* A number and its lowest digit; the others are those of a smaller one.   *)
LEMMA Tenth ==
  ASSUME NEW v \in Nat \ {0}
  PROVE  v \div 10 \in 0 .. (v - 1) /\ v % 10 \in Nat
OBVIOUS

(* buffer is the digits collected.                                         *)
LEMMA BufferFact ==
  ASSUME NEW top \in Nat, Words = 0 .. top
  PROVE  buffer \in [Words -> Seq(Nat)] /\ Collected(buffer, top)
<1> DEFINE P == {k \in 0 .. top : \E b \in [0 .. k -> Seq(Nat)] : Collected(b, k)}
<1>1. 0 \in P
  <2> DEFINE b == [v \in 0 .. 0 |-> <<>>]
  <2>1. b \in [0 .. 0 -> Seq(Nat)] /\ Collected(b, 0)
    BY DEF Collected
  <2> HIDE DEF b
  <2> QED BY <2>1
<1>2. ASSUME NEW k \in 0 .. (top - 1), k \in P PROVE k + 1 \in P
  <2>1. PICK b \in [0 .. k -> Seq(Nat)] : Collected(b, k)
    BY <1>2
  <2> DEFINE new == <<(k + 1) % 10>> \o b[(k + 1) \div 10]
             c == [v \in 0 .. (k + 1) |-> IF v = k + 1 THEN new ELSE b[v]]
  <2>2. (k + 1) \div 10 \in 0 .. k /\ (k + 1) % 10 \in Nat
    BY Tenth
  <2>3. new \in Seq(Nat)
    BY <2>2
  <2>4. \A v \in 0 .. (k + 1) : v # k + 1 => v \in 0 .. k
    OBVIOUS
  <2>5. c \in [0 .. (k + 1) -> Seq(Nat)]
    <3> HIDE DEF new
    <3> QED BY <2>3, <2>4
  <2>6. ASSUME NEW v \in 0 .. (k + 1)
        PROVE  c[v] = IF v = 0 THEN <<>> ELSE <<v % 10>> \o c[v \div 10]
    <3>1. CASE v = k + 1
      <4>1. v \div 10 \in 0 .. k /\ v \div 10 \in 0 .. (k + 1) /\ v \div 10 # k + 1 /\ v # 0
        BY <2>2, <3>1
      <4>2. c[v \div 10] = b[v \div 10] /\ c[v] = <<v % 10>> \o b[v \div 10]
        BY <4>1, <3>1
      <4> HIDE DEF c
      <4> QED BY <4>1, <4>2
    <3>2. CASE v # k + 1
      <4>1. v \in 0 .. k /\ c[v] = b[v]
        BY <3>2, <2>4
      <4>2. v # 0 => c[v \div 10] = b[v \div 10]
        <5>1. v # 0 => v \div 10 \in 0 .. (k + 1) /\ v \div 10 # k + 1
          BY <4>1, Tenth
        <5> QED BY <5>1
      <4> HIDE DEF c
      <4> QED BY <4>1, <4>2, <2>1 DEF Collected
    <3> QED BY <3>1, <3>2
  <2> HIDE DEF c
  <2>7. Collected(c, k + 1) /\ k + 1 \in 0 .. top
    BY <2>6 DEF Collected
  <2> QED BY <2>5, <2>7
<1>3. P = 0 .. top
  <2>1. P \in SUBSET (0 .. top)
    OBVIOUS
  <2> HIDE DEF P
  <2> QED BY <2>1, <1>1, <1>2, UpEveryLevel
<1>4. PICK b \in [0 .. top -> Seq(Nat)] : Collected(b, top)
  <2>1. top \in P
    BY <1>3
  <2> QED BY <2>1
<1> DEFINE Fix(c) == c = [val \in Words |-> IF val = 0 THEN <<>> ELSE <<val % 10>> \o c[val \div 10]]
<1>5. Fix(b)
  <2>1. b = [v \in 0 .. top |-> b[v]]
    OBVIOUS
  <2> QED BY <2>1, <1>4 DEF Collected
<1>6. buffer = CHOOSE c : Fix(c)
  BY DEF buffer
<1>7. Fix(buffer)
  <2> HIDE DEF Fix
  <2> QED BY <1>5, <1>6
<1>8. PICK c : c = buffer /\ Fix(c)
  BY <1>7
<1>9. Collected(c, top) /\ c = [v \in 0 .. top |-> c[v]]
  BY <1>8 DEF Collected
<1> DEFINE D == {v \in 0 .. top : c[v] \notin Seq(Nat)}
<1>10. D = {}
  <2>1. SUFFICES ASSUME D # {} PROVE FALSE
    OBVIOUS
  <2>2. PICK v \in D : \A w \in D : v <= w
    <3>1. D \in SUBSET Nat
      OBVIOUS
    <3> HIDE DEF D
    <3> QED BY <2>1, <3>1, MinFact
  <2>3. v # 0
    <3>1. c[0] = <<>>
      <4>1. 0 \in 0 .. top
        OBVIOUS
      <4> QED BY <4>1, <1>9 DEF Collected
    <3>2. c[v] \notin Seq(Nat) /\ <<>> \in Seq(Nat)
      <4>1. c[v] \notin Seq(Nat)
        OBVIOUS
      <4>2. <<>> \in Seq(Nat)
        OBVIOUS
      <4> QED BY <4>1, <4>2
    <3> QED BY <3>1, <3>2
  <2>4. v \div 10 \in 0 .. (v - 1) /\ v % 10 \in Nat
    BY <2>3, Tenth
  <2>5. v \div 10 \in 0 .. top /\ v \div 10 \notin D
    BY <2>2, <2>4
  <2>6. c[v \div 10] \in Seq(Nat)
    BY <2>5
  <2>7. c[v] = <<v % 10>> \o c[v \div 10]
    BY <2>3, <1>9 DEF Collected
  <2>8. c[v] \in Seq(Nat)
    BY <2>4, <2>6, <2>7
  <2> QED BY <2>8
<1> HIDE DEF Fix
<1> QED BY <1>8, <1>9, <1>10

(* They are the quotients by the powers of ten, modulo ten, and no more    *)
(* than the number has.                                                    *)
Spelled(p, v, k) ==
  /\ Len(buffer[v]) \in 0 .. k /\ v < p[Len(buffer[v])]
  /\ \A j \in 1 .. Len(buffer[v]) : buffer[v][j] = (v \div p[j - 1]) % 10

LEMMA BufferDigits ==
  ASSUME NEW p, ArePowers(p, 10, BufferSize), NEW top \in Nat, Words = 0 .. top,
         NEW v \in Words, v < p[BufferSize]
  PROVE  Spelled(p, v, BufferSize)
<1> DEFINE P == {k \in 0 .. BufferSize : \A u \in Words : u < p[k] => Spelled(p, u, k)}
<1>1. BufferSize \in Nat
  BY DisplayAssumption
<1>2. buffer \in [Words -> Seq(Nat)] /\ Collected(buffer, top)
  BY BufferFact
<1>3. p[0] = 1 /\ \A k \in 0 .. BufferSize : p[k] \in Nat \ {0}
  BY DEF ArePowers
<1>4. Spelled(p, 0, 0)
  <2>1. buffer[0] = <<>>
    <3>1. 0 \in 0 .. top
      OBVIOUS
    <3> QED BY <3>1, <1>2 DEF Collected
  <2> QED BY <2>1, <1>3 DEF Spelled
<1>5. 0 \in P
  <2>1. ASSUME NEW u \in Words, u < p[0] PROVE Spelled(p, u, 0)
    <3>1. u = 0
      BY <1>3, <2>1
    <3> QED BY <3>1, <1>4
  <2> QED BY <2>1, <1>1
<1>6. ASSUME NEW k \in 0 .. (BufferSize - 1), k \in P PROVE k + 1 \in P
  <2>1. k + 1 \in 0 .. BufferSize /\ k \in 0 .. BufferSize /\ k \in Nat
    BY <1>1
  <2>2. SUFFICES ASSUME NEW u \in Words, u < p[k + 1] PROVE Spelled(p, u, k + 1)
    BY <2>1
  <2>3. CASE u = 0
    BY <2>1, <2>3, <1>4 DEF Spelled
  <2>4. CASE u # 0
    <3> DEFINE w == u \div 10
               m == Len(buffer[w])
    <3>1. u \in Nat \ {0} /\ w \in 0 .. (u - 1) /\ w \in Words /\ u % 10 \in Nat
      BY <2>4, Tenth
    <3>2. w < p[k]
      <4>1. p[k + 1] = 10 * p[k] /\ p[k] \in Nat
        <5>1. k + 1 \in 1 .. BufferSize /\ (k + 1) - 1 = k
          BY <2>1
        <5> QED BY <5>1, <2>1, <1>3 DEF ArePowers
      <4>2. u < p[k] * 10
        BY <4>1, <2>2
      <4> QED BY <4>1, <4>2, <3>1, DivBelow
    <3>3. Spelled(p, w, k)
      BY <1>6, <3>1, <3>2
    <3>4. buffer[u] = <<u % 10>> \o buffer[w] /\ buffer[w] \in Seq(Nat)
      BY <2>4, <3>1, <1>2 DEF Collected
    <3>5. /\ m \in 0 .. k /\ w < p[m]
          /\ \A j \in 1 .. m : buffer[w][j] = (w \div p[j - 1]) % 10
      BY <3>3 DEF Spelled
    <3> HIDE DEF w
    <3>6. /\ Len(buffer[u]) = m + 1 /\ buffer[u][1] = u % 10
          /\ \A j \in 2 .. (m + 1) : buffer[u][j] = buffer[w][j - 1]
      BY <3>1, <3>4
    <3> HIDE DEF m
    <3>7. u < p[m + 1]
      <4>1. p[m + 1] = 10 * p[m] /\ p[m] \in Nat
        <5>1. m + 1 \in 1 .. BufferSize /\ (m + 1) - 1 = m /\ m \in 0 .. BufferSize
          BY <1>1, <2>1, <3>5
        <5> QED BY <5>1, <1>3 DEF ArePowers
      <4>2. u < p[m] * 10
        BY <4>1, <3>1, <3>5, DivBelow DEF w
      <4> QED BY <4>1, <4>2
    <3>8. ASSUME NEW j \in 1 .. (m + 1) PROVE buffer[u][j] = (u \div p[j - 1]) % 10
      <4>1. CASE j = 1
        <5>1. p[j - 1] = 1 /\ u \div 1 = u
          BY <4>1, <3>1, <1>3
        <5> QED BY <5>1, <4>1, <3>6
      <4>2. CASE j # 1
        <5>1. /\ j \in 2 .. (m + 1) /\ j - 1 \in 1 .. m /\ j - 1 \in 1 .. BufferSize
              /\ (j - 1) - 1 \in 0 .. BufferSize
          BY <4>2, <3>5, <2>1, <1>1
        <5> DEFINE q == p[(j - 1) - 1]
        <5>2. p[j - 1] = 10 * q /\ q \in Nat \ {0}
          BY <5>1, <1>3 DEF ArePowers
        <5>3. buffer[u][j] = (w \div q) % 10
          BY <5>1, <3>5, <3>6
        <5> HIDE DEF q
        <5>4. p[j - 1] = q * 10
          BY <5>2
        <5>5. u \div (q * 10) = w \div q
          <6>1. PICK ten \in Nat \ {0} : ten = 10
            OBVIOUS
          <6>2. u \div (q * ten) = (u \div ten) \div q
            BY <5>2, <3>1, RemainderSplit
          <6> QED BY <6>1, <6>2 DEF w
        <5> QED BY <5>3, <5>4, <5>5
      <4> QED BY <4>1, <4>2
    <3>9. m + 1 \in 0 .. (k + 1)
      BY <3>5, <2>1
    <3> QED BY <3>6, <3>7, <3>8, <3>9 DEF Spelled
  <2> QED BY <2>3, <2>4
<1>7. BufferSize \in P
  <2>1. P \in SUBSET (0 .. BufferSize)
    OBVIOUS
  <2> HIDE DEF P
  <2>2. P = 0 .. BufferSize
    BY <2>1, <1>1, <1>5, <1>6, UpEveryLevel
  <2> QED BY <2>2, <1>1
<1> QED BY <1>7

(* fb_print_dec prints them in reverse.                                    *)
LEMMA DecimalDenotes ==
  ASSUME NEW val \in Words
  PROVE  Len(fb_print_dec(val)) <= BufferSize /\ Value(fb_print_dec(val), 10) = val
<1> DEFINE p == Powers(10, BufferSize)
           b == buffer[val]
           n == Len(b)
           digits == Reverse(b)
<1>1. BufferSize \in Nat \ {0} /\ Nibbles \in Nat
  BY DisplayAssumption
<1>2. ArePowers(p, 10, BufferSize)
  BY <1>1, PowersFact
<1>3. PICK top \in Nat : Words = 0 .. top
  <2>1. Powers(16, Nibbles)[Nibbles] \in Nat \ {0}
    BY <1>1, PowersFact DEF ArePowers
  <2> QED BY <2>1 DEF Words
<1>4. val \in Nat /\ val < p[BufferSize] /\ p[BufferSize] \in Nat \ {0}
  <2>1. p[BufferSize] \in Nat \ {0}
    BY <1>1, <1>2 DEF ArePowers
  <2>2. val \in 0 .. (p[BufferSize] - 1)
    BY BufferAssumption
  <2> QED BY <2>1, <2>2
<1> HIDE DEF p
<1>5. Spelled(p, val, BufferSize) /\ b \in Seq(Nat)
  BY <1>2, <1>3, <1>4, BufferDigits, BufferFact
<1>6. /\ n \in 0 .. BufferSize /\ val < p[n]
      /\ \A j \in 1 .. n : b[j] = (val \div p[j - 1]) % 10
  BY <1>5 DEF Spelled
<1> HIDE DEF b
<1>7. /\ digits \in Seq(Nat) /\ Len(digits) = n
      /\ \A i \in 1 .. n : digits[i] = b[(n - i) + 1]
  BY <1>5 DEF Reverse
<1>8. \A i \in 1 .. n : digits[i] = (val \div p[n - i]) % 10
  <2>1. \A i \in 1 .. n : (n - i) + 1 \in 1 .. n /\ ((n - i) + 1) - 1 = n - i
    BY <1>6
  <2> QED BY <2>1, <1>6, <1>7
<1> HIDE DEF digits, n
<1>9. Value(digits, 10) = val
  BY <1>1, <1>2, <1>4, <1>6, <1>7, <1>8, DigitsOf
<1>10. CASE val # 0
  <2>1. fb_print_dec(val) = digits
    BY <1>10 DEF fb_print_dec, digits, b
  <2> QED BY <2>1, <1>6, <1>7, <1>9, <1>1
<1>11. CASE val = 0
  <2> DEFINE f == [i \in 0 .. 1 |-> 0]
             zero == <<0>>
  <2>1. fb_print_dec(val) = zero
    BY <1>11 DEF fb_print_dec
  <2>2. zero \in Seq(Nat) /\ Len(zero) = 1 /\ zero[1] = 0
    OBVIOUS
  <2>3. f \in [0 .. 1 -> Nat] /\ f[0] = 0 /\ f[1] = 0
    OBVIOUS
  <2> HIDE DEF f, zero
  <2>4. \A i \in 1 .. 1 : f[i] = 10 * f[i - 1] + zero[i]
    BY <2>2, <2>3
  <2>5. f \in [0 .. Len(zero) -> Nat] /\ f[Len(zero)] = 0
        /\ \A i \in 1 .. Len(zero) : f[i] = 10 * f[i - 1] + zero[i]
    BY <2>2, <2>3, <2>4
  <2>6. Value(zero, 10) = 0
    BY <2>2, <2>3, <2>5, ValueIs
  <2> QED BY <2>1, <2>2, <2>6, <1>1, <1>11
<1> QED BY <1>10, <1>11

(* fb_print_hex prints all of them, after 0x.                              *)
LEMMA HexDenotes ==
  ASSUME NEW val \in Words
  PROVE  Value(SubSeq(fb_print_hex(val), 3, Nibbles + 2), 16) = val
<1> DEFINE p == Powers(16, Nibbles)
           head == <<0, letter_x>>
           nibbles == [i \in 1 .. Nibbles |-> (val \div p[Nibbles - i]) % 16]
           digits == SubSeq(fb_print_hex(val), 3, Nibbles + 2)
<1>1. Nibbles \in Nat
  BY DisplayAssumption
<1>2. ArePowers(p, 16, Nibbles)
  BY <1>1, PowersFact
<1>3. val \in Nat /\ val < p[Nibbles]
  <2>1. p[Nibbles] \in Nat \ {0}
    BY <1>1, <1>2 DEF ArePowers
  <2>2. val \in 0 .. (p[Nibbles] - 1)
    BY DEF Words
  <2> QED BY <2>1, <2>2
<1>4. fb_print_hex(val) = head \o nibbles
  BY DEF fb_print_hex
<1> HIDE DEF p
<1>5. nibbles \in Seq(Nat) /\ Len(nibbles) = Nibbles
  <2>1. ASSUME NEW i \in 1 .. Nibbles PROVE (val \div p[Nibbles - i]) % 16 \in Nat
    <3>1. p[Nibbles - i] \in Nat \ {0}
      BY <1>1, <1>2 DEF ArePowers
    <3>2. val \div p[Nibbles - i] \in Nat
      BY <3>1, <1>3, DivNat
    <3> QED BY <3>2
  <2>2. nibbles \in [1 .. Nibbles -> Nat]
    BY <2>1
  <2> HIDE DEF nibbles
  <2> QED BY <2>2, <1>1
<1>6. \A i \in 1 .. Nibbles : nibbles[i] = (val \div p[Nibbles - i]) % 16
  OBVIOUS
<1>7. head \in Seq(Nat) /\ Len(head) = 2
  BY DEF letter_x
<1> HIDE DEF head, nibbles
<1>8. /\ digits \in Seq(Nat) /\ Len(digits) = Nibbles
      /\ \A i \in 1 .. Nibbles : digits[i] = nibbles[i]
  <2>1. /\ fb_print_hex(val) \in Seq(Nat) /\ Len(fb_print_hex(val)) = Nibbles + 2
        /\ \A i \in 1 .. Nibbles : fb_print_hex(val)[i + 2] = nibbles[i]
    <3>1. /\ head \o nibbles \in Seq(Nat) /\ Len(head \o nibbles) = 2 + Nibbles
          /\ \A i \in 1 .. (2 + Nibbles) :
               (head \o nibbles)[i] = IF i <= 2 THEN head[i] ELSE nibbles[i - 2]
      <4>1. /\ head \o nibbles \in Seq(Nat)
            /\ Len(head \o nibbles) = Len(head) + Len(nibbles)
            /\ \A i \in 1 .. (Len(head) + Len(nibbles)) :
                 (head \o nibbles)[i]
                   = IF i <= Len(head) THEN head[i] ELSE nibbles[i - Len(head)]
        BY <1>5, <1>7, ConcatProperties, Zenon
      <4> QED BY <4>1, <1>5, <1>7
    <3>2. \A i \in 1 .. Nibbles :
            i + 2 \in 1 .. (2 + Nibbles) /\ ~(i + 2 <= 2) /\ (i + 2) - 2 = i
      BY <1>1
    <3> QED BY <1>1, <1>4, <3>1, <3>2
  <2> DEFINE s == fb_print_hex(val)
  <2> HIDE DEF s
  <2>2. /\ SubSeq(s, 3, Nibbles + 2) \in Seq(Nat)
        /\ Len(SubSeq(s, 3, Nibbles + 2)) = Nibbles
        /\ \A i \in 1 .. Nibbles : SubSeq(s, 3, Nibbles + 2)[i] = s[i + 2]
    <3>1. s \in Seq(Nat) /\ Len(s) = Nibbles + 2
      BY <2>1 DEF s
    <3>2. SubSeq(s, 3, Nibbles + 2) = [i \in 1 .. Nibbles |-> s[i + 2]]
      BY <1>1, <3>1, SubSeqProperties
    <3> QED BY <1>1, <3>1, <3>2
  <2> QED BY <2>1, <2>2 DEF s
<1> HIDE DEF digits
<1>9. \A i \in 1 .. Nibbles : digits[i] = (val \div p[Nibbles - i]) % 16
  BY <1>6, <1>8
<1>10. Value(digits, 16) = val
  BY <1>1, <1>2, <1>3, <1>8, <1>9, DigitsOf
<1> QED BY <1>10 DEF digits

-----------------------------------------------------------------------------
(* Every step keeps the invariant.                                         *)
LEMMA NextInv == IInv /\ [Next]_vars => IInv'
<1>1. IInv /\ UNCHANGED vars => IInv'
  BY DEF vars, cursor, registers, screenVars, IInv, Cells, TypeOK, Heals, Fits, Reading, Before
<1>2. IInv /\ message = <<>> /\ Kernel /\ UNCHANGED message => IInv'
  BY CellsStep, HealsStep, ReadingStep DEF IInv
<1> QED
  BY <1>1, <1>2, InterruptStep, HandlerStep DEF Next

(* Spec keeps it for ever.                                                 *)
LEMMA InvariantHolds == Spec => []IInv
  BY InitInv, NextInv, PTL DEF Spec

(* The cursor stays on the grid of cells and glyphs are drawn on the       *)
(* screen, wherever the handler printed inside fb_putchar.                 *)
THEOREM TypeCorrect == Spec => []TypeOK
<1>1. IInv => TypeOK
  BY DEF IInv, Cells
<1> QED
  BY <1>1, InvariantHolds, PTL

(* A race of fb_putchar with the handler heals: when the character is done *)
(* the next glyph has room for its whole width, unless a tab came last.    *)
THEOREM CursorRecovers == Spec => []CursorHeals
<1>1. IInv => CursorHeals
  BY DEF IInv, Heals, Fits, CursorHeals
<1> QED
  BY <1>1, InvariantHolds, PTL

(* Only a handler inside fb_putchar or fb_clear makes one glyph cover      *)
(* another.                                                                *)
THEOREM GlyphsStayApart == Spec => []GlyphsApart
<1>1. IInv => GlyphsApart
  BY DEF IInv, Reading, GlyphsApart
<1> QED
  BY <1>1, InvariantHolds, PTL

(* For every value of a word fb_print_dec and fb_print_hex print digits    *)
(* that denote it, and fb_print_dec's buffer has room for them.            *)
THEOREM DigitsDenote == Spec => []NumbersDenote
<1>1. Numbers \subseteq Words
  BY DisplayAssumption
<1>2. NumbersDenote
  BY <1>1, DecimalDenotes, HexDenotes DEF NumbersDenote
<1> QED
  BY <1>2, PTL
=============================================================================
