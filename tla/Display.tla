------------------------------ MODULE Display ------------------------------
(***************************************************************************)
(* display.c: text on the framebuffer.  kernel_main prints a character at  *)
(* a time, a step per store of the cursor; the interrupt handler, which    *)
(* prints too (network.c, i219.c), may come between any two and prints its *)
(* message to the end, a step per character, for nothing interrupts it.  A *)
(* value that the compiler may keep in a register or load again is either  *)
(* of the two.                                                             *)
(*                                                                         *)
(* A character is newline, tab, x, or a digit, which stands for itself.    *)
(***************************************************************************)
EXTENDS Naturals, Sequences, SequencesExt

CONSTANTS
  fb_width, fb_height,  \* of the framebuffer, in pixels
  BufferSize,           \* digits fb_print_dec has room for: 20
  Nibbles,              \* hexadecimal digits of a word: 16
  Numbers,              \* values printed
  Messages,             \* what the handler prints
  CharBound, IrqBound   \* bounds: characters kernel_main prints, interrupts

font_width == 8
line_height == 10
newline == 100
tab == 101
letter_x == 102

(* The powers of base, up to the n-th, and the values of a word.           *)
Powers(base, n) ==
  LET power[i \in 0 .. n] == IF i = 0 THEN 1 ELSE base * power[i - 1]
  IN  power
Words == 0 .. (Powers(16, Nibbles)[Nibbles] - 1)

ASSUME DisplayAssumption ==
  /\ fb_width \in Nat /\ fb_height \in Nat /\ fb_width >= font_width
  /\ \A message \in Messages :
       message \in Seq(Nat) /\ tab \notin ToSet(message)  \* as those of the handlers
  /\ BufferSize \in Nat \ {0} /\ Nibbles \in Nat
  /\ Numbers \subseteq Words
  /\ CharBound \in Nat /\ IrqBound \in Nat

(* The comment on fb_print_dec's buffer: "64-bit max is 20 digits long".   *)
ASSUME BufferAssumption == Words \subseteq 0 .. (Powers(10, BufferSize)[BufferSize] - 1)

VARIABLES
  cursor_x, cursor_y,  \* display.c
  text,                \* what kernel_main has still to print
  message,             \* what the handler has still to print, <<>> if it does not run
  step,                \* where it is in fb_putchar or fb_clear
  x, y,                \* registers of fb_putchar
  chars, irqs,         \* characters and interrupts left
  drawn,               \* corners of the glyphs on the screen
  over,                \* history: a glyph was drawn over another
  raced,               \* history: the handler printed inside fb_putchar or fb_clear
  tabbed               \* history: the last character put was a tab

cursor == <<cursor_x, cursor_y>>
registers == <<x, y>>
screenVars == <<drawn, over, raced>>
vars == <<cursor, text, message, step, registers, chars, irqs, screenVars, tabbed>>

Init ==
  /\ cursor_x = 0 /\ cursor_y = 0 /\ text = <<>> /\ message = <<>> /\ step = "next" /\ x = 0 /\ y = 0
  /\ chars = CharBound /\ irqs = IrqBound /\ drawn = {}
  /\ over = FALSE /\ raced = FALSE /\ tabbed = FALSE

-----------------------------------------------------------------------------
(* Numbers.                                                                *)

(* The digits collected, the lowest first.                                 *)
buffer[val \in Words] ==
  IF val = 0 THEN <<>> ELSE <<val % 10>> \o buffer[val \div 10]

(* Mutant of fb_print_dec: prints the digits in the order it found them.   *)
fb_print_dec_forward(val) == IF val = 0 THEN <<0>> ELSE buffer[val]

(* Digits are taken from the low end and printed in reverse.               *)
fb_print_dec(val) == IF val = 0 THEN <<0>> ELSE Reverse(buffer[val])

fb_print_hex(val) ==
  <<0, letter_x>> \o [i \in 1 .. Nibbles |-> (val \div Powers(16, Nibbles)[Nibbles - i]) % 16]

-----------------------------------------------------------------------------
(* The screen.                                                             *)

(* What falls outside is not drawn: there is no scrolling.                 *)
Seen(cx, cy) == IF cx < fb_width /\ cy < fb_height THEN {<<cx, cy>>} ELSE {}

(* Mutant of Wraps: a glyph that is cut at the edge still fits.            *)
WrapsLate(cx) == cx >= fb_width

Wraps(cx) == cx + font_width > fb_width

IsGlyph(c) == c \notin {newline, tab}

Draw == /\ drawn' = drawn \cup Seen(cursor_x, cursor_y)
        /\ over' = (over \/ Seen(cursor_x, cursor_y) \cap drawn # {})

-----------------------------------------------------------------------------
(* The interrupt handler.                                                  *)
Interrupt ==
  /\ irqs > 0 /\ irqs' = irqs - 1
  /\ message' \in Messages
  /\ raced' = (raced \/ step # "next")
  /\ UNCHANGED <<cursor, text, step, registers, chars, drawn, over, tabbed>>

(* All of fb_putchar, which nothing interrupts.                            *)
HandlerPuts ==
  /\ message # <<>> /\ message' = Tail(message)
  /\ \/ /\ Head(message) = newline
        /\ cursor_x' = 0 /\ cursor_y' = cursor_y + line_height
        /\ UNCHANGED <<drawn, over>>
     \/ /\ IsGlyph(Head(message))
        /\ Draw
        /\ LET after == cursor_x + font_width
           IN  IF Wraps(after) THEN cursor_x' = 0 /\ cursor_y' = cursor_y + line_height
                               ELSE cursor_x' = after /\ UNCHANGED cursor_y
  /\ tabbed' = FALSE
  /\ UNCHANGED <<text, step, registers, chars, irqs, raced>>

-----------------------------------------------------------------------------
(* kernel_main, which prints strings and numbers, and clears the screen.   *)

fb_print ==
  /\ step = "next" /\ text = <<>>
  /\ \E string \in {<<newline>>, <<tab>>} \cup {fb_print_dec(n) : n \in Numbers}
                     \cup {fb_print_hex(n) : n \in Numbers} :
       Len(string) <= chars /\ text' = string /\ chars' = chars - Len(string)
  /\ UNCHANGED <<cursor, step, registers, irqs, screenVars, tabbed>>

Putting(c) == step = "next" /\ text # <<>> /\ Head(text) = c

(* The character is done.                                                  *)
Done ==
  /\ step' = "next"
  /\ tabbed' = (Head(text) = tab) /\ text' = Tail(text)
  /\ x' = 0 /\ y' = 0

Newline ==
  /\ Putting(newline)
  /\ cursor_x' = 0
  /\ step' = "newline"
  /\ UNCHANGED <<cursor_y, text, registers, chars, irqs, screenVars, tabbed>>

(* Mutant of NewlineDown: a line is as high as a glyph.                    *)
NewlineDownTight ==
  /\ step = "newline"
  /\ cursor_y' = cursor_y + font_width
  /\ Done
  /\ UNCHANGED <<cursor_x, chars, irqs, screenVars>>

NewlineDown ==
  /\ step = "newline"
  /\ cursor_y' = cursor_y + line_height
  /\ Done
  /\ UNCHANGED <<cursor_x, chars, irqs, screenVars>>

Tab ==
  /\ Putting(tab)
  /\ cursor_x' = cursor_x + 4 * font_width
  /\ Done
  /\ UNCHANGED <<cursor_y, chars, irqs, screenVars>>

Glyph ==
  /\ step = "next" /\ text # <<>> /\ IsGlyph(Head(text))
  /\ Draw
  /\ x' = cursor_x /\ y' = cursor_y
  /\ step' = "advance"
  /\ UNCHANGED <<cursor, text, chars, irqs, raced, tabbed>>

Advance ==
  /\ step = "advance"
  /\ \E from \in {x, cursor_x} : cursor_x' = from + font_width /\ x' = from + font_width
  /\ step' = "wrap"
  /\ UNCHANGED <<cursor_y, text, y, chars, irqs, screenVars, tabbed>>

(* Mutant of Wrap: back to the start of the same line.                     *)
WrapBack ==
  /\ step = "wrap"
  /\ \E at \in {x, cursor_x} : cursor_x' = IF Wraps(at) THEN 0 ELSE cursor_x
  /\ Done
  /\ UNCHANGED <<cursor_y, chars, irqs, screenVars>>

Wrap ==
  /\ step = "wrap"
  /\ \E at \in {x, cursor_x}, from \in {y, cursor_y} :
       IF Wraps(at) THEN cursor_x' = 0 /\ cursor_y' = from + line_height
                    ELSE UNCHANGED cursor
  /\ Done
  /\ UNCHANGED <<chars, irqs, screenVars>>

fb_clear ==
  /\ step = "next" /\ text = <<>> /\ chars > 0
  /\ drawn' = {}
  /\ step' = "clear_x" /\ chars' = chars - 1
  /\ UNCHANGED <<cursor, text, registers, irqs, over, raced, tabbed>>

ClearCursor ==
  /\ \/ step = "clear_x" /\ cursor_x' = 0 /\ step' = "clear_y" /\ UNCHANGED <<cursor_y, tabbed>>
     \/ step = "clear_y" /\ cursor_y' = 0 /\ step' = "next" /\ tabbed' = FALSE
        /\ UNCHANGED cursor_x
  /\ UNCHANGED <<text, registers, chars, irqs, screenVars>>

Kernel ==
  \/ fb_print \/ Newline \/ NewlineDown \/ Tab \/ Glyph \/ Advance \/ Wrap
  \/ fb_clear \/ ClearCursor

Next ==
  \/ message = <<>> /\ Kernel /\ UNCHANGED message
  \/ message = <<>> /\ Interrupt
  \/ HandlerPuts

Spec == Init /\ [][Next]_vars

-----------------------------------------------------------------------------
(* Types; the cursor is on the grid of cells, whatever interrupted what.   *)
TypeOK ==
  /\ cursor_x \in Nat /\ cursor_x % font_width = 0
  /\ cursor_y \in Nat /\ cursor_y % line_height = 0
  /\ {over, raced, tabbed} \subseteq BOOLEAN
  /\ step \in {"next", "newline", "advance", "wrap", "clear_x", "clear_y"}
  /\ \A glyph \in drawn : glyph[1] < fb_width /\ glyph[2] < fb_height

(* A handler that prints inside fb_putchar disturbs the text of the moment *)
(* and no more: outside of it the next glyph has room for its whole width, *)
(* unless a tab, which is not wrapped, came last.                          *)
CursorHeals == step = "next" /\ ~tabbed => cursor_x + font_width <= fb_width

(* Without such an interruption no glyph is drawn over another, wrapping,  *)
(* tabs, clearing and the edge of the screen included.                     *)
GlyphsApart == over => raced

Value(digits, base) ==
  LET upto[i \in 0 .. Len(digits)] == IF i = 0 THEN 0 ELSE base * upto[i - 1] + digits[i]
  IN  upto[Len(digits)]

(* What kernel_main is about to print for a number denotes that number, in *)
(* decimal and in hexadecimal digits, and fits fb_print_dec's buffer.      *)
NumbersDenote ==
  \A n \in Numbers :
    /\ text = fb_print_dec(n) => Len(text) <= BufferSize /\ Value(text, 10) = n
    /\ text = fb_print_hex(n) => Value(SubSeq(text, 3, Nibbles + 2), 16) = n
=============================================================================
