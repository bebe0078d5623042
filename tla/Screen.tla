--------------------------------- MODULE Screen ---------------------------------
(***************************************************************************)
(* The drawing under both consoles: putchar (src/installer/src/std/        *)
(* stdio.c), the glyphs of a font (sys/font.c, assets/font6x8.c) and       *)
(* driver/vga.c.  The kernel has the same functions a second time; what    *)
(* its handlers do in the middle of putchar is KernelStart's matter.       *)
(*                                                                         *)
(* A bitmap is the sequence of its bytes, a drawing the function from the  *)
(* pixels it sets to their colours: a pixel drawn twice has the last one.  *)
(***************************************************************************)
EXTENDS Integers, SequencesExt

CONSTANTS
  VGA_WIDTH, VGA_HEIGHT,  \* 320 x 200
  GLYPH_WIDTH, GLYPH_HEIGHT, GLYPH_BYTES, CHAR_COUNT,  \* of the font: 6, 8, 1, 256
  BITS,       \* of a byte, 8
  LINE_FEED, CARRIAGE_RETURN  \* two characters

ASSUME FontAssumption ==
  /\ {GLYPH_WIDTH, GLYPH_HEIGHT, GLYPH_BYTES, CHAR_COUNT, BITS} \subseteq Nat \ {0}
  /\ {VGA_WIDTH, VGA_HEIGHT} \subseteq Nat
  /\ GLYPH_BYTES * BITS >= GLYPH_WIDTH
  /\ VGA_WIDTH >= GLYPH_WIDTH /\ VGA_HEIGHT >= GLYPH_HEIGHT

(* The table: how many bytes of pixels, and the record that describes them. *)
fontdata == CHAR_COUNT * GLYPH_BYTES * GLYPH_HEIGHT
font_6x8 == [width |-> GLYPH_WIDTH, height |-> GLYPH_HEIGHT, byteWidth |-> GLYPH_BYTES,
             charCount |-> CHAR_COUNT, size |-> fontdata]

(* The offset of a glyph in the table.                                      *)
font_get_char(font, chr) ==
  IF chr > font.charCount THEN 0 ELSE font.byteWidth * font.height * chr

(***************************************************************************)
(* vga.c                                                                   *)
(***************************************************************************)
OnScreen(x, y) == x < VGA_WIDTH /\ y < VGA_HEIGHT
PutPixel(screen, p, color) == [q \in DOMAIN screen \cup {p} |-> IF q = p THEN color ELSE screen[q]]
vga_draw_pixel(screen, x, y, color) ==
  IF OnScreen(x, y) THEN PutPixel(screen, <<x, y>>, color) ELSE screen

(* The bits of a byte from left to right.                                   *)
Bit(byte, bit) == (byte \div 2 ^ (BITS - 1 - bit)) % 2

vga_draw_bitmap(x, y, w, h, bitmap, bgColor, fgColor) ==
  LET widthByteCount == w \div BITS + (IF w % BITS # 0 THEN 1 ELSE 0)
      \* byte, bit and line
      drawn == {d \in (0 .. widthByteCount - 1) \X (0 .. BITS - 1) \X (0 .. h - 1) :
                  d[1] * BITS + d[2] < w}
      X(d) == x + d[1] * BITS + d[2]
      Y(d) == y + d[3]
      Color(d) == IF Bit(bitmap[d[3] * widthByteCount + d[1] + 1], d[2]) = 1 THEN fgColor ELSE bgColor
  IN FoldSet(LAMBDA d, screen : vga_draw_pixel(screen, X(d), Y(d), Color(d)), <<>>, drawn)

vga_draw_rect(x, y, w, h, color) ==
  FoldSet(LAMBDA d, screen : vga_draw_pixel(screen, x + d[1], y + d[2], color), <<>>,
          (0 .. w - 1) \X (0 .. h - 1))

(***************************************************************************)
(* stdio.c: where a character goes, and the cursor after it.               *)
(***************************************************************************)
putchar(cursor, c) ==
  LET wraps == (cursor.x + 1) * GLYPH_WIDTH > VGA_WIDTH
      line  == IF wraps THEN cursor.y + 1 ELSE cursor.y
      x     == IF wraps THEN 0 ELSE cursor.x
      y     == IF (line + 1) * GLYPH_HEIGHT > VGA_HEIGHT THEN 0 ELSE line
  IN [x     |-> IF c \in {LINE_FEED, CARRIAGE_RETURN} THEN 0 ELSE x + 1,
      y     |-> IF c = LINE_FEED THEN y + 1 ELSE y,
      glyph |-> IF c \in {LINE_FEED, CARRIAGE_RETURN} THEN <<>>
                ELSE <<x * GLYPH_WIDTH, y * GLYPH_HEIGHT, font_get_char(font_6x8, c)>>]

(* What the characters of a text do, one after the other.  A char is signed: *)
(* one with its eighth bit set becomes a negative int.                      *)
Char(byte) == IF byte >= 2 ^ (BITS - 1) THEN byte - 2 ^ BITS ELSE byte
puts(cursor, s) ==
  LET after[n \in 0 .. Len(s)] == IF n = 0 THEN cursor ELSE putchar(after[n - 1], Char(s[n]))
  IN [i \in 1 .. Len(s) + 1 |-> after[i - 1]]

(***************************************************************************)
(* Properties, of one call each.                                           *)
(***************************************************************************)

(* Each bit of a bitmap is the pixel at its place, lines from the top and   *)
(* bits from the left, whatever the width leaves unused of the last byte of *)
(* a line; what would be outside of the screen is left out.                 *)
BitmapIsRight(x, y, w, h, bitmap, drawing) ==
  LET perLine == CHOOSE n \in 1 .. w : BITS * (n - 1) < w /\ w <= BITS * n
  IN /\ DOMAIN drawing = {p \in (x .. x + w - 1) \X (y .. y + h - 1) : OnScreen(p[1], p[2])}
     /\ \A p \in DOMAIN drawing :
          drawing[p] = LET i == p[1] - x  byte == bitmap[(p[2] - y) * perLine + i \div BITS + 1]
                       IN IF Bit(byte, i % BITS) = 1 THEN "fg" ELSE "bg"

(* A rectangle is filled with its colour, where it is on the screen.        *)
RectIsRight(x, y, w, h, color, drawing) ==
  drawing = [p \in {q \in (x .. x + w - 1) \X (y .. y + h - 1) : OnScreen(q[1], q[2])} |-> color]

(* A text of whatever length is drawn with whole glyphs, each inside of the *)
(* screen and no two in succession in the same place; and the glyph of a    *)
(* character of seven bits that the font has is one of its table.           *)
InFont(byte) == byte < CHAR_COUNT /\ byte < 2 ^ (BITS - 1)
FromTable(glyph) == 0 <= glyph[3] /\ glyph[3] + GLYPH_BYTES * GLYPH_HEIGHT <= fontdata
TextIsOnScreen(s, done) ==
  \A i \in 2 .. Len(done) : done[i].glyph # <<>> =>
    /\ done[i].glyph[1] + GLYPH_WIDTH <= VGA_WIDTH
    /\ done[i].glyph[2] + GLYPH_HEIGHT <= VGA_HEIGHT
    /\ InFont(s[i - 1]) => FromTable(done[i].glyph)
    /\ done[i - 1].glyph # <<>> /\ VGA_WIDTH >= 2 * GLYPH_WIDTH =>
         SubSeq(done[i].glyph, 1, 2) # SubSeq(done[i - 1].glyph, 1, 2)

(***************************************************************************)
(* What the code checks for, and does not keep.                            *)
(***************************************************************************)

(* "if (chr > pFont->charCount)" (font.c:13): a character the font does not *)
(* have gets a glyph all the same, and no byte is taken from outside of the *)
(* table.                                                                   *)
GlyphsAreInTable(done) ==
  \A i \in DOMAIN done : done[i].glyph # <<>> => FromTable(done[i].glyph)
=============================================================================
