------------------------------ MODULE Display ------------------------------
(***************************************************************************)
(* The text screen of kernel/drivers/display/display.c: where the cursor   *)
(* goes as a text is printed character by character.  A full screen is not *)
(* scrolled: the text goes on at the top, over what is there.              *)
(***************************************************************************)
EXTENDS Integers, Sequences

CONSTANT Texts      \* what may be printed

Newline == "newline"
Letter  == "letter"

ASSUME DisplayAssumption == Texts \subseteq Seq({Newline, Letter})

VARIABLES
    fb_w, fb_h,             \* 0 before display_init
    cursor_x, cursor_y,
    text,                   \* what is left of the string that is printed
    page,                   \* history: the letters drawn since the top, in order
    at_top                  \* history: the next letter begins a page

displayVars == <<fb_w, fb_h, cursor_x, cursor_y, text, page, at_top>>

DisplayStart ==
    /\ fb_w = 0 /\ fb_h = 0
    /\ cursor_x = 0 /\ cursor_y = 0
    /\ text = <<>>
    /\ page = <<>>
    /\ at_top = TRUE

\* display_clear, but for the pixels.
DisplayClear ==
    /\ text = <<>>
    /\ cursor_x' = 8 /\ cursor_y' = 8
    /\ page' = <<>>
    /\ at_top' = TRUE
    /\ UNCHANGED text

\* display_print_string is called; a call is over before the next begins.
PrintString(string) ==
    /\ text = <<>>
    /\ text' = string
    /\ UNCHANGED <<fb_w, fb_h, cursor_x, cursor_y, page, at_top>>

\* Mutation: the letters of two lines touch.
MovedTight(char) ==
    IF char = Newline \/ cursor_x + 9 + 9 > fb_w
    THEN <<8, cursor_y + 7>>
    ELSE <<cursor_x + 9, cursor_y>>

\* Where the cursor goes, the bottom of the screen aside: to the next line when
\* it is told to or a letter would no longer fit.
Moved(char) ==
    IF char = Newline \/ cursor_x + 9 + 9 > fb_w
    THEN <<8, cursor_y + 12>>
    ELSE <<cursor_x + 9, cursor_y>>

\* One pass of the loop of display_print_string.
PrintChar ==
    /\ text # <<>>
    /\ text' = Tail(text)
    /\ page' = IF Head(text) = Newline THEN page
               ELSE Append(IF at_top THEN <<>> ELSE page, <<cursor_x, cursor_y>>)
    /\ LET to   == Moved(Head(text))
           full == to[2] + 12 > fb_h
       IN  /\ cursor_x' = to[1]
           /\ cursor_y' = IF full THEN 8 ELSE to[2]
           /\ at_top' = (full \/ (at_top /\ Head(text) = Newline))
    /\ UNCHANGED <<fb_w, fb_h>>

-----------------------------------------------------------------------------
GlyphSize == 8

OnScreen(at)  == at[1] + GlyphSize <= fb_w /\ at[2] + GlyphSize <= fb_h
Beside(a, b)  == a[1] + GlyphSize <= b[1] \/ b[1] + GlyphSize <= a[1]
Below(a, b)   == a[2] + GlyphSize <= b[2] \/ b[2] + GlyphSize <= a[2]

\* On a screen with room for a letter and its margin, every letter of a page is
\* drawn whole and none over another one, however the lines are broken
\* (display.c:45,47): only a page that begins anew covers what is there.
LettersApart ==
    fb_w >= 8 + GlyphSize /\ fb_h >= 8 + GlyphSize =>
        /\ \A i \in DOMAIN page : OnScreen(page[i])
        /\ \A i, j \in DOMAIN page :
              i # j => Beside(page[i], page[j]) \/ Below(page[i], page[j])
=============================================================================
