----------------------------- MODULE ScreenText -----------------------------
(***************************************************************************)
(* Words on the screen: text of screen_renderer.c breaks them into lines   *)
(* no wider than their place, measured by screen_font.c, and draws line    *)
(* under line; and the time that is left of a recording, which             *)
(* screen_ui_recording_timer computes from a clock of w bits that wraps    *)
(* around.                                                                 *)
(*                                                                         *)
(* A text is a sequence of characters, whole ones: "i" is narrow, "m" is   *)
(* wide, "?" has no glyph, "nl" ends a line.                               *)
(***************************************************************************)
EXTENDS Naturals, Sequences, SequencesExt

CONSTANTS
  MaxText,  \* characters of a text
  Width,    \* of the place for the words
  Height,   \* lines that fit on the screen
  Room,     \* characters that a line's buffer holds, 127 bytes in the code
  Clock,    \* the clock wraps around at this time; one second is two units
  Limit     \* seconds of a recording, 600 in the code

TextAssumption ==
  /\ MaxText \in Nat /\ Width \in Nat \ {0} /\ Height \in Nat /\ Room \in Nat
  /\ Limit \in Nat /\ Clock \in Nat /\ 2 * Limit < Clock

Letters == {"i", "m"}
Characters == Letters \cup {" ", "?", "nl"}

VARIABLES
  source,  \* the whole text
  pos,     \* s: the next character
  line,    \* the line that is being filled: its first character, its last space, or none
  drawn,   \* the lines drawn, by their first and last character
  result,  \* "running", TRUE or FALSE, as a word
  timer    \* start and now of a recording, and what was shown before

textVars == <<source, pos, line, drawn, result, timer>>

Advance(c) == IF c = "m" THEN 2 ELSE 1
screen_font_measure(s) == FoldLeft(LAMBDA sum, c : sum + Advance(c), 0, s)
HasGlyphs(s) == "?" \notin ToSet(s)

NoLine == [open |-> FALSE, start |-> 0, space |-> 0]
Seconds(elapsed) == IF elapsed >= 2 * Limit THEN 0 ELSE (2 * Limit - elapsed + 1) \div 2

Init ==
  /\ source \in UNION {[1 .. n -> Characters] : n \in 0 .. MaxText}
  /\ pos = 1 /\ line = NoLine /\ drawn = <<>> /\ result = "running"
  /\ timer \in [start : 0 .. Clock - 1, for : {0}, text : {Limit}]
  /\ source # <<>> => timer.start = 0

-----------------------------------------------------------------------------
(* text, a character at a time.                                            *)
Ends == pos > Len(source)
Char == source[pos]
Filled == SubSeq(source, line.start, pos - 1)

(* An end of line where a line would begin leaves one empty.               *)
EmptyLine ==
  /\ ~line.open /\ ~Ends /\ Char = "nl"
  /\ pos' = pos + 1 /\ drawn' = Append(drawn, [from |-> pos, to |-> pos - 1])
  /\ UNCHANGED <<line, result>>

Begin ==
  /\ ~line.open /\ ~Ends /\ Char # "nl"
  /\ line' = [open |-> TRUE, start |-> pos, space |-> 0]
  /\ UNCHANGED <<pos, drawn, result>>

Fail == result' = "FALSE" /\ UNCHANGED <<pos, line, drawn>>

(* The rest of the loop's round: the line is drawn up to `last', and goes  *)
(* on after it, after an end of line and after spaces.                     *)
AfterSpaces(i) ==
  LET letters == {j \in i .. Len(source) : source[j] # " "}
  IN  IF letters = {} THEN Len(source) + 1 ELSE CHOOSE j \in letters : \A k \in letters : j <= k
Resumes(i) == AfterSpaces(IF i <= Len(source) /\ source[i] = "nl" THEN i + 1 ELSE i)

Draw(last, next) ==
  IF next = line.start \/ Len(drawn) >= Height THEN Fail
  ELSE /\ drawn' = Append(drawn, [from |-> line.start, to |-> last])
       /\ pos' = Resumes(next) /\ line' = NoLine
       /\ UNCHANGED result

LastOf_width(s) == pos - 1  \* mutant: what did not fit is drawn and drawn again
LastOf(s) == IF s # 0 THEN s - 1 ELSE pos - 1
NextOf(s) == IF s # 0 THEN s + 1 ELSE pos

Fill ==
  /\ line.open /\ ~Ends /\ Char # "nl"
  /\ LET grown == Append(Filled, Char)
     IN  CASE Len(grown) > Room \/ ~HasGlyphs(grown) -> Fail
           [] Len(grown) <= Room /\ HasGlyphs(grown) /\ screen_font_measure(grown) > Width ->
                IF Filled = <<>> THEN Fail ELSE Draw(LastOf(line.space), NextOf(line.space))
           [] OTHER ->
                /\ line' = [line EXCEPT !.space = IF Char = " " THEN pos ELSE @]
                /\ pos' = pos + 1
                /\ UNCHANGED <<drawn, result>>

LineEnds ==
  /\ line.open /\ (IF Ends THEN TRUE ELSE Char = "nl")
  /\ Draw(pos - 1, pos)

Done ==
  /\ ~line.open /\ Ends
  /\ result' = "TRUE"
  /\ UNCHANGED <<pos, line, drawn>>

Text ==
  /\ result = "running" /\ timer.for = 0
  /\ EmptyLine \/ Begin \/ Fill \/ LineEnds \/ Done
  /\ UNCHANGED <<source, timer>>

(* screen_ui_recording_timer, in each round of a recording.                *)
Elapsed(now) == (now + Clock - timer.start) % Clock
Now == (timer.start + timer.for) % Clock

Round ==
  /\ source = <<>> /\ timer.for < 2 * Limit + 2
  /\ timer' = [timer EXCEPT !.for = @ + 1, !.text = Seconds(Elapsed(Now))]
  /\ UNCHANGED <<source, pos, line, drawn, result>>

Next == Text \/ Round

Spec == Init /\ [][Next]_textVars

-----------------------------------------------------------------------------
TypeOK ==
  /\ pos \in 1 .. Len(source) + 1 /\ line.start \in 0 .. Len(source) /\ line.space \in 0 .. Len(source)
  /\ result \in {"running", "TRUE", "FALSE"} /\ timer.text \in 0 .. Limit

(* What is drawn is the text: nothing twice, nothing in another order,     *)
(* nothing left out but spaces and ends of lines, no line wider than its   *)
(* place, and no word broken that could begin the next line.               *)
Before(n) == IF n = 1 THEN 0 ELSE drawn[n - 1].to
Skipped(i, j) == \A k \in i .. j : source[k] \in {" ", "nl"}

LinesAreTheText ==
  /\ \A n \in DOMAIN drawn :
       LET l == drawn[n]
       IN  /\ l.from > Before(n) /\ Skipped(Before(n) + 1, l.from - 1)
           /\ \A k \in l.from .. l.to : source[k] # "nl"
           /\ screen_font_measure(SubSeq(source, l.from, l.to)) <= Width
           /\ l.to + 1 \in DOMAIN source /\ source[l.to + 1] \in Letters =>
                " " \notin ToSet(SubSeq(source, l.from, l.to))
  /\ result = "TRUE" => HasGlyphs(source) /\ Skipped(Before(Len(drawn) + 1) + 1, Len(source))

(* Words are refused only where they cannot be drawn: a character without  *)
(* a glyph or wider than the place, a line longer than the buffer, or no   *)
(* room under the lines.                                                   *)
RefusedForAReason ==
  result = "FALSE" =>
    \/ ~HasGlyphs(source) \/ Width < 2 \/ Len(drawn) >= Height
    \/ Len(Filled) >= Room

(* The time shown is never less than what is left, reaches zero with the   *)
(* recording's limit and not before, wherever the clock wraps around.      *)
TimeLeft == 2 * Limit - (timer.for - 1)
TimerIsTrue ==
  timer.for > 0 =>
    IF timer.for - 1 >= 2 * Limit THEN timer.text = 0 ELSE 2 * timer.text \in {TimeLeft, TimeLeft + 1}

=============================================================================
