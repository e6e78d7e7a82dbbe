-------------------------------- MODULE LogText --------------------------------
(***************************************************************************)
(* From a text to a line of LogRing: printf() and the hook in the          *)
(* framework's log format it into a buffer of kLineLen bytes, store()      *)
(* drops line ends and colour escapes, and what is left goes into the      *)
(* ring, unless nothing is.  Of the characters those count that store()    *)
(* tells apart.                                                            *)
(***************************************************************************)
EXTENDS LogRing

CONSTANTS
  kLineLen,
  Escape,    \* begins a colour escape
  EscapeEnd, \* 'm', which also is a letter
  LineEnd,   \* '\r' or '\n'
  Letter,    \* any other character
  MaxText    \* bound on the length of a text

ASSUME kLineLenAssumption == kLineLen \in Nat \ {0}
ASSUME EscapeAssumption == Escape \notin {EscapeEnd, LineEnd}

VARIABLE text  \* what a task is about to log

-----------------------------------------------------------------------------
(* The code.                                                               *)

\* vsnprintf into a buffer with room for the terminator.
Formatted(txt) == SubSeq(txt, 1, IF Len(txt) < kLineLen THEN Len(txt) ELSE kLineLen - 1)

Start == [clean |-> <<>>, skipping |-> FALSE]

\* A slip: an escape is taken to be one character long.
NextCharShort(s, c) ==
  IF c \in {Escape, LineEnd} \/ Len(s.clean) >= kLineLen - 1 THEN s
  ELSE [s EXCEPT !.clean = Append(@, c)]

\* One round of the loop, or of the loop in it that skips an escape.
NextChar(s, c) ==
  IF s.skipping THEN [s EXCEPT !.skipping = c # EscapeEnd]
  ELSE IF Len(s.clean) >= kLineLen - 1 \/ c = LineEnd THEN s
  ELSE IF c = Escape THEN [s EXCEPT !.skipping = TRUE]
  ELSE [s EXCEPT !.clean = Append(@, c)]

\* Where the loop is after each of the characters.
Loop(txt) ==
  LET after[n \in 0..Len(txt)] ==
        IF n = 0 THEN Start ELSE NextChar(after[n - 1], txt[n])
  IN  after

\* <<>> is no line.
Stored(txt) == Loop(txt)[Len(txt)].clean

Line(txt) == Stored(Formatted(txt))

TextInit == Init /\ text = <<>>

\* The arguments of the call make up the text.
Compose(c) ==
  /\ Len(text) < MaxText
  /\ text' = Append(text, c)
  /\ UNCHANGED vars

Log ==
  /\ text' = <<>>
  /\ IF Line(text) = <<>> THEN UNCHANGED vars ELSE store

Render ==
  /\ RenderStart \/ RenderLine \/ RenderEnd
  /\ UNCHANGED text

TextNext ==
  \/ \E c \in {Escape, EscapeEnd, LineEnd, Letter} : Compose(c)
  \/ Log
  \/ Render

TextSpec == TextInit /\ [][TextNext]_<<vars, text>>

-----------------------------------------------------------------------------
(* What it is for.                                                         *)

\* An escape reaches from its first character to the next EscapeEnd, or to the
\* end of the text.
InEscape(txt, k) ==
  \E j \in 1..k : txt[j] = Escape /\ \A l \in j..k-1 : txt[l] # EscapeEnd

Shown(txt) == {k \in 1..Len(txt) : txt[k] # LineEnd /\ ~InEscape(txt, k)}

\* A line of the log is what a terminal shows of the characters that fit the
\* buffer: each of them once, in order and no other, even where the buffer ends
\* in the middle of an escape (logbuf.cpp:23-48, 61-75, 83-93).
TextKept ==
  LET line == Line(text)
  IN  \E pos \in [1..Len(line) -> Shown(text)] :
        /\ \A n \in DOMAIN pos : line[n] = text[pos[n]]
        /\ \A m, n \in DOMAIN pos : m < n => pos[m] < pos[n]
        /\ {pos[n] : n \in DOMAIN pos} = {k \in Shown(text) : k < kLineLen}
=============================================================================
