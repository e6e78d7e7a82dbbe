------------------------------- MODULE LogRing -------------------------------
(***************************************************************************)
(* The log buffer of src/logbuf.cpp: a ring of kLines slots that any task  *)
(* may write through store() under a spinlock, and that the portal renders *)
(* from loopTask taking the lock anew for every line, so that writers run  *)
(* between two lines of one rendering.                                     *)
(*                                                                         *)
(* A line is its number in the order of storing.  What store() makes of    *)
(* its text is in module LogText; a text nothing is left of is no line.    *)
(***************************************************************************)
EXTENDS Integers, Sequences

CONSTANTS
  kLines,    \* slots of the ring
  MaxStored  \* bound on the lines stored in a behaviour

ASSUME kLinesAssumption == kLines \in Nat \ {0}
ASSUME MaxStoredAssumption == MaxStored \in Nat

VARIABLES
  g_lines,
  g_head,
  g_count,
  stored,     \* lines stored since boot; no step of the program reads it
  rendering,  \* loopTask is inside render()
  i,          \* its loop counter
  out,        \* what it has appended
  startedAt   \* value of stored when it was called

ringVars   == <<g_lines, g_head, g_count, stored>>
renderVars == <<rendering, i, out, startedAt>>
vars == <<ringVars, renderVars>>

Empty == 0  \* a slot never written

TypeOK ==
  /\ g_lines \in [0..kLines-1 -> Nat]
  /\ g_head \in 0..kLines-1
  /\ g_count \in 0..kLines
  /\ stored \in Nat
  /\ rendering \in BOOLEAN
  /\ i \in 0..kLines
  /\ out \in Seq(Nat)
  /\ startedAt \in 0..stored

Init ==
  /\ g_lines = [s \in 0..kLines-1 |-> Empty]
  /\ g_head = 0
  /\ g_count = 0
  /\ stored = 0
  /\ rendering = FALSE
  /\ i = 0
  /\ out = <<>>
  /\ startedAt = 0

-----------------------------------------------------------------------------
(* Writers.                                                                *)

\* Indices go round the ring.
Slot(n) == n % kLines

\* A slip: the count runs one past the ring.
SaturatingLate(n) == IF n <= kLines THEN n + 1 ELSE n

\* A slip: the count goes round with the head.
SaturatingWrapped(n) == (n + 1) % (kLines + 1)

Saturating(n) == IF n < kLines THEN n + 1 ELSE n

\* The critical section of store().
store ==
  /\ stored < MaxStored
  /\ stored' = stored + 1
  /\ g_lines' = [g_lines EXCEPT ![g_head] = stored + 1]
  /\ g_head' = Slot(g_head + 1)
  /\ g_count' = Saturating(g_count)
  /\ UNCHANGED renderVars

-----------------------------------------------------------------------------
(* render(), one iteration per critical section.                           *)

\* A slip: slots are taken in place, as if the ring never turned.
OldestInPlace(k) == Slot(k)

\* The slot of the k-th oldest line.
Oldest(k) == Slot(g_head + kLines - g_count + k)

RenderStart ==
  /\ ~rendering
  /\ rendering' = TRUE
  /\ i' = 0
  /\ out' = <<>>
  /\ startedAt' = stored
  /\ UNCHANGED ringVars

RenderLine ==
  /\ rendering
  /\ i < kLines /\ i < g_count
  /\ out' = Append(out, g_lines[Oldest(i)])
  /\ i' = i + 1
  /\ UNCHANGED <<ringVars, rendering, startedAt>>

RenderEnd ==
  /\ rendering
  /\ ~(i < kLines /\ i < g_count)
  /\ rendering' = FALSE
  /\ UNCHANGED <<ringVars, i, out, startedAt>>

Next == store \/ RenderStart \/ RenderLine \/ RenderEnd

Spec == Init /\ [][Next]_vars

-----------------------------------------------------------------------------
(* Properties.                                                             *)

\* The ring implements the log it stands for: what it holds, oldest first, is
\* always the most recent lines (logbuf.h:5, logbuf.cpp:50-56, 104).
Held == [k \in 1..g_count |-> g_lines[Oldest(k - 1)]]

Promise == INSTANCE LogTail WITH Lines <- kLines, held <- Held

RingIsTail == Promise!Spec

\* A rendering shows lines in the order they were logged and none twice, no
\* matter how the ring turns under it (logbuf.cpp:94-106).
RenderInOrder == \A a, b \in 1..Len(out) : a < b => out[a] < out[b]

\* How many lines have been overwritten once n are stored.
Turned(n) == IF n > kLines THEN n - kLines ELSE 0

\* The a-th line shown is the a-th oldest of some moment of the rendering: it
\* is never older than what the ring held when the rendering began, and lines
\* are skipped only because the ring has turned meanwhile.  Until the ring is
\* full nothing is skipped at all (logbuf.cpp:98-104).
RenderPlaced ==
  \A a \in 1..Len(out) : out[a] \in a + Turned(startedAt)..a + Turned(stored)
=============================================================================
