---------------------------- MODULE LogRingProofs ----------------------------
(***************************************************************************)
(* Proofs about LogRing and LogText, for every size of the ring and of a   *)
(* line, any number of lines and any texts.  The ring implements LogTail,  *)
(* a rendering that other tasks write under shows lines in order, each     *)
(* near its place, and a line is what a terminal shows of the part of its  *)
(* text that fits the buffer.                                              *)
(***************************************************************************)
EXTENDS LogText, SequenceTheorems, WellFoundedInduction, TLAPS

\* The indices of the ring stay below twice its size, where % is one step.
LEMMA ModOnce ==
  ASSUME NEW a \in 0..2*kLines - 1
  PROVE  Slot(a) = IF a < kLines THEN a ELSE a - kLines
<1> USE kLinesAssumption DEF Slot
<1>1. CASE a < kLines
  BY <1>1
<1>2. CASE a >= kLines
  BY <1>2
<1> QED BY <1>1, <1>2

-----------------------------------------------------------------------------
(* The inductive invariant: what every slot holds, and how far a rendering *)
(* has come.                                                               *)

Holds == /\ g_count = IF stored < kLines THEN stored ELSE kLines
         /\ \A k \in 0..g_count-1 : g_lines[Oldest(k)] = stored - g_count + k + 1

RenderAt == Len(out) = i

IInv == TypeOK /\ Holds /\ RenderAt /\ RenderInOrder /\ RenderPlaced

\* The slot of the k-th oldest of c lines when the head is at h.
At(h, c, k) == Slot(h + kLines - c + k)

LEMMA AtSlot ==
  ASSUME NEW h \in 0..kLines-1, NEW c \in 0..kLines, NEW k \in 0..c-1
  PROVE  /\ At(h, c, k) = IF h - c + k < 0 THEN h - c + k + kLines ELSE h - c + k
         /\ At(h, c, k) \in 0..kLines-1
<1>1. h + kLines - c + k \in 0..2*kLines-1
  BY kLinesAssumption
<1> QED BY <1>1, ModOnce, kLinesAssumption DEF At

\* Storing moves the head one on: the newest line is where the head was, the
\* others are where they were.
LEMMA AtAfterStore ==
  ASSUME NEW h \in 0..kLines-1, NEW c \in 0..kLines,
         NEW k \in 0..Saturating(c)-1
  PROVE  LET new == At(Slot(h + 1), Saturating(c), k)
             old == IF c < kLines THEN k ELSE k + 1
         IN  /\ new \in 0..kLines-1
             /\ k = Saturating(c) - 1 => new = h
             /\ k # Saturating(c) - 1 => /\ old \in 0..c-1
                                        /\ new = At(h, c, old)
                                        /\ new # h
<1> USE kLinesAssumption
<1>1. PICK h2 \in 0..kLines-1 :
        /\ h2 = Slot(h + 1)
        /\ h2 = IF h + 1 < kLines THEN h + 1 ELSE 0
  <2>1. h + 1 \in 0..2*kLines-1
    OBVIOUS
  <2> QED BY <2>1, ModOnce
<1>2. PICK c2 \in 0..kLines :
        /\ c2 = Saturating(c)
        /\ c2 = IF c < kLines THEN c + 1 ELSE c
  BY DEF Saturating
<1>3. k \in 0..c2-1
  BY <1>2
<1>4. /\ At(h2, c2, k) = IF h2 - c2 + k < 0 THEN h2 - c2 + k + kLines ELSE h2 - c2 + k
      /\ At(h2, c2, k) \in 0..kLines-1
  BY <1>3, AtSlot
<1>5. k = c2 - 1 => At(h2, c2, k) = h
  BY <1>1, <1>4
<1>6. ASSUME k # c2 - 1, NEW old, old = IF c < kLines THEN k ELSE k + 1
      PROVE  old \in 0..c-1 /\ At(h2, c2, k) = At(h, c, old) /\ At(h2, c2, k) # h
  <2>1. old \in 0..c-1
    BY <1>2, <1>3, <1>6
  <2>2. At(h, c, old) = IF h - c + old < 0 THEN h - c + old + kLines ELSE h - c + old
    BY <2>1, AtSlot
  <2> QED BY <1>1, <1>2, <1>3, <1>4, <1>6, <2>1, <2>2
<1> QED BY <1>1, <1>2, <1>4, <1>5, <1>6

LEMMA InitHolds == Init => IInv
<1> SUFFICES ASSUME Init PROVE IInv
  OBVIOUS
<1> USE kLinesAssumption
<1>1. out \in Seq(Nat) /\ Len(out) = 0
  BY DEF Init
<1>2. /\ g_head \in 0..kLines-1 /\ g_count \in 0..kLines /\ stored \in Nat
      /\ i \in 0..kLines /\ startedAt \in 0..stored
  BY DEF Init
<1>3. g_lines \in [0..kLines-1 -> Nat] /\ rendering \in BOOLEAN
  BY DEF Init, Empty
<1>4. Holds
  BY DEF Init, Holds
<1> QED
  BY <1>1, <1>2, <1>3, <1>4 DEF Init, IInv, TypeOK, RenderAt, RenderInOrder, RenderPlaced

\* Storing a line leaves the others where they are, but for the oldest one
\* of a full ring.
LEMMA StoreHolds == IInv /\ store => IInv'
<1> SUFFICES ASSUME IInv, store PROVE IInv'
  OBVIOUS
<1> USE kLinesAssumption
<1>1. /\ g_head \in 0..kLines-1 /\ g_count \in 0..kLines /\ stored \in Nat
      /\ g_lines \in [0..kLines-1 -> Nat]
      /\ startedAt \in 0..stored
  BY DEF IInv, TypeOK
<1>2. /\ g_head' = Slot(g_head + 1)
      /\ g_count' = Saturating(g_count)
      /\ stored' = stored + 1
      /\ g_lines' = [g_lines EXCEPT ![g_head] = stored + 1]
      /\ UNCHANGED <<rendering, i, out, startedAt>>
  BY DEF store, renderVars
<1>3. Slot(g_head + 1) \in 0..kLines-1 /\ Saturating(g_count) \in 0..kLines
  <2>1. g_head + 1 \in 0..2*kLines-1
    BY <1>1
  <2> QED BY <1>1, <2>1, ModOnce DEF Saturating
<1>4. TypeOK'
  <2>1. stored + 1 \in Nat /\ startedAt \in 0..stored + 1
    BY <1>1
  <2>2. [g_lines EXCEPT ![g_head] = stored + 1] \in [0..kLines-1 -> Nat]
    BY <1>1
  <2>3. rendering' \in BOOLEAN /\ i' \in 0..kLines /\ out' \in Seq(Nat)
    BY <1>2 DEF IInv, TypeOK
  <2> QED BY <1>2, <1>3, <2>1, <2>2, <2>3 DEF TypeOK
<1>5. Holds'
  <2>1. g_count = IF stored < kLines THEN stored ELSE kLines
    BY DEF IInv, Holds
  <2>2. Saturating(g_count) = IF stored + 1 < kLines THEN stored + 1 ELSE kLines
    BY <1>1, <2>1 DEF Saturating
  <2>3. ASSUME NEW k \in 0..Saturating(g_count)-1
        PROVE  g_lines'[At(Slot(g_head + 1), Saturating(g_count), k)]
                 = stored + 1 - Saturating(g_count) + k + 1
    <3> DEFINE new == At(Slot(g_head + 1), Saturating(g_count), k)
               old == IF g_count < kLines THEN k ELSE k + 1
    <3>1. /\ new \in 0..kLines-1
          /\ k = Saturating(g_count) - 1 => new = g_head
          /\ k # Saturating(g_count) - 1 => /\ old \in 0..g_count-1
                                           /\ new = At(g_head, g_count, old)
                                           /\ new # g_head
      BY <1>1, AtAfterStore
    <3>2. CASE k = Saturating(g_count) - 1
      BY <1>1, <1>2, <1>3, <3>1, <3>2
    <3>3. CASE k # Saturating(g_count) - 1
      <4>1. g_lines[At(g_head, g_count, old)] = stored - g_count + old + 1
        BY <3>1, <3>3 DEF IInv, Holds, Oldest, At
      <4>2. g_lines'[new] = g_lines[new]
        BY <1>1, <1>2, <3>1, <3>3
      <4>3. Saturating(g_count) = IF g_count < kLines THEN g_count + 1 ELSE g_count
        BY DEF Saturating
      <4>4. old = k + (g_count + 1 - Saturating(g_count))
        BY <1>1, <4>3
      <4> HIDE DEF old
      <4>5. stored - g_count + old + 1 = stored + 1 - Saturating(g_count) + k + 1
        <5>1. k \in Int /\ Saturating(g_count) \in Int /\ g_count \in Int
          BY <1>1, <1>3
        <5> QED BY <1>1, <4>4, <5>1
      <4> QED BY <3>1, <3>3, <4>1, <4>2, <4>5
    <3> QED BY <3>2, <3>3
  <2>4. ASSUME NEW k PROVE Oldest(k)' = At(Slot(g_head + 1), Saturating(g_count), k)
    BY <1>2 DEF Oldest, At
  <2>5. \A k \in 0..g_count'-1 : g_lines'[Oldest(k)'] = stored' - g_count' + k + 1
    <3> SUFFICES ASSUME NEW k, k \in 0..g_count'-1
                 PROVE  g_lines'[Oldest(k)'] = stored' - g_count' + k + 1
      OBVIOUS
    <3>1. k \in 0..Saturating(g_count)-1
      BY <1>2
    <3>2. Oldest(k)' = At(Slot(g_head + 1), Saturating(g_count), k)
      BY <2>4
    <3>3. stored' - g_count' + k + 1 = stored + 1 - Saturating(g_count) + k + 1
      BY <1>1, <1>2, <1>3, <3>1
    <3> QED BY <2>3, <3>1, <3>2, <3>3
  <2>6. g_count' = IF stored' < kLines THEN stored' ELSE kLines
    BY <1>2, <2>2
  <2> QED BY <2>5, <2>6 DEF Holds
<1>6. RenderPlaced'
  <2>1. /\ Turned(stored) <= Turned(stored + 1)
        /\ Turned(stored) \in Int /\ Turned(stored + 1) \in Int
        /\ Turned(startedAt) \in Int
    BY <1>1 DEF Turned
  <2>2. ASSUME NEW a \in 1..Len(out)
        PROVE  out[a] \in a + Turned(startedAt)..a + Turned(stored + 1)
    <3>1. out[a] \in a + Turned(startedAt)..a + Turned(stored)
      BY DEF IInv, RenderPlaced
    <3>2. a \in Int
      BY DEF IInv, TypeOK
    <3> QED BY <2>1, <3>1, <3>2
  <2> QED BY <1>2, <2>2 DEF RenderPlaced, Turned
<1> QED BY <1>2, <1>4, <1>5, <1>6 DEF IInv, RenderAt, RenderInOrder

\* A rendering appends the line whose turn it is at that moment.
LEMMA RenderLineHolds == IInv /\ RenderLine => IInv'
<1> SUFFICES ASSUME IInv, RenderLine PROVE IInv'
  OBVIOUS
<1> USE kLinesAssumption
<1> DEFINE line == g_lines[Oldest(i)]
<1>1. /\ out \in Seq(Nat) /\ Len(out) = i /\ i \in 0..kLines /\ i < kLines
      /\ stored \in Nat /\ startedAt \in 0..stored
      /\ i \in 0..g_count-1 /\ g_count \in 0..kLines
  BY DEF IInv, TypeOK, RenderAt, RenderLine
<1>2. /\ out' = Append(out, line) /\ i' = i + 1
      /\ UNCHANGED <<g_lines, g_head, g_count, stored, rendering, startedAt>>
  BY DEF RenderLine, ringVars
<1>3. line = i + 1 + Turned(stored) /\ line \in Nat
  <2>1. line = stored - g_count + i + 1
    BY <1>1 DEF IInv, Holds
  <2>2. g_count = IF stored < kLines THEN stored ELSE kLines
    BY DEF IInv, Holds
  <2> HIDE DEF line
  <2> QED BY <1>1, <2>1, <2>2 DEF Turned
<1>4. TypeOK'
  <2>1. Append(out, line) \in Seq(Nat) /\ i + 1 \in 0..kLines
    BY <1>1, <1>3
  <2> QED BY <1>2, <2>1 DEF IInv, TypeOK
<1>5. Holds'
  BY <1>2 DEF IInv, Holds, Oldest
<1> HIDE DEF line
<1>6. /\ Len(Append(out, line)) = i + 1
      /\ \A a \in 1..i : Append(out, line)[a] = out[a]
      /\ Append(out, line)[i + 1] = line
  BY <1>1, <1>3
<1>7. Turned(stored) \in Nat /\ Turned(startedAt) \in Nat
      /\ Turned(startedAt) <= Turned(stored)
  BY <1>1 DEF Turned
<1>8. \A a \in 1..i : out[a] \in a + Turned(startedAt)..a + Turned(stored)
  BY <1>1 DEF IInv, RenderPlaced
<1>9. RenderPlaced'
  <2>1. \A a \in 1..i+1 :
          Append(out, line)[a] \in a + Turned(startedAt)..a + Turned(stored)
    <3> SUFFICES ASSUME NEW a \in 1..i+1
                 PROVE  Append(out, line)[a] \in a + Turned(startedAt)..a + Turned(stored)
      OBVIOUS
    <3>1. CASE a \in 1..i
      BY <1>6, <1>8, <3>1
    <3>2. CASE a = i + 1
      <4>1. Append(out, line)[a] = a + Turned(stored)
        BY <1>3, <1>6, <3>2
      <4> QED BY <1>1, <1>7, <3>2, <4>1
    <3> QED BY <1>1, <3>1, <3>2
  <2> QED BY <1>2, <1>6, <2>1 DEF RenderPlaced, Turned
<1>10. RenderInOrder'
  <2>1. \A a, b \in 1..i : a < b => out[a] < out[b]
    BY <1>1 DEF IInv, RenderInOrder
  <2>2. \A a \in 1..i : out[a] < line
    BY <1>1, <1>3, <1>7, <1>8
  <2>3. \A a, b \in 1..i+1 : a < b => Append(out, line)[a] < Append(out, line)[b]
    BY <1>1, <1>6, <2>1, <2>2
  <2> QED BY <1>2, <1>6, <2>3 DEF RenderInOrder
<1> QED BY <1>2, <1>4, <1>5, <1>6, <1>9, <1>10 DEF IInv, RenderAt

LEMMA StepHolds == IInv /\ [Next]_vars => IInv'
<1> SUFFICES ASSUME IInv, [Next]_vars PROVE IInv'
  OBVIOUS
<1>1. CASE RenderStart
  <2>1. out' = <<>> /\ i' = 0 /\ rendering' = TRUE /\ startedAt' = stored
        /\ UNCHANGED <<g_lines, g_head, g_count, stored>>
    BY <1>1 DEF RenderStart, ringVars
  <2>2. /\ <<>> \in Seq(Nat) /\ Len(<<>>) = 0 /\ 0 \in 0..kLines
        /\ stored \in 0..stored
    BY kLinesAssumption DEF IInv, TypeOK
  <2>3. TypeOK'
    BY <2>1, <2>2 DEF IInv, TypeOK
  <2>4. Holds'
    BY <2>1 DEF IInv, Holds, Oldest
  <2>5. RenderAt' /\ RenderInOrder' /\ RenderPlaced'
    <3>1. Len(out') = 0 /\ 1..Len(out') = {}
      BY <2>1, <2>2
    <3> QED BY <2>1, <3>1 DEF RenderAt, RenderInOrder, RenderPlaced
  <2> QED BY <2>3, <2>4, <2>5 DEF IInv
<1>2. CASE RenderEnd
  BY <1>2 DEF RenderEnd, ringVars, IInv, TypeOK, Holds, Oldest, RenderAt,
              RenderInOrder, RenderPlaced, Turned
<1>3. CASE UNCHANGED vars
  BY <1>3 DEF vars, ringVars, renderVars, IInv, TypeOK, Holds, Oldest, RenderAt,
              RenderInOrder, RenderPlaced, Turned
<1> QED
  BY <1>1, <1>2, <1>3, StoreHolds, RenderLineHolds DEF Next

LEMMA Inductive == Spec => []IInv
BY InitHolds, StepHolds, PTL DEF Spec

-----------------------------------------------------------------------------
(* What follows from it.                                                   *)

\* Every variable keeps its type: the head stays a slot of the ring, and the
\* count never passes the slots there are (logbuf.cpp:50-56).
THEOREM TypeCorrect == Spec => []TypeOK
BY Inductive, PTL DEF IInv

\* A rendering shows the lines in the order they were logged, none twice.
THEOREM OrderKept == Spec => []RenderInOrder
BY Inductive, PTL DEF IInv

\* Every line shown is as far from its place as the ring turned meanwhile.
THEOREM PlaceKept == Spec => []RenderPlaced
BY Inductive, PTL DEF IInv

-----------------------------------------------------------------------------
(* The ring implements the log it stands for.                              *)

\* The last c of n lines.
Last(n, c) == [k \in 1..c |-> n - c + k]

LEMMA LastSeq ==
  ASSUME NEW n \in Nat, NEW c \in Nat
  PROVE  Last(n, c) \in Seq(Int) /\ Len(Last(n, c)) = c
BY DEF Last

\* One more line, with room for it or in the oldest one's stead.
LEMMA LastGrows ==
  ASSUME NEW n \in Nat, NEW c \in Nat
  PROVE  Last(n + 1, c + 1) = Append(Last(n, c), n + 1)
<1>1. /\ Last(n, c) \in Seq(Int) /\ Len(Last(n, c)) = c
      /\ Last(n + 1, c + 1) \in Seq(Int) /\ Len(Last(n + 1, c + 1)) = c + 1
  BY LastSeq
<1>2. \A k \in 1..c + 1 : Last(n + 1, c + 1)[k] = n - c + k
  BY DEF Last
<1>3. \A k \in 1..c : Last(n, c)[k] = n - c + k
  BY DEF Last
<1>4. \A k \in 1..c + 1 : Append(Last(n, c), n + 1)[k] = n - c + k
  BY <1>1, <1>3
<1> QED BY <1>1, <1>2, <1>4

LEMMA LastTurns ==
  ASSUME NEW n \in Nat, NEW c \in Nat \ {0}
  PROVE  Last(n + 1, c) = Append(Tail(Last(n, c)), n + 1)
<1>1. /\ Last(n, c) \in Seq(Int) /\ Len(Last(n, c)) = c
      /\ Last(n + 1, c) \in Seq(Int) /\ Len(Last(n + 1, c)) = c
  BY LastSeq
<1>2. /\ Tail(Last(n, c)) \in Seq(Int) /\ Len(Tail(Last(n, c))) = c - 1
      /\ \A k \in 1..c - 1 : Tail(Last(n, c))[k] = Last(n, c)[k + 1]
  BY <1>1
<1>3. \A k \in 1..c : Last(n, c)[k] = n - c + k /\ Last(n + 1, c)[k] = n + 1 - c + k
  BY DEF Last
<1>4. \A k \in 1..c : Append(Tail(Last(n, c)), n + 1)[k] = n + 1 - c + k
  BY <1>1, <1>2, <1>3
<1>5. /\ Append(Tail(Last(n, c)), n + 1) \in Seq(Int)
      /\ Len(Append(Tail(Last(n, c)), n + 1)) = c
  BY <1>2
<1>6. \A k \in 1..c : Last(n + 1, c)[k] = Append(Tail(Last(n, c)), n + 1)[k]
  BY <1>3, <1>4
<1> QED BY <1>1, <1>5, <1>6, SeqEqual

\* What the ring holds, while it is in order.
LEMMA HeldIsLast == IInv => Held = Last(stored, g_count)
<1> SUFFICES ASSUME IInv PROVE Held = Last(stored, g_count)
  OBVIOUS
<1>1. g_count \in 0..kLines /\ stored \in Nat
  BY DEF IInv, TypeOK
<1>2. ASSUME NEW k \in 1..g_count
      PROVE  g_lines[Oldest(k - 1)] = stored - g_count + k
  <2>1. k - 1 \in 0..g_count - 1
    BY <1>1
  <2>2. g_lines[Oldest(k - 1)] = stored - g_count + (k - 1) + 1
    BY <2>1 DEF IInv, Holds
  <2> QED BY <1>1, <2>2
<1> QED BY <1>2 DEF Held, Last

\* Storing a line is the step LogTail calls Log.
LEMMA StoreIsLog == IInv /\ IInv' /\ store => Promise!Log
<1> SUFFICES ASSUME IInv, IInv', store PROVE Promise!Log
  OBVIOUS
<1>1. /\ g_count' = Saturating(g_count) /\ stored' = stored + 1
      /\ g_count \in 0..kLines /\ stored \in Nat
  BY DEF IInv, TypeOK, store
<1>2. Held = Last(stored, g_count) /\ Len(Held) = g_count
  BY <1>1, HeldIsLast, LastSeq
<1>3. Held' = Last(stored', g_count')
  <2>1. IInv' => (Held = Last(stored, g_count))'
    BY HeldIsLast, PTL
  <2> QED BY <2>1 DEF Last
<1>4. Held' = Last(stored + 1, Saturating(g_count))
  BY <1>1, <1>3
<1>5. CASE g_count < kLines
  <2>1. Saturating(g_count) = g_count + 1 /\ g_count \in Nat
    BY <1>1, <1>5, kLinesAssumption DEF Saturating
  <2>2. Last(stored + 1, g_count + 1) = Append(Last(stored, g_count), stored + 1)
    BY <1>1, <2>1, LastGrows
  <2>3. Held' = Append(Held, stored + 1)
    BY <1>2, <1>4, <2>1, <2>2
  <2> QED BY <1>1, <1>2, <1>5, <2>3 DEF Promise!Log
<1>6. CASE g_count = kLines
  <2>1. Saturating(g_count) = g_count /\ g_count \in Nat \ {0}
    BY <1>6, kLinesAssumption DEF Saturating
  <2>2. Last(stored + 1, g_count) = Append(Tail(Last(stored, g_count)), stored + 1)
    BY <1>1, <2>1, LastTurns
  <2>3. Held' = Append(Tail(Held), stored + 1)
    BY <1>2, <1>4, <2>1, <2>2
  <2>4. ~(Len(Held) < kLines)
    BY <1>2, <1>6, kLinesAssumption
  <2> QED BY <1>1, <2>3, <2>4 DEF Promise!Log
<1> QED BY <1>1, <1>5, <1>6, kLinesAssumption

\* The ring implements the log: what it holds is always the most recent lines.
THEOREM RingImplementsTail == Spec => RingIsTail
<1>1. Init => Promise!Init
  <2> SUFFICES ASSUME Init PROVE Promise!Init
    OBVIOUS
  <2>1. stored = 0 /\ Held = <<>>
    BY DEF Init, Held
  <2> QED BY <2>1 DEF Promise!Init
<1>2. IInv /\ IInv' /\ [Next]_vars => [Promise!Log]_<<Held, stored>>
  <2> SUFFICES ASSUME IInv, IInv', [Next]_vars
               PROVE  [Promise!Log]_<<Held, stored>>
    OBVIOUS
  <2>1. CASE store
    BY <2>1, StoreIsLog
  <2>2. CASE RenderStart \/ RenderLine \/ RenderEnd \/ UNCHANGED vars
    BY <2>2 DEF RenderStart, RenderLine, RenderEnd, vars, ringVars, Held, Oldest
  <2> QED BY <2>1, <2>2 DEF Next
<1> QED BY <1>1, <1>2, Inductive, PTL DEF Spec, RingIsTail, Promise!Spec

-----------------------------------------------------------------------------
(* With the texts that become lines.                                       *)

\* The ring with texts is the ring: composing a text leaves it alone, and one
\* that nothing is left of stores no line (logbuf.cpp:46-48).  What is proved of
\* Spec above holds of TextSpec too, which the run checks.
THEOREM TextIsRing == TextSpec => Spec
<1>1. TextInit => Init
  BY DEF TextInit
<1>2. [TextNext]_<<vars, text>> => [Next]_vars
  <2> SUFFICES ASSUME [TextNext]_<<vars, text>> PROVE [Next]_vars
    OBVIOUS
  <2>1. ASSUME NEW c, Compose(c) PROVE UNCHANGED vars
    BY <2>1 DEF Compose
  <2>2. CASE Log
    BY <2>2 DEF Log, Next
  <2>3. CASE Render
    BY <2>3 DEF Render, Next
  <2>4. CASE UNCHANGED <<vars, text>>
    BY <2>4
  <2> QED BY <2>1, <2>2, <2>3, <2>4 DEF TextNext
<1> QED BY <1>1, <1>2, PTL DEF TextSpec, Spec

-----------------------------------------------------------------------------
(* Induction on the natural numbers, by the least counterexample.          *)

\* A set of natural numbers that is not empty has a least member.
LEMMA LeastOf ==
  ASSUME NEW S, S \subseteq Nat, S # {}
  PROVE  \E n \in S : \A m \in S : m >= n
<1> DEFINE Below == {p \in Nat \X Nat : p[1] < p[2]}
<1>1. IsWellFoundedOn(Below, Nat)
  BY NatLessThanWellFounded, Zenon DEF OpToRel
<1>2. PICK n \in S : \A m \in S : <<m, n>> \notin Below
  <2> HIDE DEF Below
  <2> QED BY <1>1, WFMin
<1>3. ASSUME NEW m \in S PROVE m >= n
  <2>1. <<m, n>> \notin Below /\ m \in Nat /\ n \in Nat
    BY <1>2
  <2> QED BY <2>1
<1> QED BY <1>3

-----------------------------------------------------------------------------
(* What the loop of store() computes.                                      *)

Char == {Escape, EscapeEnd, LineEnd, Letter}

LoopState == [clean : Seq(Char), skipping : BOOLEAN]

LEMMA NextCharType ==
  ASSUME NEW s \in LoopState, NEW c \in Char
  PROVE  NextChar(s, c) \in LoopState
<1>1. s.clean \in Seq(Char) /\ s.skipping \in BOOLEAN
  BY DEF LoopState
<1>2. Append(s.clean, c) \in Seq(Char)
  BY <1>1
<1>3. [s EXCEPT !.clean = Append(@, c)] \in LoopState
  BY <1>2 DEF LoopState
<1>4. \A b \in BOOLEAN : [s EXCEPT !.skipping = b] \in LoopState
  BY DEF LoopState
<1>5. (c # EscapeEnd) \in BOOLEAN
  OBVIOUS
<1>6. [s EXCEPT !.skipping = c # EscapeEnd] \in LoopState
  BY <1>4, <1>5, Zenon
<1> QED BY <1>3, <1>4, <1>6, Zenon DEF NextChar

LEMMA StartType == Start \in LoopState
BY DEF Start, LoopState

\* g is the run of the loop over the first n characters.
IsLoop(g, txt, n) ==
  /\ g \in [0..n -> LoopState]
  /\ g[0] = Start
  /\ \A m \in 1..n : g[m] = NextChar(g[m - 1], txt[m])

\* A recursive function is what its equation says only if some function meets
\* the equation: one that does up to a character is extended to the next.
LEMMA LoopExists ==
  ASSUME NEW txt \in Seq(Char)
  PROVE  \A n \in 0..Len(txt) : \E g : IsLoop(g, txt, n)
<1> DEFINE Bad == {n \in 0..Len(txt) : ~\E g : IsLoop(g, txt, n)}
<1> SUFFICES ASSUME Bad # {} PROVE FALSE
  OBVIOUS
<1>1. PICK n \in Bad : \A m \in Bad : m >= n
  <2>1. Bad \subseteq Nat
    OBVIOUS
  <2> HIDE DEF Bad
  <2> QED BY <2>1, LeastOf
<1>2. n \in 0..Len(txt) /\ ~\E g : IsLoop(g, txt, n)
  OBVIOUS
<1>3. n # 0
  <2>1. IsLoop([m \in 0..0 |-> Start], txt, 0)
    BY StartType DEF IsLoop
  <2> QED BY <1>2, <2>1
<1>4. n - 1 \in 0..Len(txt) /\ n - 1 \notin Bad
  <2>1. n - 1 \in 0..Len(txt) /\ ~(n - 1 >= n)
    BY <1>2, <1>3
  <2> QED BY <1>1, <2>1
<1>5. PICK g : IsLoop(g, txt, n - 1)
  BY <1>4
<1> DEFINE h == [m \in 0..n |-> IF m = n THEN NextChar(g[n - 1], txt[n]) ELSE g[m]]
<1>6. NextChar(g[n - 1], txt[n]) \in LoopState
  <2>1. g[n - 1] \in LoopState /\ txt[n] \in Char
    BY <1>2, <1>3, <1>5 DEF IsLoop
  <2> QED BY <2>1, NextCharType
<1>7. h \in [0..n -> LoopState]
  <2>1. \A m \in 0..n : m # n => g[m] \in LoopState
    BY <1>2, <1>3, <1>5 DEF IsLoop
  <2> QED BY <1>6, <2>1
<1>8. h[0] = Start
  BY <1>2, <1>3, <1>5 DEF IsLoop
<1>9. ASSUME NEW m \in 1..n PROVE h[m] = NextChar(h[m - 1], txt[m])
  <2>1. h[m - 1] = g[m - 1]
    BY <1>2
  <2>2. CASE m = n
    BY <1>2, <2>1, <2>2
  <2>3. CASE m # n
    <3>1. m \in 1..n-1 /\ h[m] = g[m]
      BY <1>2, <2>3
    <3> QED BY <1>5, <2>1, <3>1 DEF IsLoop
  <2> QED BY <2>2, <2>3
<1> HIDE DEF h
<1>10. IsLoop(h, txt, n)
  BY <1>7, <1>8, <1>9 DEF IsLoop
<1> QED BY <1>2, <1>10

\* Loop(txt) meets its equation, being the only function that does.
LEMMA LoopStep ==
  ASSUME NEW txt \in Seq(Char)
  PROVE  IsLoop(Loop(txt), txt, Len(txt))
<1> DEFINE Eq(f) == f = [n \in 0..Len(txt) |->
                          IF n = 0 THEN Start ELSE NextChar(f[n - 1], txt[n])]
<1>1. Loop(txt) = CHOOSE f : Eq(f)
  BY DEF Loop
<1>2. PICK g : IsLoop(g, txt, Len(txt))
  BY LoopExists
<1>3. Eq(g)
  BY <1>2 DEF IsLoop
<1>4. Eq(Loop(txt))
  BY <1>1, <1>3
<1>5. \A n \in 0..Len(txt) : Loop(txt)[n] = g[n]
  <2> DEFINE Bad == {n \in 0..Len(txt) : Loop(txt)[n] # g[n]}
  <2> SUFFICES ASSUME Bad # {} PROVE FALSE
    OBVIOUS
  <2>1. PICK n \in Bad : \A m \in Bad : m >= n
    <3>1. Bad \subseteq Nat
      OBVIOUS
    <3> HIDE DEF Bad
    <3> QED BY <3>1, LeastOf
  <2>2. n \in 0..Len(txt) /\ Loop(txt)[n] # g[n]
    OBVIOUS
  <2>3. CASE n = 0
    BY <1>3, <1>4, <2>2, <2>3
  <2>4. CASE n # 0
    <3>1. n - 1 \in 0..Len(txt) /\ ~(n - 1 >= n)
      BY <2>2, <2>4
    <3>2. Loop(txt)[n - 1] = g[n - 1]
      BY <2>1, <3>1
    <3> QED BY <1>3, <1>4, <2>2, <2>4, <3>2
  <2> QED BY <2>3, <2>4
<1>6. Loop(txt) = g
  BY <1>2, <1>4, <1>5 DEF IsLoop
<1> QED BY <1>2, <1>6

-----------------------------------------------------------------------------
(* What it has kept after n characters: those of them that are shown.      *)

\* pos tells where in txt the characters of line come from: those of set, in
\* order.
Lists(pos, line, txt, set) ==
  /\ pos \in [1..Len(line) -> set]
  /\ \A n \in 1..Len(line) : line[n] = txt[pos[n]]
  /\ \A m, n \in 1..Len(line) : m < n => pos[m] < pos[n]
  /\ \A k \in set : \E n \in 1..Len(line) : pos[n] = k

\* An escape has begun among the first n characters and not ended.
Open(txt, n) ==
  \E j \in 1..n : txt[j] = Escape /\ \A l \in j..n : txt[l] # EscapeEnd

\* What is shown of the first n characters.
ShownOf(txt, n) == {k \in Shown(txt) : k <= n}

\* The invariant of the loop.
Kept(s, txt, n) ==
  /\ s \in LoopState
  /\ s.skipping <=> Open(txt, n)
  /\ Len(s.clean) <= n
  /\ \E pos : Lists(pos, s.clean, txt, ShownOf(txt, n))

\* Which characters are in an escape, and which are shown, from one to the next.
LEMMA OpenNext ==
  ASSUME NEW txt \in Seq(Char), NEW n \in 1..Len(txt)
  PROVE  Open(txt, n) <=> /\ txt[n] # EscapeEnd
                          /\ Open(txt, n - 1) \/ txt[n] = Escape
<1>1. ASSUME Open(txt, n)
      PROVE  txt[n] # EscapeEnd /\ (Open(txt, n - 1) \/ txt[n] = Escape)
  <2>1. PICK j \in 1..n : txt[j] = Escape /\ \A l \in j..n : txt[l] # EscapeEnd
    BY <1>1 DEF Open
  <2>2. txt[n] # EscapeEnd
    BY <2>1
  <2>3. CASE j = n
    BY <2>1, <2>2, <2>3
  <2>4. CASE j # n
    <3>1. j \in 1..n-1 /\ \A l \in j..n-1 : txt[l] # EscapeEnd
      BY <2>1, <2>4
    <3> QED BY <2>1, <2>2, <3>1 DEF Open
  <2> QED BY <2>3, <2>4
<1>2. ASSUME txt[n] # EscapeEnd, Open(txt, n - 1)
      PROVE  Open(txt, n)
  <2>1. PICK j \in 1..n-1 : txt[j] = Escape /\ \A l \in j..n-1 : txt[l] # EscapeEnd
    BY <1>2 DEF Open
  <2>2. j \in 1..n /\ \A l \in j..n : txt[l] # EscapeEnd
    <3>1. \A l \in j..n : l = n \/ l \in j..n-1
      OBVIOUS
    <3> QED BY <1>2, <2>1, <3>1
  <2> QED BY <2>1, <2>2 DEF Open
<1>3. ASSUME txt[n] # EscapeEnd, txt[n] = Escape
      PROVE  Open(txt, n)
  <2>1. n \in 1..n /\ \A l \in n..n : txt[l] # EscapeEnd
    BY <1>3
  <2> QED BY <1>3, <2>1 DEF Open
<1> QED BY <1>1, <1>2, <1>3, Zenon

LEMMA EscapeNext ==
  ASSUME NEW txt \in Seq(Char), NEW n \in 1..Len(txt)
  PROVE  InEscape(txt, n) <=> Open(txt, n - 1) \/ txt[n] = Escape
<1>1. ASSUME InEscape(txt, n) PROVE Open(txt, n - 1) \/ txt[n] = Escape
  <2>1. PICK j \in 1..n : txt[j] = Escape /\ \A l \in j..n-1 : txt[l] # EscapeEnd
    BY <1>1 DEF InEscape
  <2>2. CASE j = n
    BY <2>1, <2>2
  <2>3. CASE j # n
    <3>1. j \in 1..n-1
      BY <2>3
    <3> QED BY <2>1, <3>1 DEF Open
  <2> QED BY <2>2, <2>3
<1>2. ASSUME Open(txt, n - 1) PROVE InEscape(txt, n)
  <2>1. PICK j \in 1..n-1 : txt[j] = Escape /\ \A l \in j..n-1 : txt[l] # EscapeEnd
    BY <1>2 DEF Open
  <2>2. j \in 1..n
    OBVIOUS
  <2> QED BY <2>1, <2>2 DEF InEscape
<1>3. ASSUME txt[n] = Escape PROVE InEscape(txt, n)
  <2>1. n \in 1..n /\ \A l \in n..n-1 : txt[l] # EscapeEnd
    OBVIOUS
  <2> QED BY <1>3, <2>1 DEF InEscape
<1> QED BY <1>1, <1>2, <1>3, Zenon

LEMMA ShownNext ==
  ASSUME NEW txt \in Seq(Char), NEW n \in 1..Len(txt)
  PROVE  ShownOf(txt, n) =
           IF txt[n] = LineEnd \/ Open(txt, n - 1) \/ txt[n] = Escape
             THEN ShownOf(txt, n - 1)
             ELSE ShownOf(txt, n - 1) \cup {n}
<1>1. \A k \in Shown(txt) : k \in 1..Len(txt)
  BY DEF Shown
<1>2. n \in Shown(txt) <=> ~(txt[n] = LineEnd \/ Open(txt, n - 1) \/ txt[n] = Escape)
  <2>1. n \in Shown(txt) <=> txt[n] # LineEnd /\ ~InEscape(txt, n)
    BY DEF Shown
  <2> QED BY <2>1, EscapeNext, Zenon
<1>3. \A k \in Shown(txt) : k <= n <=> k <= n - 1 \/ k = n
  BY <1>1
<1>4. CASE n \in Shown(txt)
  <2>1. ShownOf(txt, n) = ShownOf(txt, n - 1) \cup {n}
    BY <1>3, <1>4 DEF ShownOf
  <2> QED BY <1>2, <1>4, <2>1, Zenon
<1>5. CASE n \notin Shown(txt)
  <2>1. ShownOf(txt, n) = ShownOf(txt, n - 1)
    BY <1>3, <1>5 DEF ShownOf
  <2> QED BY <1>2, <1>5, <2>1, Zenon
<1> QED BY <1>4, <1>5

\* A character that is shown is appended.
LEMMA ListsAppend ==
  ASSUME NEW txt \in Seq(Char), NEW n \in 1..Len(txt), NEW line \in Seq(Char),
         NEW pos, Lists(pos, line, txt, ShownOf(txt, n - 1))
  PROVE  \E q : Lists(q, Append(line, txt[n]), txt, ShownOf(txt, n - 1) \cup {n})
<1> DEFINE L == Len(line)
           set == ShownOf(txt, n - 1)
           more == Append(line, txt[n])
           q == [m \in 1..L+1 |-> IF m = L + 1 THEN n ELSE pos[m]]
<1>1. /\ L \in Nat /\ Len(more) = L + 1
      /\ \A m \in 1..L : more[m] = line[m]
      /\ more[L + 1] = txt[n]
  <2>1. txt[n] \in Char
    OBVIOUS
  <2> QED BY <2>1
<1>2. \A m \in 1..L+1 : m = L + 1 \/ m \in 1..L
  BY <1>1
<1>3. /\ pos \in [1..L -> set]
      /\ \A m \in 1..L : line[m] = txt[pos[m]]
      /\ \A l, m \in 1..L : l < m => pos[l] < pos[m]
      /\ \A k \in set : \E m \in 1..L : pos[m] = k
  BY DEF Lists
<1>4. \A k \in set : k \in Int /\ k < n
  BY DEF ShownOf, Shown
<1>5. /\ q \in [1..L+1 -> set \cup {n}]
      /\ q[L + 1] = n
      /\ \A m \in 1..L : q[m] = pos[m] /\ q[m] \in set
  <2>1. L + 1 \in 1..L+1 /\ \A m \in 1..L : m \in 1..L+1 /\ m # L + 1
    BY <1>1
  <2> HIDE DEF set
  <2> QED BY <1>2, <1>3, <2>1
<1> HIDE DEF set, more, q, L
<1>6. \A m \in 1..L+1 : more[m] = txt[q[m]]
  BY <1>1, <1>2, <1>3, <1>5
<1>7. ASSUME NEW l \in 1..L+1, NEW m \in 1..L+1, l < m PROVE q[l] < q[m]
  <2>1. l \in 1..L
    BY <1>1, <1>2, <1>7
  <2>2. CASE m = L + 1
    BY <1>4, <1>5, <2>1, <2>2
  <2>3. CASE m \in 1..L
    BY <1>3, <1>5, <1>7, <2>1, <2>3
  <2> QED BY <1>2, <2>2, <2>3
<1>8. ASSUME NEW k \in set \cup {n} PROVE \E m \in 1..L+1 : q[m] = k
  <2>1. CASE k = n
    <3>1. L + 1 \in 1..L+1
      BY <1>1
    <3> QED BY <1>5, <2>1, <3>1
  <2>2. CASE k \in set
    <3>1. PICK m \in 1..L : pos[m] = k
      BY <1>3, <2>2
    <3>2. m \in 1..L+1
      BY <1>1
    <3> QED BY <1>5, <3>1, <3>2
  <2> QED BY <2>1, <2>2
<1>9. Lists(q, more, txt, set \cup {n})
  BY <1>1, <1>5, <1>6, <1>7, <1>8 DEF Lists
<1> QED BY <1>9 DEF more, set

\* One round of the loop keeps the invariant.  The text has been cut to the size
\* of the buffer before, so that the loop never finds clean full (logbuf.cpp:28).
LEMMA NextCharKeeps ==
  ASSUME NEW txt \in Seq(Char), NEW n \in 1..Len(txt), Len(txt) < kLineLen,
         NEW s, Kept(s, txt, n - 1)
  PROVE  Kept(NextChar(s, txt[n]), txt, n)
<1> DEFINE c == txt[n]
<1>1. /\ s \in LoopState /\ s.clean \in Seq(Char) /\ s.skipping \in BOOLEAN
      /\ s.skipping <=> Open(txt, n - 1)
      /\ Len(s.clean) <= n - 1
      /\ \E pos : Lists(pos, s.clean, txt, ShownOf(txt, n - 1))
  BY DEF Kept, LoopState
<1>2. c \in Char
  OBVIOUS
<1>3. NextChar(s, c) \in LoopState
  BY <1>1, <1>2, NextCharType
<1>4. ~(Len(s.clean) >= kLineLen - 1)
  BY <1>1, kLineLenAssumption
<1> HIDE DEF c
<1>5. CASE s.skipping
  <2>1. NextChar(s, c).clean = s.clean /\ (NextChar(s, c).skipping <=> c # EscapeEnd)
    <3>1. NextChar(s, c) = [s EXCEPT !.skipping = c # EscapeEnd]
      BY <1>5, Zenon DEF NextChar
    <3>2. \A b : /\ [s EXCEPT !.skipping = b].clean = s.clean
                 /\ [s EXCEPT !.skipping = b].skipping = b
      BY <1>1 DEF LoopState
    <3> QED BY <3>1, <3>2, Zenon
  <2>2. ShownOf(txt, n) = ShownOf(txt, n - 1)
    BY <1>1, <1>5, ShownNext
  <2>3. Open(txt, n) <=> c # EscapeEnd
    BY <1>1, <1>5, OpenNext, Zenon DEF c
  <2>4. Len(s.clean) <= n
    BY <1>1
  <2> QED BY <1>1, <1>3, <2>1, <2>2, <2>3, <2>4, Zenon DEF Kept, c
<1>6. CASE ~s.skipping /\ c = LineEnd
  <2>1. NextChar(s, c) = s
    BY <1>6, Zenon DEF NextChar
  <2>2. ShownOf(txt, n) = ShownOf(txt, n - 1)
    BY <1>6, ShownNext DEF c
  <2>3. ~Open(txt, n)
    BY <1>1, <1>6, OpenNext, EscapeAssumption, Zenon DEF c
  <2>4. Len(s.clean) <= n
    BY <1>1
  <2> QED BY <1>1, <1>6, <2>1, <2>2, <2>3, <2>4, Zenon DEF Kept, c
<1>7. CASE ~s.skipping /\ c = Escape
  <2>1. NextChar(s, c).clean = s.clean /\ NextChar(s, c).skipping
    <3>1. NextChar(s, c) = [s EXCEPT !.skipping = TRUE]
      BY <1>4, <1>7, EscapeAssumption, Zenon DEF NextChar
    <3> QED BY <1>1, <3>1 DEF LoopState
  <2>2. ShownOf(txt, n) = ShownOf(txt, n - 1)
    BY <1>7, ShownNext DEF c
  <2>3. Open(txt, n)
    BY <1>7, OpenNext, EscapeAssumption, Zenon DEF c
  <2>4. Len(s.clean) <= n
    BY <1>1
  <2> QED BY <1>1, <1>3, <2>1, <2>2, <2>3, <2>4, Zenon DEF Kept, c
<1>8. CASE ~s.skipping /\ c # LineEnd /\ c # Escape
  <2>1. NextChar(s, c).clean = Append(s.clean, c) /\ ~NextChar(s, c).skipping
    <3>1. NextChar(s, c) = [s EXCEPT !.clean = Append(@, c)]
      BY <1>4, <1>8, Zenon DEF NextChar
    <3> QED BY <1>1, <1>8, <3>1 DEF LoopState
  <2>2. ShownOf(txt, n) = ShownOf(txt, n - 1) \cup {n}
    BY <1>1, <1>8, ShownNext DEF c
  <2>3. ~Open(txt, n)
    BY <1>1, <1>8, OpenNext, Zenon DEF c
  <2>4. Len(Append(s.clean, c)) <= n
    BY <1>1, <1>2
  <2>5. \E q : Lists(q, Append(s.clean, c), txt, ShownOf(txt, n))
    BY <1>1, <2>2, ListsAppend DEF c
  <2> QED BY <1>3, <2>1, <2>3, <2>4, <2>5, Zenon DEF Kept, c
<1> QED BY <1>5, <1>6, <1>7, <1>8, Zenon DEF c

LEMMA StartKept ==
  ASSUME NEW txt \in Seq(Char)
  PROVE  Kept(Start, txt, 0)
<1>1. Start.clean = <<>> /\ Start.skipping = FALSE
  BY DEF Start
<1>2. ~Open(txt, 0)
  BY DEF Open
<1>3. ShownOf(txt, 0) = {}
  BY DEF ShownOf, Shown
<1>4. Lists([m \in {} |-> 0], <<>>, txt, {})
  BY DEF Lists
<1> QED BY <1>1, <1>2, <1>3, <1>4, StartType DEF Kept

\* What is stored of a text that fits the buffer.
LEMMA StoredKept ==
  ASSUME NEW txt \in Seq(Char), Len(txt) < kLineLen
  PROVE  Kept(Loop(txt)[Len(txt)], txt, Len(txt))
<1> DEFINE Bad == {n \in 0..Len(txt) : ~Kept(Loop(txt)[n], txt, n)}
<1>1. Bad = {}
  <2> SUFFICES ASSUME Bad # {} PROVE FALSE
    OBVIOUS
  <2>1. PICK n \in Bad : \A m \in Bad : m >= n
    <3>1. Bad \subseteq Nat
      OBVIOUS
    <3> HIDE DEF Bad
    <3> QED BY <3>1, LeastOf
  <2>2. n \in 0..Len(txt) /\ ~Kept(Loop(txt)[n], txt, n)
    OBVIOUS
  <2>3. CASE n = 0
    BY <2>2, <2>3, LoopStep, StartKept DEF IsLoop
  <2>4. CASE n # 0
    <3>1. n \in 1..Len(txt) /\ n - 1 \in 0..Len(txt) /\ ~(n - 1 >= n)
      BY <2>2, <2>4
    <3>2. Kept(Loop(txt)[n - 1], txt, n - 1)
      BY <2>1, <3>1
    <3>3. Loop(txt)[n] = NextChar(Loop(txt)[n - 1], txt[n])
      BY <3>1, LoopStep DEF IsLoop
    <3> QED BY <2>2, <3>1, <3>2, <3>3, NextCharKeeps
  <2> QED BY <2>3, <2>4
<1>2. Len(txt) \in 0..Len(txt)
  OBVIOUS
<1> QED BY <1>1, <1>2

-----------------------------------------------------------------------------
(* The line a text becomes.                                                *)

\* Cutting the text leaves alone what is shown of the part kept.
LEMMA FormattedShown ==
  ASSUME NEW txt \in Seq(Char)
  PROVE  /\ Formatted(txt) \in Seq(Char)
         /\ Len(Formatted(txt)) < kLineLen
         /\ \A k \in 1..Len(Formatted(txt)) : Formatted(txt)[k] = txt[k]
         /\ Shown(Formatted(txt)) = {k \in Shown(txt) : k < kLineLen}
<1> DEFINE cut == IF Len(txt) < kLineLen THEN Len(txt) ELSE kLineLen - 1
           f == Formatted(txt)
<1>1. /\ cut \in 0..Len(txt) /\ cut < kLineLen
      /\ \A k \in 1..Len(txt) : k <= cut <=> k < kLineLen
  BY kLineLenAssumption
<1>2. f = SubSeq(txt, 1, cut)
  BY DEF Formatted
<1> HIDE DEF cut, f
<1>3. /\ f \in Seq(Char) /\ Len(f) = cut
      /\ \A k \in 1..cut : f[k] = txt[k]
  BY <1>1, <1>2
<1>4. ASSUME NEW k \in 1..cut PROVE InEscape(f, k) <=> InEscape(txt, k)
  <2>1. \A j \in 1..k : f[j] = txt[j]
    BY <1>1, <1>3
  <2>2. \A j \in 1..k : \A l \in j..k-1 : f[l] = txt[l]
    BY <1>1, <2>1
  <2> QED BY <2>1, <2>2 DEF InEscape
<1>5. \A k \in 1..Len(txt) : k \in 1..cut <=> k < kLineLen
  BY <1>1
<1>6. Shown(f) = {k \in Shown(txt) : k < kLineLen}
  <2>1. ASSUME NEW k PROVE k \in Shown(f) <=> k \in Shown(txt) /\ k < kLineLen
    <3>1. k \in Shown(f) <=> k \in 1..cut /\ f[k] # LineEnd /\ ~InEscape(f, k)
      BY <1>3 DEF Shown
    <3>2. k \in Shown(txt) <=> k \in 1..Len(txt) /\ txt[k] # LineEnd /\ ~InEscape(txt, k)
      BY DEF Shown
    <3>3. CASE k \in 1..cut
      <4>1. k \in 1..Len(txt) /\ k < kLineLen
        BY <1>1, <3>3
      <4> QED BY <1>3, <1>4, <3>1, <3>2, <3>3, <4>1, Zenon
    <3>4. CASE k \notin 1..cut
      BY <1>5, <3>1, <3>2, <3>4, Zenon
    <3> QED BY <3>3, <3>4
  <2> QED BY <2>1
<1> QED BY <1>1, <1>3, <1>6 DEF f

\* A line shows of its text what a terminal would, as far as the buffer goes.
LEMMA LineKept == text \in Seq(Char) => TextKept
<1> SUFFICES ASSUME text \in Seq(Char) PROVE TextKept
  OBVIOUS
<1> DEFINE f == Formatted(text)
           line == Line(text)
           set == {k \in Shown(text) : k < kLineLen}
<1>1. /\ f \in Seq(Char) /\ Len(f) < kLineLen
      /\ \A k \in 1..Len(f) : f[k] = text[k]
      /\ Shown(f) = set
  BY FormattedShown
<1>2. line = Loop(f)[Len(f)].clean
  BY DEF Line, Stored
<1> HIDE DEF f, line
<1>3. ShownOf(f, Len(f)) = set
  <2>1. \A k \in Shown(f) : k <= Len(f)
    BY <1>1 DEF Shown
  <2> QED BY <1>1, <2>1 DEF ShownOf
<1>4. PICK pos : Lists(pos, line, f, set)
  BY <1>1, <1>2, <1>3, StoredKept DEF Kept
<1>5. Len(line) \in Nat
  <2>1. line \in Seq(Char)
    BY <1>1, <1>2, StoredKept DEF Kept, LoopState
  <2> QED BY <2>1
<1>6. /\ pos \in [1..Len(line) -> Shown(text)] /\ DOMAIN pos = 1..Len(line)
      /\ \A n \in DOMAIN pos : pos[n] \in set
  BY <1>4 DEF Lists
<1>7. \A n \in DOMAIN pos : line[n] = text[pos[n]]
  <2>1. \A k \in set : k \in 1..Len(f)
    BY <1>1 DEF Shown
  <2> HIDE DEF set
  <2> QED BY <1>1, <1>4, <1>6, <2>1 DEF Lists
<1>8. \A m, n \in DOMAIN pos : m < n => pos[m] < pos[n]
  BY <1>4, <1>6 DEF Lists
<1>9. {pos[n] : n \in DOMAIN pos} = set
  <2>1. \A k \in set : \E n \in DOMAIN pos : pos[n] = k
    BY <1>4, <1>6 DEF Lists
  <2> HIDE DEF set
  <2> QED BY <1>6, <2>1
<1> QED BY <1>6, <1>7, <1>8, <1>9 DEF TextKept, line

\* A text is a sequence of characters.
TextInv == text \in Seq(Char)

LEMMA TextTyped == TextSpec => []TextInv
<1>1. TextInit => TextInv
  BY DEF TextInit, TextInv
<1>2. TextInv /\ [TextNext]_<<vars, text>> => TextInv'
  <2> SUFFICES ASSUME TextInv, [TextNext]_<<vars, text>>
               PROVE  text' \in Seq(Char)
    BY DEF TextInv
  <2>1. ASSUME NEW c \in Char, Compose(c) PROVE text' \in Seq(Char)
    BY <2>1 DEF Compose, TextInv
  <2>2. CASE Log
    BY <2>2 DEF Log, TextInv
  <2>3. CASE Render
    BY <2>3 DEF Render, TextInv
  <2>4. CASE UNCHANGED <<vars, text>>
    BY <2>4 DEF TextInv
  <2> QED BY <2>1, <2>2, <2>3, <2>4 DEF TextNext, Char
<1> QED BY <1>1, <1>2, PTL DEF TextSpec

\* Every line of the log is what a terminal shows of the characters of its text
\* that fit the buffer, for every text and every size of the buffer.
THEOREM EveryTextKept == TextSpec => []TextKept
<1>1. TextInv => TextKept
  BY LineKept DEF TextInv
<1> QED BY <1>1, TextTyped, PTL

\* A line and its terminator fit a slot of the ring, so that the copy in store()
\* stays within it (logbuf.cpp:26-44, 51).
THEOREM EveryLineFits == TextSpec => [](Len(Line(text)) + 1 <= kLineLen)
<1>1. TextInv => Len(Line(text)) + 1 <= kLineLen
  <2> SUFFICES ASSUME text \in Seq(Char) PROVE Len(Line(text)) + 1 <= kLineLen
    BY DEF TextInv
  <2> DEFINE f == Formatted(text)
             line == Line(text)
  <2>1. f \in Seq(Char) /\ Len(f) < kLineLen
    BY FormattedShown
  <2>2. line = Loop(f)[Len(f)].clean
    BY DEF Line, Stored
  <2> HIDE DEF f, line
  <2>3. line \in Seq(Char) /\ Len(line) <= Len(f)
    BY <2>1, <2>2, StoredKept DEF Kept, LoopState
  <2>4. Len(line) \in Nat /\ Len(f) \in Nat
    BY <2>1, <2>3
  <2>5. Len(line) + 1 <= kLineLen
    BY <2>1, <2>3, <2>4, kLineLenAssumption
  <2> QED BY <2>5 DEF line
<1> QED BY <1>1, TextTyped, PTL
=============================================================================
