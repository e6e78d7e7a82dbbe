------------------------------ MODULE StatusLed ------------------------------
(***************************************************************************)
(* The status LED of statusled.cpp.  A colour is <<red, green, blue>>; the *)
(* hardware keeps the last one written to it, through restarts too.        *)
(***************************************************************************)
EXTENDS Integers

States == {"Boot", "UpstreamDown", "NoClients", "Connected", "Fault"}

VARIABLES
  brightness,         \* g_brightness
  lastWrittenPacked,  \* the cache of write(), Unknown for -1
  led                 \* what the hardware shows

ledVars == <<brightness, lastWrittenPacked, led>>

Unknown == <<>>
Off     == <<0, 0, 0>>

Hue == [UpstreamDown |-> <<255, 0, 0>>,
        NoClients    |-> <<255, 90, 0>>,
        Connected    |-> <<0, 0, 255>>,
        Fault        |-> <<255, 0, 255>>,
        Boot         |-> <<255, 255, 255>>]

Flashing(s) == s \notin {"Boot", "Fault"}

Dimmed(c, b) == [i \in 1..3 |-> (c[i] * b) \div 255]

\* A slip: the product is kept in eight bits.
ScaledNarrow(c) == [i \in 1..3 |-> ((c[i] * brightness) % 256) \div 255]

Scaled(c) == Dimmed(c, brightness)

\* A slip: the cache is brought up to date before it is compared.
WriteCacheFirst(c) ==
  /\ lastWrittenPacked' = Scaled(c)
  /\ led' = IF Scaled(c) = lastWrittenPacked' THEN led ELSE Scaled(c)

Write(c) ==
  /\ lastWrittenPacked' = Scaled(c)
  /\ led' = IF Scaled(c) = lastWrittenPacked THEN led ELSE Scaled(c)

SetBrightness(b) ==
  /\ brightness' = b
  /\ lastWrittenPacked' = Unknown
  /\ UNCHANGED led

Begin ==
  /\ lastWrittenPacked' = Dimmed(Hue["Boot"], brightness)
  /\ led' = Dimmed(Hue["Boot"], brightness)
  /\ UNCHANGED brightness

\* phaseOn: the half of the flashing period that millis() is in.
Update(s, phaseOn) ==
  /\ Write(IF phaseOn \/ ~Flashing(s) THEN Hue[s] ELSE Off)
  /\ UNCHANGED brightness
==============================================================================
