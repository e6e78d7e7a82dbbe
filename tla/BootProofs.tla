------------------------------ MODULE BootProofs ------------------------------
(***************************************************************************)
(* Proofs about Boot, for every brightness and every AP address: what the  *)
(* bring-up leaves of the DHCP options, and the colours of the LED.        *)
(***************************************************************************)
EXTENDS Boot, TLAPS

-----------------------------------------------------------------------------
(* Colours.                                                                *)

\* Scaling keeps a full component and nothing of an absent one.
LEMMA DimmedPart ==
  ASSUME NEW b \in Bytes
  PROVE  /\ (255 * b) \div 255 = b
         /\ (0 * b) \div 255 = 0
         /\ (90 * b) \div 255 \in Bytes
         /\ b >= 3 => (90 * b) \div 255 >= 1
         /\ b < 3 => (90 * b) \div 255 = 0
BY DEF Bytes

\* A colour as the LED shows it, component by component.
LEMMA DimmedHue ==
  ASSUME NEW b \in Bytes
  PROVE  /\ Dimmed(Hue["UpstreamDown"], b) = <<b, 0, 0>>
         /\ Dimmed(Hue["NoClients"], b) = <<b, (90 * b) \div 255, 0>>
         /\ Dimmed(Hue["Connected"], b) = <<0, 0, b>>
         /\ Dimmed(Hue["Fault"], b) = <<b, 0, b>>
         /\ Dimmed(Hue["Boot"], b) = <<b, b, b>>
         /\ Dimmed(Off, b) = <<0, 0, 0>>
<1> DEFINE mid == (90 * b) \div 255
<1>1. (255 * b) \div 255 = b /\ (0 * b) \div 255 = 0
  BY DimmedPart
<1>2. Dimmed(<<255, 0, 0>>, b) = <<b, 0, 0>>
  BY <1>1 DEF Dimmed
<1>3. Dimmed(<<255, 90, 0>>, b) = <<b, mid, 0>>
  BY <1>1 DEF Dimmed
<1>4. Dimmed(<<0, 0, 255>>, b) = <<0, 0, b>>
  BY <1>1 DEF Dimmed
<1>5. Dimmed(<<255, 0, 255>>, b) = <<b, 0, b>>
  BY <1>1 DEF Dimmed
<1>6. Dimmed(<<255, 255, 255>>, b) = <<b, b, b>>
  BY <1>1 DEF Dimmed
<1>7. Dimmed(<<0, 0, 0>>, b) = <<0, 0, 0>>
  BY <1>1 DEF Dimmed
<1>8. /\ Hue["UpstreamDown"] = <<255, 0, 0>>
      /\ Hue["NoClients"] = <<255, 90, 0>>
      /\ Hue["Connected"] = <<0, 0, 255>>
      /\ Hue["Fault"] = <<255, 0, 255>>
      /\ Hue["Boot"] = <<255, 255, 255>>
  BY DEF Hue
<1> QED BY <1>2, <1>3, <1>4, <1>5, <1>6, <1>7, <1>8 DEF Off

Colours == [1..3 -> Bytes]

LEMMA DimmedType ==
  ASSUME NEW b \in Bytes
  PROVE  /\ \A s \in States : Dimmed(Hue[s], b) \in Colours
         /\ Dimmed(Off, b) \in Colours
<1>1. 0 \in Bytes /\ (90 * b) \div 255 \in Bytes
  BY DimmedPart DEF Bytes
<1>2. \A x, y, z \in Bytes : <<x, y, z>> \in Colours
  BY DEF Colours
<1> QED BY <1>1, <1>2, DimmedHue DEF States

-----------------------------------------------------------------------------
(* The inductive invariant.                                                *)

\* The interface is up from the end of the wait on, so that its start cannot
\* undo the options; the server is stopped when they are set, unless it refused
\* to; and the portal begins after that.
OptionsOutliveStart ==
  /\ portalUp => pc = "loop"
  /\ pc \in {"stop", "options", "start", "portal"} \/ portalUp => ap = "started"
  /\ pc = "options" => dhcps = "stopped" \/ refused = Options
  /\ pc \in {"start", "portal"} \/ portalUp =>
       /\ offersDns \/ "dns" \in refused
       /\ longLease \/ "lease" \in refused

IInv == TypeOK /\ OptionsOutliveStart

LEMMA InitHolds == Init => IInv
<1> SUFFICES ASSUME Init PROVE IInv
  OBVIOUS
<1>1. led \in Colours
  <2>1. Dimmed(Hue["Connected"], 255) \in Colours
    BY DimmedType DEF Bytes, States
  <2>2. Off \in Colours
    BY DEF Off, Colours, Bytes
  <2> QED BY <2>1, <2>2 DEF Init
<1>2. 0 \in Bytes /\ 64 \in Bytes
  BY DEF Bytes
<1>3. {softApFailed, portalUp, offersDns, longLease, uplinkReady} \subseteq BOOLEAN
  BY DEF Init
<1>4. TypeOK
  BY <1>1, <1>2, <1>3 DEF Init, TypeOK, Options, Colours
<1>5. OptionsOutliveStart
  BY DEF Init, OptionsOutliveStart
<1> QED BY <1>4, <1>5 DEF IInv

\* Writing to the LED leaves cache and hardware equal.
LEMMA LedTypes ==
  ASSUME TypeOK, NEW c, Dimmed(c, brightness) \in Colours, Write(c)
  PROVE  led' \in Colours /\ lastWrittenPacked' \in {Unknown, led'}
<1>1. CASE Scaled(c) = lastWrittenPacked
  BY <1>1 DEF TypeOK, Write, Colours
<1>2. CASE Scaled(c) # lastWrittenPacked
  BY <1>2 DEF TypeOK, Write, Scaled
<1> QED BY <1>1, <1>2

\* What setup() does with the LED and the interface, call by call.
LEMMA SetupHolds == IInv /\ Setup => IInv'
<1> SUFFICES ASSUME IInv, Setup PROVE IInv'
  OBVIOUS
<1> USE DEF IInv, Step, settings, outcome, netifVars, linkVars, ledVars
<1>1. brightness \in Bytes /\ ledBrightness \in Bytes /\ apOctet \in Bytes
  BY SettingsAssumption DEF TypeOK, Bytes
<1>2. CASE LedBrightness
  BY <1>1, <1>2 DEF LedBrightness, SetBrightness, TypeOK, OptionsOutliveStart
<1>3. CASE LedBegin
  <2>1. Dimmed(Hue["Boot"], brightness) \in [1..3 -> Bytes]
    BY <1>1, DimmedType DEF States, Colours
  <2> QED BY <1>3, <2>1 DEF LedBegin, Begin, TypeOK, OptionsOutliveStart
<1>4. CASE ApBegin
  BY <1>4 DEF ApBegin, TypeOK, OptionsOutliveStart
<1>5. CASE ApConfig
  <2>1. leaseStartFor(apOctet) \in Bytes
    BY <1>1 DEF leaseStartFor, Bytes
  <2> QED BY <1>5, <2>1 DEF ApConfig, TypeOK, OptionsOutliveStart
<1>6. CASE ApCreate
  BY <1>6 DEF ApCreate, TypeOK, OptionsOutliveStart
<1>7. CASE BeginFails
  BY <1>7 DEF BeginFails, TypeOK, OptionsOutliveStart
<1>8. CASE WaitStarted
  BY <1>8 DEF WaitStarted, Started, TypeOK, OptionsOutliveStart
<1>9. CASE DhcpsStop
  BY <1>9 DEF DhcpsStop, Options, TypeOK, OptionsOutliveStart
<1>10. CASE DhcpsOptions
  <2>1. PICK now \in SUBSET Options :
          /\ refused' = refused \cup now
          /\ longLease' = (longLease \/ (dhcps # "started" /\ "lease" \notin now))
          /\ offersDns' = (offersDns \/ (dhcps # "started" /\ "dns" \notin now))
    BY <1>10 DEF DhcpsOptions
  <2>2. dhcps # "started" \/ refused = Options
    BY <1>10 DEF DhcpsOptions, OptionsOutliveStart
  <2>3. offersDns' \/ "dns" \in refused'
    BY <2>1, <2>2, Zenon DEF Options
  <2>4. longLease' \/ "lease" \in refused'
    BY <2>1, <2>2, Zenon DEF Options
  <2>5. /\ offersDns' \in BOOLEAN /\ longLease' \in BOOLEAN
        /\ refused' \subseteq Options
    <3>1. longLease' \in BOOLEAN
      BY <2>1, Zenon
    <3>2. offersDns' \in BOOLEAN
      BY <2>1, Zenon
    <3> QED BY <2>1, <3>1, <3>2 DEF TypeOK
  <2> QED BY <1>10, <2>3, <2>4, <2>5 DEF DhcpsOptions, TypeOK, OptionsOutliveStart
<1>11. CASE DhcpsStart
  BY <1>11 DEF DhcpsStart, TypeOK, OptionsOutliveStart
<1>12. CASE PortalBegin
  BY <1>12 DEF PortalBegin, TypeOK, OptionsOutliveStart
<1>13. CASE NoNetif
  BY <1>13 DEF NoNetif, Options, TypeOK, OptionsOutliveStart
<1> QED BY <1>2, <1>3, <1>4, <1>5, <1>6, <1>7, <1>8, <1>9, <1>10, <1>11, <1>12, <1>13
        DEF Setup

LEMMA StepHolds == IInv /\ [Next]_vars => IInv'
<1> SUFFICES ASSUME IInv, [Next]_vars PROVE IInv'
  OBVIOUS
<1>1. CASE ApStarts
  <2>1. UNCHANGED <<pc, settings, outcome, leaseStart, longLease, refused, linkVars, ledVars>>
        /\ ap = "created" /\ ap' = "started" /\ dhcps' = "started" /\ offersDns' = FALSE
    BY <1>1 DEF ApStarts
  <2> QED BY <2>1 DEF IInv, TypeOK, OptionsOutliveStart, settings, outcome,
                      linkVars, ledVars
<1>2. CASE LinkChanges
  <2>1. uplinkReady' \in BOOLEAN /\ radioStations' \in 0..1
    <3>1. uplinkReady \in BOOLEAN /\ radioStations \in 0..1
      BY DEF IInv, TypeOK
    <3>2. CASE uplinkReady' = ~uplinkReady /\ UNCHANGED radioStations
      <4>1. (~uplinkReady) \in BOOLEAN
        OBVIOUS
      <4> QED BY <3>1, <3>2, <4>1, Zenon
    <3>3. CASE radioStations' = 1 - radioStations /\ UNCHANGED uplinkReady
      <4>1. 1 - radioStations \in 0..1
        BY <3>1
      <4> QED BY <3>1, <3>3, <4>1, Zenon
    <3> QED BY <1>2, <3>2, <3>3 DEF LinkChanges
  <2> QED BY <1>2, <2>1 DEF LinkChanges, IInv, TypeOK, OptionsOutliveStart, settings,
                            outcome, netifVars, ledVars
<1>3. ASSUME NEW phaseOn \in BOOLEAN, ShowState(phaseOn) PROVE IInv'
  <2> DEFINE c == IF phaseOn \/ ~Flashing(LedState) THEN Hue[LedState] ELSE Off
  <2>1. Write(c) /\ UNCHANGED <<brightness, pc, settings, outcome, netifVars, linkVars>>
    BY <1>3 DEF ShowState, Update
  <2>2. LedState \in States
    BY DEF LedState, States
  <2>3. Dimmed(c, brightness) \in Colours
    BY <2>2, DimmedType DEF IInv, TypeOK
  <2> HIDE DEF c
  <2>4. led' \in Colours /\ lastWrittenPacked' \in {Unknown, led'}
    BY <2>1, <2>3, LedTypes DEF IInv
  <2> QED BY <2>1, <2>4 DEF IInv, TypeOK, OptionsOutliveStart, settings, outcome,
                            netifVars, linkVars, Colours
<1>4. CASE UNCHANGED vars
  BY <1>4 DEF vars, IInv, TypeOK, OptionsOutliveStart, settings, outcome, netifVars,
              linkVars, ledVars
<1> QED BY <1>1, <1>2, <1>3, <1>4, SetupHolds DEF Next

LEMMA Inductive == Spec => []IInv
BY InitHolds, StepHolds, PTL DEF Spec

-----------------------------------------------------------------------------
(* What follows from it.                                                   *)

\* Every variable keeps its type: the first address of the DHCP range and the
\* components of a colour stay bytes, and what write() last wrote is what the
\* LED shows (softap.cpp:32-37, statusled.cpp:39-51).
THEOREM TypeCorrect == Spec => []TypeOK
BY Inductive, PTL DEF IInv

\* A router that is up and serves addresses offers a resolver and the long lease
\* with them, unless the driver refused to stop its server or to take that very
\* option: whenever the interface starts, its start undoes neither, and neither
\* is set while the server runs (softap.cpp:58-109).
THEOREM ResolverIsOffered == Spec => []ResolverOffered
<1>1. IInv => ResolverOffered
  BY DEF IInv, OptionsOutliveStart, ResolverOffered
<1> QED BY <1>1, Inductive, PTL

\* At every brightness from 3 on, any two states of the LED look different.
THEOREM StatesAreTold == Spec => []StatesTellApart
<1>1. TypeOK => StatesTellApart
  <2> SUFFICES ASSUME TypeOK, brightness >= 3,
                      NEW s \in States, NEW t \in States, s # t
               PROVE  Scaled(Hue[s]) # Scaled(Hue[t])
    BY DEF StatesTellApart
  <2> DEFINE b == brightness
             mid == (90 * b) \div 255
  <2>1. b \in Bytes /\ b # 0 /\ mid # 0
    BY DimmedPart DEF TypeOK
  <2>2. /\ Scaled(Hue["UpstreamDown"]) = <<b, 0, 0>>
        /\ Scaled(Hue["NoClients"]) = <<b, mid, 0>>
        /\ Scaled(Hue["Connected"]) = <<0, 0, b>>
        /\ Scaled(Hue["Fault"]) = <<b, 0, b>>
        /\ Scaled(Hue["Boot"]) = <<b, b, b>>
    BY <2>1, DimmedHue DEF Scaled
  <2> HIDE DEF b, mid
  <2> QED BY <2>1, <2>2 DEF States
<1> QED BY <1>1, TypeCorrect, PTL

\* Below that, amber has lost its green: a router without clients looks like one
\* without an uplink (statusled.cpp:26-27, 42).
THEOREM AmberIsRedBelow3 ==
  ASSUME TypeOK, brightness < 3
  PROVE  Scaled(Hue["NoClients"]) = Scaled(Hue["UpstreamDown"])
<1>1. brightness \in Bytes /\ (90 * brightness) \div 255 = 0
  BY DimmedPart DEF TypeOK
<1> QED BY <1>1, DimmedHue DEF Scaled
===============================================================================
