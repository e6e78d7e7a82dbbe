----------------------------- MODULE ConfigProofs -----------------------------
(***************************************************************************)
(* Proofs about Config, for any legal values, defaults and forms and any   *)
(* number of puts that fail: what a save torn by a power loss or by NVS    *)
(* leaves behind, and what it never does.                                  *)
(***************************************************************************)
EXTENDS Config, TLAPS

-----------------------------------------------------------------------------
(* The keys.                                                               *)

\* Where the keys the proofs name stand in the order save() writes them.
LEMMA KeyList ==
  /\ Len(Keys) = 13
  /\ Keys[1] = "uplinkSsid" /\ Keys[2] = "uplinkEnterprise" /\ Keys[5] = "eapUsername"
  /\ \A j \in 1..13 : Keys[j] \in Fields
  /\ \A f \in Fields : \E j \in 1..13 : Keys[j] = f
BY DEF Keys, Fields

\* No key is written twice.
LEMMA KeysApart ==
  ASSUME NEW i \in 1..13, NEW j \in 1..13, Keys[i] = Keys[j]
  PROVE  i = j
BY DEF Keys

LEMMA FieldNames ==
  /\ Required \subseteq Fields /\ Credentials \subseteq Fields
  /\ "uplinkSsid" \in Fields /\ "uplinkEnterprise" \in Fields /\ "eapUsername" \in Fields
  /\ "ledBrightness" \in Fields /\ "apPass" \in Fields /\ "apIp" \in Fields
BY DEF Keys, Fields, Required, Credentials

-----------------------------------------------------------------------------
(* The settings stay legal.                                                *)

\* What settings are, and what NVS holds of them.
LEMMA SettingsLegal ==
  ASSUME NEW s \in Settings
  PROVE  s = [f \in Fields |-> s[f]] /\ \A f \in Fields : s[f] \in Legal[f]
BY DEF Settings

\* A function of the fields is all of it when its values are.
LEMMA StoredIntro ==
  ASSUME NEW s, s = [f \in Fields |-> s[f]],
         \A f \in Fields : s[f] \in Legal[f] \cup {Missing}
  PROVE  s \in Stored
<1> DEFINE U == UNION {Legal[f] : f \in Fields}
<1> DEFINE R == U \cup {Missing}
<1>1. ASSUME NEW f \in Fields PROVE s[f] \in R
  <2>1. Legal[f] \in {Legal[g] : g \in Fields}
    OBVIOUS
  <2>2. Legal[f] \subseteq U
    BY <2>1
  <2>3. s[f] \in Legal[f] \cup {Missing}
    OBVIOUS
  <2> HIDE DEF U
  <2> QED BY <2>2, <2>3
<1>2. s \in [Fields -> R]
  <2> HIDE DEF R
  <2> QED BY <1>1
<1>3. s \in {t \in [Fields -> R] : \A f \in Fields : t[f] \in Legal[f] \cup {Missing}}
  <2> HIDE DEF R
  <2> QED BY <1>2
<1> QED BY <1>3 DEF Stored

LEMMA StoredLegal ==
  ASSUME NEW s \in Stored
  PROVE  s = [f \in Fields |-> s[f]] /\ \A f \in Fields : s[f] \in Legal[f] \cup {Missing}
BY DEF Stored

\* begin() reads settings, whatever is in NVS.
LEMMA LoadedLegal == nvs \in Stored => Loaded \in Settings
<1> SUFFICES ASSUME nvs \in Stored PROVE Loaded \in Settings
  OBVIOUS
<1>1. \A f \in Fields : (IF nvs[f] = Missing THEN Defaults[f] ELSE nvs[f]) \in Legal[f]
  BY StoredLegal, SettingsLegal, DefaultsAssumption
<1> QED BY <1>1 DEF Loaded, Settings

\* The overlay of a form that was accepted leaves settings.
LEMMA OverlayLegal ==
  ASSUME settings \in Settings, NEW form \in Forms, Accepts(form)
  PROVE  Overlay(form) \in Settings
<1> DEFINE e(f) == IF f = "ledBrightness" /\ form[f] \in {Absent, ""} THEN Off
                   ELSE IF f = "uplinkEnterprise" /\ form[f] = "" THEN "psk"
                   ELSE IF form[f] \in {Absent, ""} THEN settings[f]
                   ELSE form[f]
<1>1. ASSUME NEW f \in Fields PROVE e(f) \in Legal[f]
  <2>1. settings[f] \in Legal[f]
    BY SettingsLegal
  <2>2. form[f] # Bad \/ f \notin Checked
    BY FieldNames DEF Accepts, Checked, Required
  <2>3. form[f] \in Legal[f] \cup {Absent, ""}
    BY <2>2, FormsAssumption
  <2> QED BY <2>1, <2>3, LegalAssumption
<1> HIDE DEF e
<1>2. [f \in Fields |-> e(f)] \in Settings
  BY <1>1 DEF Settings
<1> QED BY <1>2 DEF Overlay, e

\* A put stores what is legal, or nothing.
LEMMA PutLegal ==
  ASSUME nvs \in Stored, settings \in Settings, NEW key \in Fields, Put(key) \/ UNCHANGED nvs
  PROVE  nvs' \in Stored
<1>1. CASE Put(key)
  <2>1. settings[key] \in Legal[key]
    BY SettingsLegal
  <2>2. nvs' = [f \in Fields |-> IF f = key THEN settings[key] ELSE nvs[f]]
    BY <1>1, StoredLegal DEF Put
  <2>3. ASSUME NEW f \in Fields PROVE nvs'[f] \in Legal[f] \cup {Missing}
    BY <2>1, <2>2, StoredLegal
  <2>4. nvs' = [f \in Fields |-> nvs'[f]]
    BY <2>2
  <2> QED BY <2>3, <2>4, StoredIntro
<1> QED BY <1>1

\* The key save() writes next.
LEMMA NextKey ==
  ASSUME TypeOK, WriteKey
  PROVE  written \in 0..12 /\ Keys[written + 1] \in Fields
<1>1. Len(Keys) = 13
  BY KeyList
<1>2. written \in 0..Len(Keys) /\ written < Len(Keys)
  BY DEF TypeOK, WriteKey
<1>3. written \in 0..12
  BY <1>1, <1>2
<1> QED BY <1>3, KeyList

LEMMA InitTyped == Init => TypeOK
<1> SUFFICES ASSUME Init PROVE TypeOK
  OBVIOUS
<1>1. nvs \in Stored
  <2>1. nvs = [f \in Fields |-> Missing]
    BY DEF Init
  <2>2. \A f \in Fields : nvs[f] \in Legal[f] \cup {Missing}
    BY <2>1
  <2> QED BY <2>1, <2>2, StoredIntro
<1>2. Defaults \in Settings /\ Defaults["apIp"] \in Legal["apIp"]
  BY DefaultsAssumption, SettingsLegal, FieldNames
<1>3. 0 \in 0..Len(Keys)
  BY KeyList
<1> QED BY <1>1, <1>2, <1>3 DEF Init, TypeOK

LEMMA StepTyped == TypeOK /\ [Next]_vars => TypeOK'
<1> SUFFICES ASSUME TypeOK, [Next]_vars PROVE TypeOK'
  OBVIOUS
<1> USE DEF TypeOK, history
<1>1. Loaded \in Settings /\ Loaded["apIp"] \in Legal["apIp"] /\ Defaults \in Settings
  BY LoadedLegal, SettingsLegal, FieldNames, DefaultsAssumption
<1>2. 0 \in 0..Len(Keys)
  BY KeyList
<1>3. CASE LoadSettings
  BY <1>1, <1>3 DEF LoadSettings
<1>4. CASE SeedDefaults
  BY <1>1, <1>2, <1>4 DEF SeedDefaults
<1>5. ASSUME NEW form \in Forms, Save(form) PROVE TypeOK'
  BY <1>1, <1>2, <1>5, OverlayLegal DEF Save, KeysKept
<1>6. CASE WriteKey
  <2> DEFINE key == Keys[written + 1]
  <2>1. written \in 0..12
    BY <1>6, NextKey
  <2>2. key \in Fields
    BY <1>6, NextKey
  <2>3. nvs' \in Stored
    BY <1>6, <2>2, PutLegal DEF WriteKey
  <2>4. failed' \subseteq Fields /\ written' \in 0..Len(Keys)
    BY <1>6, <2>1, <2>2, KeyList DEF WriteKey
  <2> QED BY <1>6, <2>3, <2>4 DEF WriteKey
<1>7. CASE SaveDone
  <2>1. apNet' \in Legal["apIp"]
    BY <1>7, SettingsLegal, FieldNames DEF SaveDone
  <2> QED BY <1>7, <2>1 DEF SaveDone
<1>8. CASE Restart \/ PowerLoss
  BY <1>8 DEF Restart, PowerLoss, PoweredOff
<1>9. CASE UNCHANGED vars
  BY <1>9 DEF vars
<1> QED BY <1>3, <1>4, <1>5, <1>6, <1>7, <1>8, <1>9 DEF Next

\* What is in force is always made of legal values, and so is what is stored:
\* handleSave() rejects or passes over everything else, and a torn save mixes
\* settings that were legal each (portal.cpp:455-516, config.cpp:64-78).
THEOREM TypeCorrect == Spec => []TypeOK
BY InitTyped, StepTyped, PTL DEF Spec

-----------------------------------------------------------------------------
(* Where a save was cut.                                                   *)

\* What a boot would load are the first k keys of the save under way, or of the
\* last one, but for those whose put failed, and before that what it found.
Torn(k) ==
  \A j \in 1..13 :
    Loaded[Keys[j]] = IF j <= k /\ Keys[j] \notin failed THEN settings[Keys[j]]
                                                        ELSE before[Keys[j]]

\* Where it is cut: at the key save() has come to, nowhere once it is done, and
\* with the power off it may be either.
CutKnown ==
  /\ at \in {"seeding", "saving"} => Torn(written)
  /\ at = "running" => Torn(13)
  /\ at = "off" => Torn(written) \/ Torn(13)

\* The key that begin() asks for comes first, and is there unless its put failed.
SsidFirst ==
  \/ at = "off"
  \/ at # "running" /\ written = 0
  \/ Provisioned
  \/ "uplinkSsid" \in failed

\* A save is of no blank where a credential is stored.
NoBlankSaved ==
  at = "saving" =>
    \A f \in Credentials \ failed : nvs[f] \notin {Missing, ""} => settings[f] # ""

IInv == TypeOK /\ CutKnown /\ SsidFirst /\ NoBlankSaved

\* Loading a key.
LEMMA LoadedKey ==
  ASSUME NEW f \in Fields
  PROVE  Loaded[f] = IF nvs[f] = Missing THEN Defaults[f] ELSE nvs[f]
BY DEF Loaded

LEMMA InitHolds == Init => IInv
<1> SUFFICES ASSUME Init PROVE IInv
  OBVIOUS
<1>1. TypeOK
  BY InitTyped
<1>2. Torn(written)
  <2>1. ASSUME NEW j \in 1..13 PROVE Loaded[Keys[j]] = before[Keys[j]]
    BY KeyList, LoadedKey DEF Init
  <2> QED BY <2>1 DEF Init, Torn
<1> QED BY <1>1, <1>2 DEF Init, IInv, CutKnown, SsidFirst, NoBlankSaved

\* A boot, or a save that begins, has its keys still to write.
LEMMA BeginsWhole ==
  ASSUME UNCHANGED nvs, before' = Loaded, written' = 0
  PROVE  Torn(written)'
BY DEF Torn, Loaded

\* What is loaded is as if every key of it had just been saved.
LEMMA LoadedWhole ==
  ASSUME UNCHANGED nvs, settings' = Loaded, failed' = {}
  PROVE  Torn(13)'
<1>1. Loaded' = Loaded
  BY DEF Loaded
<1> QED BY <1>1 DEF Torn

\* The form's overlay blanks nothing.
LEMMA OverlayKeeps ==
  ASSUME NEW form, NEW f \in Credentials, settings[f] # ""
  PROVE  Overlay(form)[f] # ""
<1>1. f \in Fields /\ f # "ledBrightness" /\ f # "uplinkEnterprise"
  BY FieldNames DEF Credentials
<1> QED BY <1>1 DEF Overlay

\* One key more, or one whose put fails.
LEMMA WriteKeyHolds == IInv /\ WriteKey => IInv'
<1> SUFFICES ASSUME IInv, WriteKey PROVE IInv'
  OBVIOUS
<1> DEFINE key == Keys[written + 1]
<1>1. /\ TypeOK' /\ written \in 0..12 /\ written' = written + 1 /\ at' = at
      /\ at \in {"seeding", "saving"} /\ settings' = settings /\ before' = before
  BY StepTyped, KeyList DEF IInv, TypeOK, WriteKey, Next
<1>2. /\ key \in Fields /\ settings[key] # Missing
      /\ \A j \in 1..13 : Keys[j] = key => j = written + 1
  <2>1. written + 1 \in 1..13
    BY <1>1
  <2>2. key \in Fields
    BY <2>1, KeyList
  <2>3. settings[key] \in Legal[key] /\ Missing \notin Legal[key]
    BY <2>2, SettingsLegal, NoSettingAssumption DEF IInv, TypeOK
  <2> QED BY <2>1, <2>2, <2>3, KeysApart
<1>3. \/ Put(key) /\ failed' = failed \ {key}
      \/ UNCHANGED nvs /\ failed' = failed \cup {key}
  BY DEF WriteKey
<1>4. nvs = [f \in Fields |-> nvs[f]]
  BY StoredLegal DEF IInv, TypeOK
<1> HIDE DEF key
<1>5. \A f \in Fields : f # key => nvs'[f] = nvs[f] /\ (f \in failed' <=> f \in failed)
  BY <1>3, <1>4 DEF Put
<1>6. \/ nvs'[key] = settings[key] /\ key \notin failed'
      \/ nvs'[key] = nvs[key] /\ key \in failed'
  BY <1>2, <1>3, <1>4 DEF Put
<1>7. ASSUME NEW f \in Fields
      PROVE  Loaded'[f] = IF nvs'[f] = Missing THEN Defaults[f] ELSE nvs'[f]
  BY DEF Loaded
<1>8. Torn(written)'
  <2> SUFFICES ASSUME NEW j \in 1..13
               PROVE  Loaded'[Keys[j]] = IF j <= written + 1 /\ Keys[j] \notin failed'
                                           THEN settings[Keys[j]] ELSE before[Keys[j]]
    BY <1>1 DEF Torn
  <2>1. Loaded[Keys[j]] = IF j <= written /\ Keys[j] \notin failed
                            THEN settings[Keys[j]] ELSE before[Keys[j]]
    BY <1>1 DEF IInv, CutKnown, Torn
  <2>2. Keys[j] \in Fields
    BY KeyList
  <2>3. CASE j = written + 1
    <3>1. Keys[j] = key
      BY <2>3 DEF key
    <3>2. Loaded[key] = before[key]
      BY <1>1, <2>1, <2>3, <3>1
    <3> QED BY <1>1, <1>2, <1>6, <1>7, <2>3, <3>1, <3>2, LoadedKey
  <2>4. CASE j # written + 1
    <3>1. Keys[j] # key
      BY <1>2, <2>4
    <3>2. Loaded'[Keys[j]] = Loaded[Keys[j]] /\ (Keys[j] \in failed' <=> Keys[j] \in failed)
      BY <1>5, <1>7, <2>2, <3>1, LoadedKey
    <3>3. j <= written + 1 <=> j <= written
      BY <1>1, <2>4
    <3> QED BY <2>1, <3>2, <3>3
  <2> QED BY <2>3, <2>4
<1>9. SsidFirst'
  <2>1. CASE written = 0
    <3>1. key = "uplinkSsid"
      BY <2>1, KeyList DEF key
    <3> QED BY <1>2, <1>6, <3>1 DEF SsidFirst, Provisioned
  <2>2. CASE written # 0
    <3>1. key # "uplinkSsid"
      BY <1>1, <1>2, <2>2, KeyList
    <3>2. Provisioned \/ "uplinkSsid" \in failed
      BY <1>1, <2>2 DEF IInv, SsidFirst
    <3> QED BY <1>5, <3>1, <3>2, FieldNames DEF SsidFirst, Provisioned
  <2> QED BY <2>1, <2>2
<1>10. NoBlankSaved'
  <2> SUFFICES ASSUME at = "saving", NEW f \in Credentials \ failed', nvs'[f] \notin {Missing, ""}
               PROVE  settings[f] # ""
    BY <1>1 DEF NoBlankSaved
  <2>1. CASE f = key
    BY <1>6, <2>1
  <2>2. CASE f # key
    BY <1>5, <2>2, FieldNames DEF IInv, NoBlankSaved
  <2> QED BY <2>1, <2>2
<1> QED BY <1>1, <1>8, <1>9, <1>10 DEF IInv, CutKnown

\* Where nothing is written the cut stays where it was.
LEMMA CutStays ==
  ASSUME UNCHANGED <<nvs, settings, before, failed>>, NEW k, Torn(k)
  PROVE  Torn(k)'
BY DEF Torn, Loaded

LEMMA SaveHolds ==
  ASSUME IInv, NEW form \in Forms, Save(form)
  PROVE  IInv'
<1>1. TypeOK'
  BY StepTyped DEF IInv, Next
<1>2. /\ at = "running" /\ at' = "saving" /\ written' = 0 /\ before' = Loaded
      /\ settings' = Overlay(form) /\ UNCHANGED <<nvs, failed>>
  BY DEF Save, KeysKept
<1>3. Torn(written)'
  BY <1>2, BeginsWhole
<1>4. ASSUME NEW f \in Credentials \ failed, nvs[f] \notin {Missing, ""}
      PROVE  Overlay(form)[f] # ""
  <2>1. PICK j \in 1..13 : Keys[j] = f
    BY KeyList, FieldNames
  <2>2. Loaded[f] = settings[f]
    BY <1>2, <2>1 DEF IInv, CutKnown, Torn
  <2>3. settings[f] # ""
    BY <1>4, <2>2, LoadedKey, FieldNames
  <2> QED BY <2>3, OverlayKeeps
<1> QED BY <1>1, <1>2, <1>3, <1>4 DEF IInv, CutKnown, SsidFirst, NoBlankSaved

LEMMA StepHolds == IInv /\ [Next]_vars => IInv'
<1> SUFFICES ASSUME IInv, [Next]_vars PROVE IInv'
  OBVIOUS
<1>1. TypeOK'
  BY StepTyped DEF IInv
<1>2. CASE LoadSettings
  <2>1. Torn(13)'
    BY <1>2, LoadedWhole DEF LoadSettings
  <2> QED BY <1>1, <1>2, <2>1 DEF LoadSettings, IInv, CutKnown, SsidFirst, NoBlankSaved, Provisioned
<1>3. CASE SeedDefaults
  <2>1. Torn(written)'
    BY <1>3, BeginsWhole DEF SeedDefaults
  <2> QED BY <1>1, <1>3, <2>1 DEF SeedDefaults, IInv, CutKnown, SsidFirst, NoBlankSaved
<1>4. CASE \E form \in Forms : Save(form)
  BY <1>4, SaveHolds
<1>5. CASE WriteKey
  BY <1>5, WriteKeyHolds
<1>6. CASE SaveDone
  <2>1. at \in {"seeding", "saving"} /\ written = 13 /\ at' = "running"
        /\ UNCHANGED <<nvs, settings, before, failed>>
    BY <1>6, KeyList DEF SaveDone, history
  <2>2. Torn(13)'
    BY <2>1, CutStays DEF IInv, CutKnown
  <2>3. SsidFirst'
    <3>1. Provisioned \/ "uplinkSsid" \in failed
      BY <2>1 DEF IInv, SsidFirst
    <3> QED BY <2>1, <3>1 DEF SsidFirst, Provisioned
  <2> QED BY <1>1, <2>1, <2>2, <2>3 DEF IInv, CutKnown, NoBlankSaved
<1>7. CASE Restart \/ PowerLoss
  <2>1. at # "off" /\ at' = "off" /\ UNCHANGED <<nvs, settings, before, failed, written>>
    BY <1>7 DEF Restart, PowerLoss, PoweredOff, history
  <2>2. (Torn(written) \/ Torn(13)) /\ (at = "off")'
    BY <2>1 DEF IInv, TypeOK, CutKnown
  <2>3. Torn(written)' \/ Torn(13)'
    <3>1. CASE Torn(written)
      BY <2>1, <3>1, CutStays DEF Torn
    <3>2. CASE Torn(13)
      BY <2>1, <3>2, CutStays
    <3> QED BY <2>2, <3>1, <3>2
  <2> QED BY <1>1, <2>1, <2>3 DEF IInv, CutKnown, SsidFirst, NoBlankSaved
<1>8. CASE UNCHANGED vars
  BY <1>1, <1>8 DEF vars, history, IInv, CutKnown, SsidFirst, NoBlankSaved, Torn, Loaded,
                    Provisioned
<1> QED BY <1>2, <1>3, <1>4, <1>5, <1>6, <1>7, <1>8 DEF Next

LEMMA Inductive == Spec => []IInv
BY InitHolds, StepHolds, PTL DEF Spec

-----------------------------------------------------------------------------
(* What follows from it.                                                   *)

\* save() and begin() agree on every key: what is in force is what a restart
\* brings back, but for the keys whose put failed, whatever boots, saves and
\* power losses went before (config.cpp:54-97).
THEOREM RestartsChangeNothing == Spec => []RestartChangesNothing
<1>1. IInv => RestartChangesNothing
  <2> SUFFICES ASSUME IInv, at = "running"
               PROVE  /\ \A f \in Fields \ failed : Loaded[f] = settings[f]
                      /\ Provisioned \/ "uplinkSsid" \in failed
    BY DEF RestartChangesNothing
  <2>1. ASSUME NEW f \in Fields \ failed PROVE Loaded[f] = settings[f]
    <3>1. PICK j \in 1..13 : Keys[j] = f
      BY KeyList
    <3> QED BY <3>1 DEF IInv, CutKnown, Torn
  <2> QED BY <2>1 DEF IInv, SsidFirst
<1> QED BY <1>1, Inductive, PTL

\* A boot never finds settings torn in more than one place, or of more than the
\* last save and what it found (config.cpp:81-97).
THEOREM OneCut == Spec => TornInOnePlace
<1>1. IInv /\ LoadSettings =>
        \E k \in 0..Len(Keys) : \A j \in 1..Len(Keys) :
          settings'[Keys[j]] = IF j <= k /\ Keys[j] \notin failed
                                 THEN settings[Keys[j]] ELSE before[Keys[j]]
  <2> SUFFICES ASSUME IInv, LoadSettings
               PROVE  \E k \in 0..13 : \A j \in 1..13 :
                        settings'[Keys[j]] = IF j <= k /\ Keys[j] \notin failed
                                               THEN settings[Keys[j]] ELSE before[Keys[j]]
    BY KeyList
  <2>1. PICK k \in 0..13 : Torn(k)
    BY KeyList DEF IInv, TypeOK, CutKnown, LoadSettings
  <2>2. settings' = Loaded
    BY DEF LoadSettings
  <2> QED BY <2>1, <2>2 DEF Torn
<1> QED BY <1>1, Inductive, PTL DEF Spec, TornInOnePlace

\* No form blanks a stored credential: it takes a boot that stores the defaults
\* again, and what it does where a put fails (portal.cpp:482-489).
THEOREM CredentialsKept == Spec => CredentialsNeverBlanked
<1>1. IInv /\ [Next]_vars =>
        [\A f \in Credentials :
           nvs[f] \notin {Missing, ""} /\ nvs'[f] \in {Missing, ""}
             => at = "seeding" \/ f \in failed]_vars
  <2> SUFFICES ASSUME IInv, [Next]_vars, NEW f \in Credentials,
                      nvs[f] \notin {Missing, ""}, nvs'[f] \in {Missing, ""},
                      at # "seeding", f \notin failed
               PROVE  FALSE
    OBVIOUS
  <2>1. WriteKey
    BY DEF Next, LoadSettings, SeedDefaults, Save, KeysKept, SaveDone, Restart, PowerLoss,
           PoweredOff, vars
  <2>2. at = "saving" /\ settings[f] # ""
    BY <2>1 DEF WriteKey, IInv, NoBlankSaved
  <2>3. nvs'[f] = nvs[f] \/ nvs'[f] = settings[f]
    <3>1. PICK key \in Fields : Put(key) \/ UNCHANGED nvs
      BY <2>1, NextKey DEF WriteKey, IInv
    <3>2. nvs = [g \in Fields |-> nvs[g]]
      BY StoredLegal DEF IInv, TypeOK
    <3> QED BY <3>1, <3>2, FieldNames DEF Put
  <2>4. settings[f] # Missing
    BY SettingsLegal, NoSettingAssumption, FieldNames DEF IInv, TypeOK
  <2> QED BY <2>2, <2>3, <2>4
<1> QED BY <1>1, Inductive, PTL DEF Spec, CredentialsNeverBlanked

\* Settings that ask for 802.1X without a username come from no sequence of
\* forms: only a boot finds them, after a save that was cut between the two keys
\* or in which the put of one of them failed (portal.cpp:468, config.cpp:83-86).
THEOREM OnlyTornStrands == Spec => OnlyTornSaveStrands
<1>1. ASSUME IInv, [Next]_vars, EnterpriseUsable(settings), EnterpriseUsable(before),
             ~EnterpriseUsable(settings')
      PROVE  LoadSettings
  <2>1. CASE SeedDefaults
    BY <1>1, <2>1, DefaultsAssumption DEF SeedDefaults
  <2>2. ASSUME NEW form \in Forms, Save(form) PROVE FALSE
    <3>1. /\ settings'["uplinkEnterprise"] = IF form["uplinkEnterprise"] = "" THEN "psk"
                                             ELSE IF form["uplinkEnterprise"] = Absent
                                               THEN settings["uplinkEnterprise"]
                                               ELSE form["uplinkEnterprise"]
          /\ settings'["eapUsername"] = IF form["eapUsername"] \in {Absent, ""}
                                           THEN settings["eapUsername"]
                                           ELSE form["eapUsername"]
      BY <2>2, FieldNames DEF Save, Overlay
    <3> QED BY <1>1, <2>2, <3>1 DEF Save, Accepts, UsernameLeftOut, EnterpriseUsable
  <2>3. CASE \/ WriteKey \/ SaveDone \/ Restart \/ PowerLoss \/ UNCHANGED vars
    <3>1. settings' = settings
      BY <2>3 DEF WriteKey, SaveDone, Restart, PowerLoss, PoweredOff, vars
    <3> QED BY <1>1, <3>1
  <2> QED BY <1>1, <2>1, <2>2, <2>3 DEF Next
<1>2. ASSUME IInv, LoadSettings, EnterpriseUsable(settings), EnterpriseUsable(before),
             failed \cap {"uplinkEnterprise", "eapUsername"} = {}, written \notin 2..4
      PROVE  EnterpriseUsable(settings')
  <2>1. PICK k \in 0..13 : Torn(k) /\ k \notin 2..4
    BY <1>2, KeyList DEF IInv, TypeOK, CutKnown, LoadSettings
  <2>2. settings' = Loaded
    BY <1>2 DEF LoadSettings
  <2>3. /\ settings'["uplinkEnterprise"] = IF 2 <= k THEN settings["uplinkEnterprise"]
                                                    ELSE before["uplinkEnterprise"]
        /\ settings'["eapUsername"] = IF 5 <= k THEN settings["eapUsername"]
                                               ELSE before["eapUsername"]
    BY <1>2, <2>1, <2>2, KeyList DEF Torn
  <2>4. CASE k < 2
    <3>1. ~(2 <= k) /\ ~(5 <= k)
      BY <2>1, <2>4
    <3> QED BY <1>2, <2>3, <3>1 DEF EnterpriseUsable
  <2>5. CASE 5 <= k
    <3>1. 2 <= k
      BY <2>1, <2>5
    <3> QED BY <1>2, <2>3, <2>5, <3>1 DEF EnterpriseUsable
  <2>6. k < 2 \/ 5 <= k
    BY <2>1
  <2> QED BY <2>4, <2>5, <2>6
<1>3. IInv /\ [Next]_vars =>
        [LET lost == EnterpriseUsable(settings) /\ EnterpriseUsable(before)
                       /\ ~EnterpriseUsable(settings')
         IN lost => /\ LoadSettings
                    /\ \/ written \in 2..4
                       \/ failed \cap {"uplinkEnterprise", "eapUsername"} # {}]_vars
  BY <1>1, <1>2
<1> QED BY <1>3, Inductive, PTL DEF Spec, OnlyTornSaveStrands

\* Whatever the settings have become, the page posted as it was shown leaves each
\* of them alone (portal.cpp:331-386, 443-516).
THEOREM UntouchedPageIsKept == Spec => []UntouchedPageKeeps
<1>1. TypeOK => UntouchedPageKeeps
  <2> SUFFICES ASSUME TypeOK PROVE UntouchedPageKeeps
    OBVIOUS
  <2> DEFINE page == Rendered(settings)
  <2>1. /\ settings = [f \in Fields |-> settings[f]]
        /\ \A f \in Fields : settings[f] \in Legal[f] /\ settings[f] \notin {Missing, Absent, Bad}
    BY SettingsLegal, NoSettingAssumption DEF TypeOK
  <2>2. \A f \in Fields : page[f] = IF f \in Passwords THEN "" ELSE settings[f]
    BY DEF Rendered
  <2>3. settings["ledBrightness"] # "" /\ settings["uplinkEnterprise"] # ""
    BY <2>1, FieldNames, LegalAssumption
  <2>4. "ledBrightness" \notin Passwords /\ "uplinkEnterprise" \notin Passwords
    BY DEF Passwords
  <2> HIDE DEF page
  <2>5. ASSUME NEW f \in Fields
        PROVE  (IF f = "ledBrightness" /\ page[f] \in {Absent, ""} THEN Off
                ELSE IF f = "uplinkEnterprise" /\ page[f] = "" THEN "psk"
                ELSE IF page[f] \in {Absent, ""} THEN settings[f]
                ELSE page[f]) = settings[f]
    BY <2>1, <2>2, <2>3, <2>4
  <2>6. Overlay(page) = settings
    BY <2>1, <2>5 DEF Overlay
  <2>7. ASSUME EnterpriseUsable(settings) PROVE Accepts(page)
    <3>1. ASSUME NEW f \in Required PROVE page[f] \notin {Absent, "", Bad}
      <4>1. f \in Fields /\ f \notin Passwords
        BY FieldNames DEF Required, Passwords
      <4> QED BY <2>1, <2>2, <4>1, LegalAssumption
    <3>2. page["apPass"] # Bad
      BY <2>2, FieldNames, NoSettingAssumption DEF Passwords
    <3>3. page["uplinkEnterprise"] = settings["uplinkEnterprise"]
      BY <2>2, <2>4, FieldNames
    <3> QED BY <2>7, <3>1, <3>2, <3>3 DEF Accepts, EnterpriseUsable
  <2> QED BY <2>6, <2>7 DEF UntouchedPageKeeps, page
<1> QED BY <1>1, TypeCorrect, PTL
===============================================================================
