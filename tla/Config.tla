-------------------------------- MODULE Config --------------------------------
(***************************************************************************)
(* The settings of the router: config.cpp, which keeps them in NVS one key *)
(* at a time, and handleSave() of portal.cpp, which checks a posted form,  *)
(* lays it over the settings in force, saves and restarts the board.       *)
(*                                                                         *)
(* Power may fail between any two keys.  NVS writes a single key           *)
(* atomically and keeps it; the settings in RAM are lost.  A put may also  *)
(* fail, as when NVS is full: the key keeps what it had, and save() does   *)
(* not look at the result.                                                 *)
(*                                                                         *)
(* A value is "" or one of the legal values of its field, without blanks   *)
(* around it (handleSave trims); apIp stands for the /24 it spans.  A form *)
(* lacks a field (Absent), leaves it empty or gives a value; Bad is a text *)
(* that is no address, or a password shorter than eight characters.        *)
(***************************************************************************)
EXTENDS Integers, Sequences, FiniteSets

CONSTANTS
  Legal,     \* the legal values of each field, "" among them where it is one
  Defaults,  \* what secrets.h compiles in
  Forms,     \* what is posted to /save
  MaxFails,  \* bound on the keys whose last put failed
  Off,       \* brightness 0
  Missing, Absent, Bad

\* The keys in the order save() writes them, named after the fields.
Keys == <<"uplinkSsid", "uplinkEnterprise", "uplinkPass", "eapIdentity",
          "eapUsername", "eapPassword", "apSsid", "apPass", "apIp", "dns",
          "ledBrightness", "adminUser", "adminPass">>

Fields == {Keys[j] : j \in 1..Len(Keys)}

Required == {"uplinkSsid", "apSsid", "adminUser", "apIp", "dns"}

Credentials == {"uplinkPass", "eapIdentity", "eapUsername", "eapPassword",
                "apPass", "adminPass"}

Passwords == {"uplinkPass", "eapPassword", "apPass", "adminPass"}

Settings == {s \in [Fields -> UNION {Legal[f] : f \in Fields}] :
               \A f \in Fields : s[f] \in Legal[f]}

Stored == {s \in [Fields -> (UNION {Legal[f] : f \in Fields}) \cup {Missing}] :
             \A f \in Fields : s[f] \in Legal[f] \cup {Missing}}

EnterpriseUsable(s) == s["uplinkEnterprise"] = "ent" => s["eapUsername"] # ""

ASSUME LegalAssumption ==
  /\ \A f \in Required : "" \notin Legal[f]
  /\ Legal["uplinkEnterprise"] = {"ent", "psk"}
  /\ Off \in Legal["ledBrightness"] /\ "" \notin Legal["ledBrightness"]

\* What is no setting of any field.
ASSUME NoSettingAssumption ==
  /\ \A f \in Fields : Legal[f] \cap {Missing, Absent, Bad} = {}
  /\ "" \notin {Missing, Absent, Bad}

\* handleSave() looks at the form of these three (apPass: at its length).
Checked == {"apIp", "dns", "apPass"}

ASSUME FormsAssumption ==
  \A form \in Forms, f \in Fields :
    \/ form[f] \in Legal[f] \cup {Absent, ""}
    \/ f \in Checked /\ form[f] = Bad

ASSUME DefaultsAssumption ==
  /\ Defaults \in Settings
  /\ EnterpriseUsable(Defaults)

VARIABLES
  at,             \* "off", "seeding", "saving" or "running"
  settings,       \* config::settings
  nvs,            \* the stored keys
  written,        \* keys written by the save() under way
  rebootPending,  \* g_rebootAtMs # 0
  apNet,          \* the network the SoftAP was brought up with
  before,         \* history: what the keys gave when the last save() began
  failed          \* history: keys whose last put failed, since the last boot

history == <<before, failed>>
vars == <<at, settings, nvs, written, rebootPending, apNet, history>>

TypeOK ==
  /\ at \in {"off", "seeding", "saving", "running"}
  /\ settings \in Settings
  /\ nvs \in Stored
  /\ written \in 0..Len(Keys)
  /\ rebootPending \in BOOLEAN
  /\ apNet \in Legal["apIp"]
  /\ before \in Settings
  /\ failed \subseteq Fields

\* A blank device.
Init ==
  /\ at = "off"
  /\ settings = Defaults
  /\ nvs = [f \in Fields |-> Missing]
  /\ written = 0
  /\ rebootPending = FALSE
  /\ apNet = Defaults["apIp"]
  /\ before = Defaults
  /\ failed = {}

-----------------------------------------------------------------------------
(* config::begin().                                                        *)

\* A slip: a key that is not there reads as empty.
LoadedBlank == [f \in Fields |-> IF nvs[f] # Missing THEN nvs[f]
                                 ELSE IF f \in Required \cup Credentials THEN ""
                                 ELSE Defaults[f]]

Loaded == [f \in Fields |-> IF nvs[f] = Missing THEN Defaults[f] ELSE nvs[f]]

Provisioned == nvs["uplinkSsid"] # Missing

LoadSettings ==
  /\ at = "off"
  /\ Provisioned
  /\ settings' = Loaded
  /\ at' = "running"
  /\ apNet' = Loaded["apIp"]
  /\ failed' = {}
  /\ UNCHANGED <<nvs, written, rebootPending, before>>

SeedDefaults ==
  /\ at = "off"
  /\ ~Provisioned
  /\ settings' = Defaults
  /\ at' = "seeding"
  /\ written' = 0
  /\ before' = Loaded
  /\ failed' = {}
  /\ UNCHANGED <<nvs, rebootPending, apNet>>

-----------------------------------------------------------------------------
(* handleSave().                                                           *)

\* A slip: the form is taken to have the field.
UsernameEmpty(form) == form["eapUsername"] = ""

UsernameLeftOut(form) == form["eapUsername"] \in {Absent, ""}

Accepts(form) ==
  /\ \A f \in Required : form[f] \notin {Absent, "", Bad}
  /\ form["apPass"] # Bad
  /\ ~(/\ form["uplinkEnterprise"] = "ent"
       /\ UsernameLeftOut(form)
       /\ settings["eapUsername"] = "")

\* A slip: what the form leaves empty is stored empty, as it once was.
OverlayBlank(form) ==
  [f \in Fields |-> IF form[f] = Absent THEN settings[f] ELSE form[f]]

\* A brightness that is not there reads as the number 0, and an authentication
\* that is there but not "ent" as WPA2-Personal.
Overlay(form) ==
  [f \in Fields |->
     IF f = "ledBrightness" /\ form[f] \in {Absent, ""} THEN Off
     ELSE IF f = "uplinkEnterprise" /\ form[f] = "" THEN "psk"
     ELSE IF form[f] \in {Absent, ""} THEN settings[f]
     ELSE form[f]]

\* A slip: the namespace is cleared before it is written.
KeysKeptCleared == nvs' = [f \in Fields |-> Missing]

KeysKept == UNCHANGED nvs

\* guard() compares the client's address with the settings in force, not with
\* the network the SoftAP runs: a new AP address locks everybody out until
\* the restart.
Save(form) ==
  /\ at = "running"
  /\ settings["apIp"] = apNet
  /\ Accepts(form)
  /\ settings' = Overlay(form)
  /\ before' = Loaded
  /\ KeysKept
  /\ at' = "saving"
  /\ written' = 0
  /\ UNCHANGED <<rebootPending, apNet, failed>>

\* A slip: the brightness is on a page of its own.
RenderedNoLed(s) ==
  [f \in Fields |-> IF f \in Passwords THEN "" ELSE IF f = "ledBrightness" THEN Absent
                    ELSE s[f]]

\* The form as the page shows it: every field with its value, but the passwords.
Rendered(s) == [f \in Fields |-> IF f \in Passwords THEN "" ELSE s[f]]

-----------------------------------------------------------------------------
(* config::save(), one key per step.                                       *)

\* A slip: the last key is forgotten.
PutShort(key) == nvs' = IF key = "adminPass" THEN nvs ELSE [nvs EXCEPT ![key] = settings[key]]

Put(key) == nvs' = [nvs EXCEPT ![key] = settings[key]]

WriteKey ==
  /\ at \in {"seeding", "saving"}
  /\ written < Len(Keys)
  /\ LET key == Keys[written + 1]
     IN \/ Put(key) /\ failed' = failed \ {key}
        \/ /\ Cardinality(failed \cup {key}) <= MaxFails
           /\ failed' = failed \cup {key}
           /\ UNCHANGED nvs
  /\ written' = written + 1
  /\ UNCHANGED <<at, settings, rebootPending, apNet, before>>

\* After the seed the SoftAP comes up; after a save the restart is scheduled.
SaveDone ==
  /\ at \in {"seeding", "saving"}
  /\ written = Len(Keys)
  /\ at' = "running"
  /\ rebootPending' = (rebootPending \/ at = "saving")
  /\ apNet' = IF at = "seeding" THEN settings["apIp"] ELSE apNet
  /\ UNCHANGED <<settings, nvs, written, history>>

-----------------------------------------------------------------------------
(* Restarts.                                                               *)

PoweredOff ==
  /\ at' = "off"
  /\ rebootPending' = FALSE
  /\ UNCHANGED <<settings, nvs, written, apNet, history>>

\* portal::loop() 1.5 s after the save; other saves may come first.
Restart == at = "running" /\ rebootPending /\ PoweredOff

PowerLoss == at # "off" /\ PoweredOff

Next ==
  \/ LoadSettings \/ SeedDefaults
  \/ \E form \in Forms : Save(form)
  \/ WriteKey \/ SaveDone
  \/ Restart \/ PowerLoss

Spec == Init /\ [][Next]_vars

-----------------------------------------------------------------------------
(* Properties.                                                             *)

\* What is in force is what a restart would bring back: save() and begin()
\* agree on every key, no later restart changes what an earlier power loss has
\* left, and a put that fails costs its own key only.  The one exception is the
\* key begin() asks for: without it a restart forgets all the others, too
\* (config.cpp:54-97).
RestartChangesNothing ==
  at = "running" => IF Provisioned THEN \A f \in Fields \ failed : Loaded[f] = settings[f]
                                   ELSE "uplinkSsid" \in failed

\* A power loss leaves a mix, but of two settings only and cut in one place:
\* the keys up to some point are those of the last save, except where a put
\* failed, and the rest are those that were stored before (config.cpp:81-97).
TornInOnePlace ==
  [][LoadSettings =>
       \E k \in 0..Len(Keys) : \A j \in 1..Len(Keys) :
         settings'[Keys[j]] = IF j <= k /\ Keys[j] \notin failed
                                THEN settings[Keys[j]] ELSE before[Keys[j]]]_vars

\* portal.cpp:482-489: saving unconditionally "silently blanks the EAP
\* credentials", which "strands the router with no way upstream".  A credential
\* that has been stored is replaced but never blanked, whatever is posted.  It
\* takes puts that fail: that of the SSID on every save, so that the next boot
\* stores the defaults again, and then perhaps that of the credential itself, so
\* that it outlasts them until the save after (config.cpp:54-61).
CredentialsNeverBlanked ==
  [][\A f \in Credentials :
       nvs[f] \notin {Missing, ""} /\ nvs'[f] \in {Missing, ""}
         => at = "seeding" \/ f \in failed]_vars

\* No form and no sequence of forms makes the settings ask for 802.1X without
\* a username.  What can is a power loss after the mode was written and before
\* the username was, or a failed put of one of the two: then the next boot
\* cannot join (portal.cpp:468, config.cpp:83-86).
OnlyTornSaveStrands ==
  [][LET lost == EnterpriseUsable(settings) /\ EnterpriseUsable(before)
                   /\ ~EnterpriseUsable(settings')
     IN lost => /\ LoadSettings
                /\ \/ written \in 2..4
                   \/ failed \cap {"uplinkEnterprise", "eapUsername"} # {}]_vars

\* Whatever the settings have become, the page posted as it is changes none of
\* them, passwords it does not show included, and it is accepted unless the
\* settings lack the username they need (portal.cpp:331-386, 443-516).
UntouchedPageKeeps ==
  /\ Overlay(Rendered(settings)) = settings
  /\ EnterpriseUsable(settings) => Accepts(Rendered(settings))
=============================================================================
