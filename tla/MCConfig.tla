------------------------------- MODULE MCConfig -------------------------------
(***************************************************************************)
(* Config with four forms: one with every field filled in for 802.1X, one  *)
(* as the page posts it, one that has only the required fields, and one    *)
(* with a password that is too short.                                      *)
(***************************************************************************)
EXTENDS Config

MCLegal ==
  [f \in Fields |->
     CASE f = "uplinkEnterprise" -> {"ent", "psk"}
       [] f = "ledBrightness" -> {Off, "a"}
       [] f \in {"uplinkPass", "eapUsername", "adminPass"} -> {"", "a", "b"}
       [] f \in {"uplinkSsid", "apIp"} -> {"a", "b"}
       [] OTHER -> {"a"}]

MCDefaults ==
  [f \in Fields |-> CASE f = "uplinkEnterprise" -> "psk"
                      [] f = "eapUsername" -> ""
                      [] OTHER -> "a"]

Filled ==
  [f \in Fields |-> CASE f = "uplinkEnterprise" -> "ent"
                      [] f \in {"uplinkSsid", "uplinkPass", "eapUsername", "adminPass"} -> "b"
                      [] OTHER -> "a"]

\* As the page posts it, with the passwords left blank and the SoftAP moved.
Page ==
  [f \in Fields |-> CASE f = "uplinkEnterprise" -> "psk"
                      [] f \in Credentials -> ""
                      [] f = "apIp" -> "b"
                      [] OTHER -> "a"]

Partial ==
  [f \in Fields |-> IF f \in Required THEN "a"
                    ELSE IF f = "uplinkEnterprise" THEN "ent" ELSE Absent]

BadPass == [Filled EXCEPT !["apPass"] = Bad]

MCForms == {Filled, Page, Partial, BadPass}
===============================================================================
