---------------------------- MODULE MCAdmission ----------------------------
(* A finite instance of Admission: one process with the limited write      *)
(* routes and the read routes, an app key and an advertiser's, and two     *)
(* requests at a time, whose statements may overtake one another.          *)
EXTENDS Admission, TLC

CONSTANTS app_key, ad_key, process, write, read

KeyRoles == [k \in Keys |-> IF k = app_key THEN "app" ELSE "advertiser_read"]
GateTable ==
    [g \in Gates |->
        [process |-> process,
         roles |-> IF g = read THEN {"app", "advertiser_read"} ELSE {"app"},
         limited |-> g = write]]

\* Each key with its secret, and the app key with the other's.
Presented == {<<app_key, app_key>>, <<ad_key, ad_key>>, <<app_key, ad_key>>}

Alike == Permutations(Requests)
=============================================================================
