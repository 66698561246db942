------------------------------- MODULE MCLog -------------------------------
(* Finite instances of an app's log.  A behaviour has one focus: the log   *)
(* as it is written (AuditChain), or as a block on a screen and the        *)
(* overview count it (Impressions).                                        *)
EXTENDS MCAuditChain, Impressions

VARIABLE focus

Alike == Symmetry \cup Permutations(AuditIds)

LogInit ==
    /\ focus \in {"writes", "overview"}
    /\ Init /\ ImpressionsInit

(* One overview is enough, and a third render comes before the clock moves. *)
Budget == 4
Loading == overview.decisions = Unread \/ overview.events = Unread
LogNext ==
    /\ UNCHANGED focus
    /\ \/ focus = "writes" /\ Next /\ UNCHANGED impressionVars
       \/ /\ focus = "overview" /\ UNCHANGED vars
          /\ IF Loading THEN ImpressionsNext ELSE UNCHANGED impressionVars
          /\ renders' + tick' <= Budget

LogSpec == LogInit /\ [][LogNext]_<<focus, vars, impressionVars>>
=============================================================================
