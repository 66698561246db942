---------------------------- MODULE MCRetention ----------------------------
(* Finite instances of what is stored of a log.  A behaviour has one       *)
(* focus: its rows, as turns, attestations and retention runs leave them   *)
(* (Retention), or its documents, none of them deleted (RecordChecks).     *)
EXTENDS Retention, RecordChecks, TLC

VARIABLE focus

Symmetry == Permutations(TurnIds) \cup Permutations(Jobs)

\* A fourth record only under the first key, and before any creative is edited.
Small == LastSeq' < MaxRecords \/ (config'.key = 1 /\ \A c \in Creatives : stored'[c] = 0)

StoredInit ==
    /\ focus \in {"rows", "documents"}
    /\ Init /\ RecordInit

StoredNext ==
    /\ UNCHANGED focus
    /\ \/ focus = "rows" /\ Next /\ UNCHANGED recordVars
       \/ focus = "documents" /\ RecordNext /\ Small /\ UNCHANGED vars

StoredSpec == StoredInit /\ [][StoredNext]_<<focus, vars, recordVars>>
=============================================================================
