--------------------------- MODULE MCVerification ---------------------------
(* Finite instances of what is read from a log that goes on changing.  A   *)
(* behaviour has one focus: a verification, with or without a deletion by  *)
(* somebody else, or a report, either followed to its end (ChainVerify,    *)
(* Reports); or a search of a member's app and one the operator            *)
(* registered, whose pages are turned (AuditPages).                        *)
EXTENDS Reports, AuditPages, TLC

CONSTANTS
    MaxRows,    \* bound: the longest chain a verification or report looks at
    m1, p1, p2

VARIABLE focus

Symmetry == Permutations(Ours) \cup Permutations(TurnIds \ Ours)

Owners == [a \in {p1, p2} |-> IF a = p1 THEN m1 ELSE NoAccount]
Asked(viewer, app, decision, from) ==
    [viewer |-> viewer, app |-> app, decision |-> decision, from |-> from, to |-> LastTime]
Asking ==
    {Asked(Admin, AnyApp, AnyDecision, 0), Asked(m1, AnyApp, AnyDecision, 1),
     Asked(Admin, p2, "serve", 0)}

Bounded == \A row \in audit' : row.seq <= MaxRows
VerificationNext ==
    \/ ~Collected /\ ~Done /\ System /\ Bounded /\ UNCHANGED collection
    \/ ~Queried /\ ~Done /\ (Verify \/ Tamper) /\ UNCHANGED collection
    \/ reader = NoReader /\ tampered = {} /\ ~Collected /\ Collect
    \/ (Collected \/ Done) /\ UNCHANGED reportVars

ReadersInit ==
    /\ focus \in {"checks", "pages"}
    /\ ReportInit /\ PagesInit
    /\ focus # "pages" => search = CHOOSE s \in Searches : TRUE

ReadersNext ==
    /\ UNCHANGED focus
    /\ \/ focus = "checks" /\ VerificationNext /\ UNCHANGED pageVars
       \/ focus = "pages" /\ PagesNext /\ UNCHANGED reportVars

VerificationSpec == ReadersInit /\ [][ReadersNext]_<<focus, reportVars, pageVars>>
BundleSpec ==
    /\ ReadersInit /\ focus = "checks"
    /\ [][ReportNext /\ UNCHANGED <<focus, pageVars>>]_<<focus, reportVars, pageVars>>
=============================================================================
