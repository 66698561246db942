---------------------------- MODULE MCAuditChain ----------------------------
(* Finite instances of AuditChain.                                         *)
EXTENDS AuditChain, TLC

Caps(session, day, gap) ==
    [per_session |-> session, per_user_per_day |-> day, min_turns_between |-> gap]

\* Two ads a conversation with a turn between them; a request may ask for one.
OneTurnApart == Caps(2, 2, 1)
OneAdOnly == {AppCaps, Caps(1, 3, 0)}

\* One ad a user and day.
OnePerDay == Caps(2, 1, 0)
Unchanged == {AppCaps}

Symmetry == Permutations(Calls) \cup Permutations(Conversations)
=============================================================================
