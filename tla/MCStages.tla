------------------------------ MODULE MCStages ------------------------------
(* The three parts of a turn that wait for somebody who may never answer,  *)
(* under timers of their own: classify() for the model, mediate() for the  *)
(* adapters, the SDK for the gateway.  They share no state; a behaviour is *)
(* of one of them, its focus, and the other two stay where they start.     *)
EXTENDS MCConversation, MCMediation, MCSdkTurn

VARIABLE focus

StagesInit ==
    /\ focus \in {"words", "demand", "client"}
    /\ ConversationInit /\ MediationInit /\ Init
    /\ focus # "words" => ~configured
    /\ focus # "client" => turn = CHOOSE p \in Plans : TRUE

AtWords == focus = "words" /\ UNCHANGED <<focus, mediationVars, vars>>
AtDemand == focus = "demand" /\ UNCHANGED <<focus, conversationVars, vars>>
AtClient == focus = "client" /\ UNCHANGED <<focus, conversationVars, mediationVars>>

StagesNext ==
    \/ AtWords /\ ConversationNext
    \/ AtDemand /\ MediationNext
    \/ AtClient /\ Next

StagesSpec ==
    /\ StagesInit /\ [][StagesNext]_<<focus, conversationVars, mediationVars, vars>>
    /\ \A t \in Asks : WF_conversationVars(AtWords /\ ClassifyDeadline(t))
    /\ WF_mediationVars(AtDemand /\ Rank)
    /\ \A i \in Indices : WF_mediationVars(AtDemand /\ TimerFires(i))
    /\ \A c \in Calls : WF_vars(AtClient /\ Deadline(c))
    /\ \A s \in Steps : /\ WF_vars(AtClient /\ AfterEvaluation(s))
                         /\ WF_vars(AtClient /\ AfterAttest(s))

\* Whoever does not answer, model, adapter or gateway, a turn goes on without
\* it: classify() answers, mediate() answers, and an answered step of the SDK
\* ends.  None of them waits again, so at last nobody waits.
WaitsEnd == []<>~(ClassifyWaits \/ MediateWaits \/ StepsWait)
=============================================================================
