--------------------------- MODULE MCConversation ---------------------------
(* A small instance of Conversation: three messages and six words are kept *)
(* where the code keeps four and 4,000 characters, the dictionary has one  *)
(* phrase of each kind.                                                    *)
EXTENDS Conversation, TLC

CONSTANTS a1, a2

Words == {"gun", "glue", "buy", "how", "die", "to", "Glue", "!", "user", "assistant"}
NormalWords ==
    [w \in Words |-> CASE w = "Glue" -> <<"glue">> [] w = "!" -> <<>> [] OTHER -> <<w>>]

Gun == [strong |-> {<<"gun">>}, weak |-> {}, exclusions |-> <<<<"glue", "gun">>>>]
Harm == [strong |-> {<<"to", "die">>}, weak |-> {<<"die">>, <<"how">>}, exclusions |-> <<>>]
SensitiveRules == [c \in {"weapons", "self_harm"} |-> IF c = "weapons" THEN Gun ELSE Harm]
CommercialRules ==
    [c \in {"crafts"} |-> [products |-> {<<"glue", "gun">>}, topics |-> {<<"glue">>}]]
IntentWeights == [p \in {<<"buy">>} |-> 45]
Questions == {<<"how", "to">>}

Spelling ==
    [l \in {"self_harm", "Self-Harm", "weapons", "crafts", "poetry"} |->
        IF l = "Self-Harm" THEN "self_harm" ELSE l]
Written(intent, sensitive, confidence) ==
    [intent |-> intent, categories |-> {"crafts", "poetry"}, sensitive |-> sensitive,
     confidence |-> confidence]
Replies == {Garbled, Written(1200, {}, 900), Written(700, {"Self-Harm", "poetry"}, 300)}
Merging == [detection |-> "balanced", min_confidence |-> 700]

Says(role, content) == [role |-> role, content |-> content]
Of(messages) == [messages |-> messages, summary |-> <<>>]
One(words) == Of(<<Says("user", words)>>)

\* Single messages, among them compounds side by side; two that are one to
\* the cache; two that end with the same message; a system prompt; a summary;
\* one too many messages; nothing.
Short ==
    {One(w) : w \in {<<"buy", "glue", "gun">>, <<"buy", "Glue", "gun", "!">>,
                     <<"glue", "gun", "glue", "gun">>, <<"glue", "gun", "gun">>,
                     <<"how", "to", "buy">>, <<"buy">>, <<"!">>, <<>>}}
    \cup {Of(<<Says("system", <<"gun">>), Says("user", <<"buy">>)>>),
          [messages |-> <<Says("system", <<"gun">>)>>, summary |-> <<"how", "to">>],
          Of(<<Says("assistant", <<"how", "die">>), Says("user", <<"buy">>)>>),
          Of(<<Says("user", <<"to">>), Says("assistant", <<"buy">>), Says("user", <<"buy">>),
               Says("assistant", <<"glue">>)>>)}

\* One that is cut: to die is what the rules still read and the model does not.
Long ==
    {Of(<<Says("user", <<first, "die", "buy">>), Says("assistant", <<"buy">>),
          Says("user", <<"buy">>)>>) : first \in {"to", "buy"}}
\* Two to the rules, one to the model.
Quoted ==
    {Of(<<Says("user", <<"to">>), Says("assistant", <<"die">>)>>),
     One(<<"to", "assistant", "die">>)}
SomeTalk == Short \cup Quoted
CutTalk == Long

=============================================================================
