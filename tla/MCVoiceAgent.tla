---------------------------- MODULE MCVoiceAgent ----------------------------
(* Small instances of VoiceAgent for TLC.                                  *)
EXTENDS VoiceAgent

SomeUtterances == {{}, {"approve"}, {"approve", "reject"}, {"approve", "more"},
                   {"reject"}, {"more"}}

(* Enough where no property is about what a reply decides.                 *)
FewUtterances == {{}, {"approve", "more"}}

(* An answer of each shape, for each thing that becomes of a turn.         *)
FewAnswers ==
  [calls : {<<>>, <<"unusable", "new_intent">>, <<"confirmation_reply">>,
            <<"simple_lookup">>, <<"small_talk", "unusable">>},
   text : BOOLEAN]

(* One call with any class, no call, a call of no use before or after one  *)
(* that is, and text or none.                                              *)
SomeAnswers ==
  [calls : {<<c>> : c \in Classes} \cup
           {<<>>, <<"unusable">>, <<"unusable", "new_intent">>,
            <<"session_query", "unusable">>},
   text : BOOLEAN]
=============================================================================
