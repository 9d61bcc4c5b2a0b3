-------------------------- MODULE MCAdapterBodies ---------------------------
(* Bodies of up to two items, over an empty text, a text with a value and  *)
(* a text of two parts; of the requests those that rebuild can put         *)
(* together.                                                               *)
EXTENDS AdapterBodies

AnyRole == {"system", "user", "model", "assistant"}
Vocabulary == {"value", "hello", "label"}
MessageTexts == {<<>>, <<"value">>}
Parts == {<<>>, <<<<"value">>>>, <<<<"hello">>, <<"value">>>>}
Masked == {<<"label">>, <<"hello", "label">>}

UpTo2(S) == {<<>>} \cup {<<a>> : a \in S} \cup {<<a, b>> : a, b \in S}

SomeMessages == {Item(r, x) : r \in {"system", "user", "assistant"}, x \in MessageTexts}
SomeContents == {Item(r, x) : r \in {"system", "user", "model"}, x \in Parts}
Systems == {Missing} \cup Parts

GatewayBodies ==
    {Gateway(ms) : ms \in {Missing} \cup UpTo2(SomeMessages \cup {NotDict})}
PlainRequests ==
    {b \in GatewayBodies \cup
            {Gemini(s, cs) : s \in Systems,
                cs \in {Missing} \cup UpTo2(SomeContents \cup {NotDict})} : Plain(b)}
SomeAnswers == {Item("assistant", x) : x \in MessageTexts} \cup {NotDict}
AnyResponses ==
    GatewayBodies \cup
    {Chat(ms, cs, m) : ms, cs \in {Missing} \cup UpTo2(SomeAnswers),
         m \in {Missing} \cup {<<a>> : a \in SomeAnswers}} \cup
    {Candidates(cs) : cs \in UpTo2(SomeContents \cup {NotDict})}
=============================================================================
