--------------------------- MODULE AdapterBodies ----------------------------
(***************************************************************************)
(* The adapters of app/adapters: a request or response body is unfolded    *)
(* into turns, the pipeline changes the text of the latest turn, and the   *)
(* adapter puts the turns back into the body.                              *)
(*                                                                         *)
(* A body is a record of the fields the adapters look at, each a sequence  *)
(* of items or Missing.  An item that is no JSON object is NotDict.  A     *)
(* text is a sequence of words, so that parts can be joined.               *)
(* BodyInit, BodyNext, BodySpec: a module of proofs extends SpanMerge too. *)
(***************************************************************************)
EXTENDS Naturals, SequencesExt

CONSTANTS
    Words,      \* what texts are made of
    Roles,      \* the roles of messages, turns and contents
    Requests,   \* the request bodies explored
    Responses,  \* the response bodies explored
    NewTexts,   \* the texts the pipeline may put in
    Missing     \* a field the body has not

VARIABLES body, direction, turns, stage

bodyVars == <<body, direction, turns, stage>>

NotDict == [dict |-> FALSE]

Item(role, text)  == [dict |-> TRUE, role |-> role, content |-> text]
Turn(role, text)  == [role |-> role, text |-> text]
(* A response may come as a chat.completion: one of its choices, or its    *)
(* message, which is no list in JSON and a list of one item here.          *)
Chat(messages, choices, message) ==
    [messages |-> messages, choices |-> choices, message |-> message,
     contents |-> Missing, candidates |-> Missing, system |-> Missing]
Gateway(messages) == Chat(messages, Missing, Missing)
Gemini(system, contents) ==
    [Gateway(Missing) EXCEPT !.system = system, !.contents = contents]
Candidates(candidates) == [Gateway(Missing) EXCEPT !.candidates = candidates]

(* select_adapter: gemini is asked first, gateway takes the rest.          *)
IsGemini(b) == b.contents # Missing \/ b.candidates # Missing

(* A field that must be a list; data.get(..., []).                         *)
ListOf(field) == IF field = Missing THEN <<>> ELSE field

(* What clients send: a message has a text, an item of the other format a  *)
(* list of parts, and so has a system instruction.                         *)
BodyTexts == Seq(Words)
Messages  == [dict : {TRUE}, role : Roles, content : BodyTexts] \cup {NotDict}
Contents  == [dict : {TRUE}, role : Roles, content : Seq(BodyTexts)] \cup {NotDict}
IsList(field, S) == field \in Seq(S) /\ field # Missing
IsGatewayBody(b) ==
    b = Gateway(b.messages) /\ (b.messages = Missing \/ IsList(b.messages, Messages))
IsGeminiBody(b) ==
    /\ b = Gemini(b.system, b.contents)
    /\ b.system = Missing \/ IsList(b.system, BodyTexts)
    /\ b.contents = Missing \/ IsList(b.contents, Contents)
IsChatBody(b) ==
    /\ b = Chat(b.messages, b.choices, b.message)
    /\ \A field \in {b.messages, b.choices, b.message} :
           field = Missing \/ IsList(field, Messages)
IsCandidatesBody(b) == b = Candidates(b.candidates) /\ IsList(b.candidates, Contents)

ASSUME BodyAssumption ==
    /\ \A b \in Requests : IsGatewayBody(b) \/ IsGeminiBody(b)
    /\ \A b \in Responses : IsChatBody(b) \/ IsCandidatesBody(b)
    /\ {"system", "assistant"} \subseteq Roles
    /\ NewTexts \subseteq BodyTexts \ {<<>>}
    /\ Missing \notin Seq(Messages) \cup Seq(Contents) \cup Seq(BodyTexts)

(* The loop over the items, which skips what is no object.                 *)
Objects(items) ==
    LET kept[n \in 0 .. Len(items)] ==
            IF n = 0 THEN <<>>
            ELSE IF items[n].dict THEN Append(kept[n - 1], items[n])
            ELSE kept[n - 1]
    IN  kept[Len(items)]

-----------------------------------------------------------------------------
(* The gateway adapter: {"messages": [{role, content}]}.                   *)

GatewayTurns(b) ==
    LET objects == Objects(ListOf(b.messages))
    IN  [i \in DOMAIN objects |-> Turn(objects[i].role, objects[i].content)]

(* zip over every message, the skipped ones included, and the turns.       *)
Replaced(items, ts, With(_, _)) ==
    [i \in DOMAIN items |->
        IF i \in DOMAIN ts /\ items[i].dict THEN With(items[i], ts[i]) ELSE items[i]]
WithContent(item, turn) == [item EXCEPT !.content = turn.text]

GatewayRebuild(b, ts) ==
    [b EXCEPT !.messages = Replaced(ListOf(@), ts, WithContent)]

(* parse_response and rebuild_response: the last message, and if that is   *)
(* no object the first of the choices, or the message.                     *)
LastIsDict(items) == items # <<>> /\ Last(items).dict
FirstIsDict(items) == items # <<>> /\ Head(items).dict
GatewayText(b) ==
    IF LastIsDict(ListOf(b.messages)) THEN Last(b.messages).content
    ELSE IF FirstIsDict(ListOf(b.choices)) THEN b.choices[1].content
    ELSE IF FirstIsDict(ListOf(b.message)) THEN b.message[1].content
    ELSE <<>>

(* Mutant: the response's first message is replaced.                       *)
ReplaceFirstMessage(b, text) ==
    IF LastIsDict(ListOf(b.messages)) /\ Head(b.messages).dict
    THEN [b EXCEPT !.messages[1].content = text] ELSE b
GatewayRebuildResponse(b, text) ==
    IF LastIsDict(ListOf(b.messages))
    THEN [b EXCEPT !.messages[Len(b.messages)].content = text]
    ELSE IF FirstIsDict(ListOf(b.choices)) THEN [b EXCEPT !.choices[1].content = text]
    ELSE IF FirstIsDict(ListOf(b.message)) THEN [b EXCEPT !.message[1].content = text]
    ELSE b

-----------------------------------------------------------------------------
(* The gemini adapter: {"system_instruction", "contents": [{role, parts}]} *)
(* and {"candidates": [{content: {parts}}]}.                               *)

Joined(parts) == FlattenSeq(parts)
InternalRole(role) == IF role = "model" THEN "assistant" ELSE role

(* A system instruction without text is no turn.                           *)
SystemTurns(b) ==
    IF b.system = Missing \/ Joined(ListOf(b.system)) = <<>> THEN <<>>
    ELSE <<Turn("system", Joined(b.system))>>

GeminiTurns(b) ==
    LET objects == Objects(ListOf(b.contents))
    IN  SystemTurns(b) \o
        [i \in DOMAIN objects |-> Turn(InternalRole(objects[i].role), Joined(objects[i].content))]

WithParts(item, turn) == [item EXCEPT !.content = <<turn.text>>]

(* Mutant: the turn of the system instruction is not taken off the turns.  *)
SystemStays(b, ts) == FALSE
TakesSystem(b, ts) == b.system # Missing /\ ts # <<>> /\ ts[1].role = "system"

GeminiRebuild(b, ts) ==
    IF TakesSystem(b, ts)
    THEN [b EXCEPT !.system = <<ts[1].text>>,
                   !.contents = Replaced(ListOf(@), Tail(ts), WithParts)]
    ELSE [b EXCEPT !.contents = Replaced(ListOf(@), ts, WithParts)]

GeminiText(b) ==
    IF FirstIsDict(ListOf(b.candidates)) THEN Joined(b.candidates[1].content) ELSE <<>>
GeminiRebuildResponse(b, text) ==
    IF FirstIsDict(ListOf(b.candidates))
    THEN [b EXCEPT !.candidates[1].content = <<text>>] ELSE b

-----------------------------------------------------------------------------
ExtractTurns(b) == IF IsGemini(b) THEN GeminiTurns(b) ELSE GatewayTurns(b)
ParseResponse(b) == IF IsGemini(b) THEN GeminiText(b) ELSE GatewayText(b)

BodyInit ==
    /\ \/ direction = "input" /\ body \in Requests
       \/ direction = "output" /\ body \in Responses
    /\ turns = <<>> /\ stage = "received"

(* _analyze_input and _analyze_output, up to the stages.                   *)
Extract ==
    /\ stage = "received"
    /\ turns' = IF direction = "input" THEN ExtractTurns(body)
                ELSE <<Turn("assistant", ParseResponse(body))>>
    /\ stage' = "extracted"
    /\ UNCHANGED <<body, direction>>

(* The stages replace parts of the latest turn's text, if it has any: by    *)
(* what is never empty (an aggregated value is an AMOUNT, and summed up).  *)
ChangeText(text) ==
    /\ stage = "extracted" /\ turns # <<>>
    /\ Last(turns).text # <<>> /\ text # Last(turns).text
    /\ turns' = [turns EXCEPT ![Len(turns)].text = text]
    /\ stage' = "staged"
    /\ UNCHANGED <<body, direction>>

(* A text that has not changed passes with the original body.              *)
PassOn ==
    /\ stage = "extracted"
    /\ stage' = "sent"
    /\ UNCHANGED <<body, direction, turns>>

Rebuild ==
    /\ stage = "staged"
    /\ body' = IF direction = "input"
               THEN IF IsGemini(body) THEN GeminiRebuild(body, turns)
                    ELSE GatewayRebuild(body, turns)
               ELSE IF IsGemini(body) THEN GeminiRebuildResponse(body, turns[1].text)
                    ELSE GatewayRebuildResponse(body, turns[1].text)
    /\ stage' = "sent"
    /\ UNCHANGED <<direction, turns>>

BodyNext == Extract \/ (\E text \in NewTexts : ChangeText(text)) \/ PassOn \/ Rebuild

BodySpec == BodyInit /\ [][BodyNext]_bodyVars

-----------------------------------------------------------------------------
(* The order and number of items that rebuild relies on (gateway.py:37):   *)
(* what is no object comes last, and no item has the role of a system       *)
(* instruction that has no text.                                           *)
ObjectsFirst(items) ==
    \A i, j \in DOMAIN items : i < j /\ items[j].dict => items[i].dict
Plain(b) ==
    /\ ObjectsFirst(ListOf(b.messages)) /\ ObjectsFirst(ListOf(b.contents))
    /\ b.system # Missing /\ SystemTurns(b) = <<>> =>
           GeminiTurns(b) = <<>> \/ GeminiTurns(b)[1].role # "system"

(* The body that is sent on says what the pipeline decided it says: read   *)
(* again by its adapter, it gives the turns the stages left.               *)
SentBodyHoldsTurns ==
    stage = "sent" =>
        IF direction = "input" THEN ExtractTurns(body) = turns
        ELSE <<Turn("assistant", ParseResponse(body))>> = turns

(* Rebuilding replaces texts and nothing else: no item is added, dropped   *)
(* or given another role, and the earlier turns keep their text.           *)
RolesOf(field) ==
    [i \in DOMAIN ListOf(field) |-> IF field[i].dict THEN field[i].role ELSE "none"]
Shape(b) ==
    <<RolesOf(b.messages), RolesOf(b.choices), RolesOf(b.message), RolesOf(b.contents),
      RolesOf(b.candidates), b.system = Missing>>
EarlierTexts(b) ==
    IF direction = "input" THEN [i \in 1..(Len(ExtractTurns(b)) - 1) |-> ExtractTurns(b)[i]]
    ELSE <<>>
OnlyLatestTextReplaced ==
    [][stage' = "sent" => Shape(body') = Shape(body)
                          /\ EarlierTexts(body') = EarlierTexts(body)]_bodyVars
=============================================================================
