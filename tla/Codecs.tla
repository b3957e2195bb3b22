------------------------------- MODULE Codecs -------------------------------
(***************************************************************************)
(* The conversions of internal/protocol for whole requests and answers:    *)
(* the three request formats of clients into the gateway's own form (IR),  *)
(* IR into the request formats of the two kinds of upstream, and answers   *)
(* the way back.                                                           *)
(*                                                                         *)
(* A text is a sequence of pieces, so that joining texts is concatenation  *)
(* (separators are left out).  JSON's string form of a content is the list *)
(* of its single text part.  A tool call is its identifier, which stands   *)
(* for its name as well, and its arguments.                                *)
(***************************************************************************)
EXTENDS Sequences, SequencesExt

Map(Op(_), s) == [i \in DOMAIN s |-> Op(s[i])]
Opt(condition, item) == IF condition THEN <<item>> ELSE <<>>
\* SelectSeq, by way of FlattenSeq, whose value can be proved.
Select(Test(_), s) == FlattenSeq(Map(LAMBDA x : Opt(Test(x), x), s))

\* Parts of a content, in IR and on the wire.
TextPart(t) == [type |-> "text", text |-> t]
ImagePart(u) == [type |-> "image", url |-> u]

\* A message of IR.
Message(role, content, calls, id) ==
    [role |-> role, content |-> content, calls |-> calls, call_id |-> id]
NoId == 0

\* Arguments are an object's JSON, or text that is not (an upstream may have
\* been cut off), or absent; only an object survives being decoded.
Arguments == {"object", "{}", "broken", ""}
Input(args) == IF args \in {"broken", ""} THEN "{}" ELSE args

\* A data URL carries its image in base64; any other URL refers to it.
ImageToDataURL(source) ==
    IF source.type = "base64"
    THEN [scheme |-> "data", ref |-> source.data] ELSE source.url
ImageSource(url) ==
    IF url.scheme = "data"
    THEN [type |-> "base64", data |-> url.ref] ELSE [type |-> "url", url |-> url]

-----------------------------------------------------------------------------
(* OpenAI Chat, as a client's request and as an upstream's answer.         *)

OpenAIMessage(role, content, calls, id) ==
    [role |-> role, content |-> content, tool_calls |-> calls,
     tool_call_id |-> id]

ParseOpenAIContent(content) ==
    Map(LAMBDA p : IF p.type = "image_url" THEN ImagePart(p.image_url) ELSE p,
        content)

ParseOpenAIMessage(m) ==
    Message(m.role, ParseOpenAIContent(m.content), m.tool_calls, m.tool_call_id)

ParseOpenAIChatRequest(r) == Map(ParseOpenAIMessage, r.messages)

ContentPartsToAny(content) ==
    Map(LAMBDA p : IF p.type = "image"
                   THEN [type |-> "image_url", image_url |-> p.url] ELSE p,
        content)

MessageOutToOpenAI(m) ==
    OpenAIMessage(m.role, ContentPartsToAny(m.content), m.calls, m.call_id)

SerializeOpenAIChatRequest(msgs, choice) ==
    [to |-> "openai", system |-> <<>>, choice |-> choice,
     messages |-> Map(MessageOutToOpenAI, msgs)]

\* An answer of IR is a sequence of choices.
Choice(message, finish) == [message |-> message, finish |-> finish]

ParseOpenAIChatResponse(choices) ==
    Map(LAMBDA c : Choice(ParseOpenAIMessage(c.message), c.finish), choices)

SerializeOpenAIChatResponse(resp) ==
    Map(LAMBDA c : Choice(MessageOutToOpenAI(c.message), c.finish), resp)

-----------------------------------------------------------------------------
(* Anthropic Messages: blocks text, image, tool_use and tool_result.       *)

ToolUse(id, input) == [type |-> "tool_use", id |-> id, input |-> input]
ToolResult(id, text) == [type |-> "tool_result", id |-> id, text |-> text]

OfType(types, blocks) == Select(LAMBDA b : b.type \in types, blocks)

\* Results become messages of their own.
ToolMessages(m) ==
    Map(LAMBDA b : Message("tool", <<TextPart(b.text)>>, <<>>, b.id),
        OfType({"tool_result"}, m.content))

\* The texts and images of a message; calls are an assistant's only.
OwnMessage(m) ==
    LET content == Map(LAMBDA b : IF b.type = "image"
                                  THEN ImagePart(ImageToDataURL(b.source))
                                  ELSE TextPart(b.text),
                       OfType({"text", "image"}, m.content))
        calls == IF m.role # "assistant" THEN <<>>
                 ELSE Map(LAMBDA b : [id |-> b.id, args |-> b.input],
                          OfType({"tool_use"}, m.content))
    IN Opt(content # <<>> \/ calls # <<>>, Message(m.role, content, calls, NoId))

\* Mutant: results follow the rest of the message.
ParseAnthropicMessageLate(m) == OwnMessage(m) \o ToolMessages(m)

\* Mutant: a message of results is nothing but results.
ParseAnthropicMessageEither(m) ==
    IF ToolMessages(m) # <<>> THEN ToolMessages(m) ELSE OwnMessage(m)

ParseAnthropicMessage(m) == ToolMessages(m) \o OwnMessage(m)

ParseAnthropicMessagesRequest(r) ==
    Opt(r.system # <<>>, Message("system", <<TextPart(r.system)>>, <<>>, NoId))
        \o FlattenSeq(Map(ParseAnthropicMessage, r.messages))

\* The texts of a message, joined.
TextOf(m) == FlattenSeq(Map(LAMBDA p : p.text, OfType({"text"}, m.content)))

AnthropicContent(m) ==
    IF m.role = "tool"
    THEN <<ToolResult(m.call_id, IF m.content # <<>> /\ m.content[1].type = "text"
                                 THEN m.content[1].text ELSE <<>>)>>
    ELSE Map(LAMBDA p : IF p.type = "image"
                        THEN [type |-> "image", source |-> ImageSource(p.url)]
                        ELSE p,
             m.content)
           \o Map(LAMBDA c : ToolUse(c.id, Input(c.args)), m.calls)

\* The system messages are taken out; the others keep the role they have.
SerializeAnthropicMessagesRequest(msgs, choice) ==
    LET system == Select(LAMBDA m : m.role = "system", msgs)
        rest == Select(LAMBDA m : m.role # "system", msgs)
    IN [to |-> "anthropic", choice |-> choice,
        system |-> FlattenSeq(Map(TextOf, system)),
        messages |-> Map(LAMBDA m : [role |-> m.role,
                                     content |-> AnthropicContent(m)], rest)]

IRFinishReason(stop) ==
    CASE stop = "tool_use" -> "tool_calls"
      [] stop = "max_tokens" -> "length"
      [] OTHER -> "stop"

AnthropicStopReason(finish) ==
    CASE finish = "tool_calls" -> "tool_use"
      [] finish = "length" -> "max_tokens"
      [] OTHER -> "end_turn"

ParseAnthropicMessagesResponse(r) ==
    LET calls == OfType({"tool_use"}, r.content)
    IN <<Choice(Message("assistant", OfType({"text"}, r.content),
                        Map(LAMBDA b : [id |-> b.id, args |-> b.input], calls),
                        NoId),
                IRFinishReason(r.stop_reason))>>

FirstFinishReason(resp) == IF resp = <<>> THEN "" ELSE resp[1].finish

\* What a client of /v1/messages gets: every choice's texts, then its calls.
SerializeAnthropicMessagesResponse(resp) ==
    LET Blocks(c) == Select(LAMBDA p : p.type = "text" /\ p.text # <<>>,
                            c.message.content)
                     \o Map(LAMBDA t : ToolUse(t.id, Input(t.args)),
                            c.message.calls)
    IN [content |-> FlattenSeq(Map(Blocks, resp)),
        stop_reason |-> AnthropicStopReason(FirstFinishReason(resp))]

-----------------------------------------------------------------------------
(* OpenAI Responses: a list of items, whose type may be left out ("").     *)

ItemType(item) ==
    CASE item.type # "" -> item.type
      [] item.type = "" /\ "role" \in DOMAIN item -> "message"
      [] item.type = "" /\ "output" \in DOMAIN item -> "function_call_output"
      [] item.type = "" /\ "arguments" \in DOMAIN item -> "function_call"
      [] OTHER -> ""

\* Parts of other types are dropped, not refused.
ParseResponsesContent(content) ==
    Map(LAMBDA p : IF p.type = "input_image" THEN ImagePart(p.image_url)
                   ELSE TextPart(p.text),
        OfType({"input_text", "output_text", "input_image"}, content))

ParseResponsesItem(item) ==
    CASE ItemType(item) = "message" ->
            <<Message(IF item.role = "" THEN "user" ELSE item.role,
                      ParseResponsesContent(item.content), <<>>, NoId)>>
      [] ItemType(item) = "function_call_output" ->
            <<Message("tool", <<TextPart(item.output)>>, <<>>, item.call_id)>>
      [] ItemType(item) = "function_call" ->
            <<Message("assistant", <<>>,
                      <<[id |-> item.call_id, args |-> item.arguments]>>, NoId)>>
      [] OTHER -> <<>>

ParseResponsesRequest(r) ==
    Opt(r.system # <<>>, Message("system", <<TextPart(r.system)>>, <<>>, NoId))
        \o FlattenSeq(Map(ParseResponsesItem, r.messages))

\* The items of a choice: its joined texts, unless empty, and every call.
TextItem(m) ==
    Opt(TextOf(m) # <<>>, [type |-> "message", role |-> "assistant",
                           content |-> <<[type |-> "output_text",
                                          text |-> TextOf(m)]>>])
CallItems(m) ==
    Map(LAMBDA t : [type |-> "function_call", call_id |-> t.id,
                    arguments |-> t.args], m.calls)

\* Mutant: an answer is a text or calls, not both.
SerializeResponsesResponseEither(resp) ==
    FlattenSeq(Map(LAMBDA c : IF TextItem(c.message) # <<>> THEN TextItem(c.message)
                              ELSE CallItems(c.message), resp))

\* What a client of /v1/responses gets.
SerializeResponsesResponse(resp) ==
    FlattenSeq(Map(LAMBDA c : TextItem(c.message) \o CallItems(c.message), resp))

-----------------------------------------------------------------------------
(* The entries together.                                                   *)

\* Requests with a part of an unknown type are refused; Responses drops it.
Unparsable(entry, r) ==
    /\ entry # "responses"
    /\ \E m \in Range(r.messages) : \E p \in Range(m.content) :
          p.type \notin {"text", "image_url", "image", "tool_use", "tool_result"}

ParseEntry(entry, r) ==
    CASE entry = "anthropic" -> ParseAnthropicMessagesRequest(r)
      [] entry = "responses" -> ParseResponsesRequest(r)
      [] OTHER -> ParseOpenAIChatRequest(r)

\* For a model without system messages: their texts are put in front of the
\* first user message, and they go.  Without a user message nothing changes.
FoldSystemIntoUser(msgs) ==
    LET prefix == FlattenSeq(Map(TextOf, Select(LAMBDA m : m.role = "system", msgs)))
        u == SelectInSeq(msgs, LAMBDA m : m.role = "user")
        old == msgs[u].content
        new == IF Len(old) = 1 /\ old[1].type = "text"
               THEN <<TextPart(prefix \o old[1].text)>>
               ELSE <<TextPart(prefix)>> \o old
    IN IF prefix = <<>> \/ u = 0 THEN msgs
       ELSE Select(LAMBDA m : m.role # "system", [msgs EXCEPT ![u].content = new])

-----------------------------------------------------------------------------
(* tool_choice: absent, a bare string, or an object; name is the tool an   *)
(* object names, nested in "function" or not.                              *)

ChoiceValue(form, type, name, nested) ==
    [form |-> form, type |-> type, name |-> name, nested |-> nested]
NoChoice == ChoiceValue("absent", "", "", FALSE)
Bare(type) == ChoiceValue("string", type, "", FALSE)
Object(type) == ChoiceValue("object", type, "", FALSE)
Named(type, name) == ChoiceValue("object", type, name, FALSE)
NestedName(type, name) == ChoiceValue("object", type, name, TRUE)

\* Mutant: the name of a tool is left beside its type.
NormalizeToolChoiceFlat(c) ==
    CASE c.form # "object" -> c
      [] c.form = "object" /\ c.type \in {"auto", "any"} -> Bare("auto")
      [] c.form = "object" /\ c.type \in {"none", "required"} -> Bare(c.type)
      [] OTHER -> [c EXCEPT !.type = "function"]

NormalizeToolChoice(c) ==
    CASE c.form # "object" -> c
      [] c.form = "object" /\ c.type \in {"auto", "any"} -> Bare("auto")
      [] c.form = "object" /\ c.type \in {"none", "required"} -> Bare(c.type)
      [] c.form = "object" /\ c.type \in {"tool", "function"} ->
            IF c.type = "function" /\ c.nested THEN c
            ELSE IF c.name = "" THEN NoChoice ELSE NestedName("function", c.name)
      [] OTHER -> c

NormalizeAnthropicToolChoice(c) ==
    CASE c.form = "string" ->
            Object(CASE c.type = "none" -> "none"
                     [] c.type = "required" -> "any"
                     [] OTHER -> "auto")
      [] c.form = "object" /\ c.type = "function" ->
            IF c.name = "" THEN Object("auto") ELSE Named("tool", c.name)
      [] OTHER -> c

Serialize(to, msgs, choice) ==
    IF to = "openai"
    THEN SerializeOpenAIChatRequest(msgs, NormalizeToolChoice(choice))
    ELSE SerializeAnthropicMessagesRequest(msgs, NormalizeAnthropicToolChoice(choice))
=============================================================================
