---------------------------- MODULE Conversation ----------------------------
(***************************************************************************)
(* A conversation of one client with its model through the gateway.  The   *)
(* client keeps the whole history in the words of its own protocol and     *)
(* posts it with every turn; the gateway converts it for the upstream of   *)
(* the route, which may speak another protocol each time, and converts the *)
(* answer back.  The story is what the two sides have really said.         *)
(***************************************************************************)
EXTENDS Codecs, Integers, FiniteSets

CONSTANTS
    PartLists,   \* bound: the contents a user message may have, as kinds
    MaxAnswers   \* bound: answers of the model

Entries == {"openai", "anthropic", "responses"}
Upstreams == {"openai", "anthropic"}
PartKinds == {"text", "link", "inline", "file"}

ASSUME ConversationAssumption ==
    /\ PartLists \subseteq Seq(PartKinds) \ {<<>>}
    /\ MaxAnswers \in Nat

VARIABLES
    entry,     \* the entry the client uses
    terse,     \* a Responses client that leaves out the type of its items
    said,      \* the client's request: system text and messages or items
    story,     \* what was said, fact by fact
    open,      \* calls the client has not answered yet
    phase,     \* compose, posted, sent or refused
    sent,      \* what the upstream was sent
    asked,     \* the tool_choice of the request
    folded,    \* the model of the route has no system messages
    ending,    \* finish reasons of the last answer: at the upstream, at the client
    answers

vars == <<entry, terse, said, story, open, phase, sent, asked, folded,
          ending, answers>>

Nothing == [to |-> "none"]
Turn == Len(story) + 1      \* numbers what is said, call identifiers included

-----------------------------------------------------------------------------
(* Facts: who says what, <<speaker, kind, tag, number>>; the instructions  *)
(* of the conversation have the tag "s".                                   *)

TextFacts(who, text) == Map(LAMBDA t : <<who, "text", t[1], t[2]>>, text)
ImageFact(who, url) == <<who, "image", url.scheme, url.ref>>
CallFact(id, args) == <<"assistant", "call", Input(args), id>>
ResultFact(id) == <<"tool", "result", "", id>>

\* A result of an Anthropic message is the tool's if the message is the user's, as
\* the protocol has it, or has the role the gateway gives it, which StoryTold
\* states; in a message of any other role it says nothing.
PartFacts(who, p) ==
    CASE p.type \in {"text", "input_text", "output_text"} -> TextFacts(who, p.text)
      [] p.type \in {"image_url", "input_image"} -> <<ImageFact(who, p.image_url)>>
      [] p.type = "image" -> <<ImageFact(who, ImageToDataURL(p.source))>>
      [] p.type = "tool_use" -> <<CallFact(p.id, p.input)>>
      [] p.type = "tool_result" /\ who \in {"user", "tool"} ->
            <<ResultFact(p.id)>> \o TextFacts("tool", p.text)
      [] OTHER -> <<>>

ContentFacts(who, content) == FlattenSeq(Map(LAMBDA p : PartFacts(who, p), content))

\* What a message or item means to a reader of its protocol.
Facts(protocol, m) ==
    CASE protocol = "openai" ->
            Opt(m.role = "tool", ResultFact(m.tool_call_id))
            \o ContentFacts(m.role, m.content)
            \o Map(LAMBDA c : CallFact(c.id, c.args), m.tool_calls)
      [] protocol = "anthropic" -> ContentFacts(m.role, m.content)
      [] OTHER ->
            CASE ItemType(m) = "message" -> ContentFacts(m.role, m.content)
              [] ItemType(m) = "function_call" -> <<CallFact(m.call_id, m.arguments)>>
              [] OTHER -> <<ResultFact(m.call_id)>> \o TextFacts("tool", m.output)

Told(protocol, r) ==
    TextFacts("system", r.system)
        \o FlattenSeq(Map(LAMBDA m : Facts(protocol, m), r.messages))

-----------------------------------------------------------------------------
(* How a client of each protocol writes its side.                          *)

ClientText(text) ==
    [type |-> IF entry = "responses" THEN "input_text" ELSE "text", text |-> text]

ClientPart(kind, n) ==
    LET url == [scheme |-> IF kind = "inline" THEN "data" ELSE "http", ref |-> n]
        image == CASE entry = "openai" -> [type |-> "image_url", image_url |-> url]
                   [] entry = "responses" -> [type |-> "input_image", image_url |-> url]
                   [] OTHER -> [type |-> "image", source |-> ImageSource(url)]
    IN CASE kind = "file" -> [type |-> "file"]
         [] kind = "text" -> ClientText(<<<<"u", n>>>>)
         [] OTHER -> image

ItemTypeWritten(type) == IF terse THEN "" ELSE type
MessageItem(role, content) ==
    [type |-> ItemTypeWritten("message"), role |-> role, content |-> content]

\* One user turn: the results of the open calls, a note of the system, and
\* what the user says.
Results ==
    CASE entry = "openai" ->
            Map(LAMBDA id : OpenAIMessage("tool", <<TextPart(<<<<"r", id>>>>)>>, <<>>, id),
                open)
      [] entry = "responses" ->
            Map(LAMBDA id : [type |-> ItemTypeWritten("function_call_output"),
                             call_id |-> id, output |-> <<<<"r", id>>>>], open)
      [] OTHER -> Map(LAMBDA id : ToolResult(id, <<<<"r", id>>>>), open)

Written(role, content) ==
    IF entry = "openai" THEN <<OpenAIMessage(role, content, <<>>, NoId)>>
    ELSE IF entry = "responses" THEN <<MessageItem(role, content)>>
    ELSE <<[role |-> role, content |-> content]>>

UserTurn(note, content) ==
    IF entry = "anthropic" THEN Written("user", Results \o content)
    ELSE Results
         \o FlattenSeq(Opt(note, Written("system",
                 <<ClientText(<<<<"s", Turn>>>>)>>)))
         \o FlattenSeq(Opt(content # <<>>, Written("user", content)))

\* The answer as the client files it in its history.
Filed(resp) ==
    CASE entry = "openai" ->
            Map(LAMBDA c : c.message, SerializeOpenAIChatResponse(resp))
      [] entry = "anthropic" ->
            <<[role |-> "assistant",
               content |-> SerializeAnthropicMessagesResponse(resp).content]>>
      [] OTHER ->
            Map(LAMBDA i : [i EXCEPT !.type = ItemTypeWritten(i.type)],
                SerializeResponsesResponse(resp))

ClientReason(resp) ==
    CASE entry = "openai" -> FirstFinishReason(SerializeOpenAIChatResponse(resp))
      [] entry = "anthropic" -> SerializeAnthropicMessagesResponse(resp).stop_reason
      [] OTHER -> "completed"

-----------------------------------------------------------------------------
Init ==
    /\ entry \in Entries
    /\ terse \in IF entry = "responses" THEN BOOLEAN ELSE {FALSE}
    /\ \E system \in IF entry = "openai" THEN {<<>>} ELSE {<<>>, <<<<"s", 0>>>>} :
          /\ said = [system |-> system, messages |-> <<>>]
          /\ story = TextFacts("system", system)
    /\ open = <<>> /\ phase = "compose" /\ sent = Nothing /\ asked = NoChoice
    /\ folded = FALSE /\ ending = <<"none", "none">> /\ answers = 0

\* The client writes its turn and posts the whole history.
Compose ==
    /\ phase = "compose"
    /\ \E kinds \in PartLists \cup (IF open = <<>> THEN {} ELSE {<<>>}),
          note \in IF entry = "anthropic" THEN {FALSE} ELSE BOOLEAN :
          LET content == [i \in DOMAIN kinds |-> ClientPart(kinds[i], Turn + i)]
              turn == UserTurn(note, content)
          IN /\ said' = [said EXCEPT !.messages = @ \o turn]
             /\ story' = story
                  \o FlattenSeq(Map(LAMBDA id : <<ResultFact(id), <<"tool", "text", "r", id>>>>,
                                    open))
                  \o Opt(note, <<"system", "text", "s", Turn>>)
                  \o ContentFacts("user", content)
    /\ phase' = "posted" /\ open' = <<>>
    /\ UNCHANGED <<entry, terse, sent, asked, folded, ending, answers>>

Refuse ==
    /\ phase = "posted" /\ Unparsable(entry, said)
    /\ phase' = "refused"
    /\ UNCHANGED <<entry, terse, said, story, open, sent, asked, folded, ending, answers>>

\* What clients of an entry write for tool_choice.
ChoicesOf(e) ==
    {NoChoice} \cup
    CASE e = "anthropic" -> {Object("auto"), Object("any"), Object("none"), Named("tool", "f")}
      [] e = "responses" -> {Bare("auto"), Bare("required"), Bare("none"), Named("function", "f")}
      [] OTHER -> {Bare("auto"), Bare("required"), Bare("none"), NestedName("function", "f")}

\* One attempt: the request parsed, adapted to the model and written for the
\* upstream of the route.
Forward ==
    /\ phase = "posted" /\ ~Unparsable(entry, said)
    /\ \E to \in Upstreams, fold \in BOOLEAN, choice \in ChoicesOf(entry) :
          LET msgs == ParseEntry(entry, said)
          IN /\ sent' = Serialize(to, IF fold THEN FoldSystemIntoUser(msgs) ELSE msgs,
                                  choice)
             /\ folded' = fold /\ asked' = choice
    /\ phase' = "sent"
    /\ UNCHANGED <<entry, terse, said, story, open, ending, answers>>

\* The upstream answers with texts and calls, or is cut off at its limit.
Calls(n, args) == [i \in 1..n |-> [id |-> Turn + 10 + i, args |-> args]]

UpstreamAnswer(texts, calls, reason) ==
    IF sent.to = "openai"
    THEN ParseOpenAIChatResponse(
            <<Choice(OpenAIMessage("assistant", texts, calls, NoId), reason)>>)
    ELSE ParseAnthropicMessagesResponse(
            [content |-> texts \o Map(LAMBDA c : ToolUse(c.id, c.args), calls),
             stop_reason |-> AnthropicStopReason(reason)])

Answer ==
    /\ phase = "sent" /\ answers < MaxAnswers
    /\ \E t \in 0..2, n \in 0..2,
          args \in IF sent.to = "openai" THEN {"object", "broken"} ELSE {"object", ""},
          reason \in {"stop", "length", "tool_calls"} :
          LET texts == [i \in 1..t |-> TextPart(<<<<"a", Turn + i>>>>)]
              calls == Calls(n, args)
              resp == UpstreamAnswer(texts, calls, reason)
          IN /\ t + n > 0
             /\ n > 0 => reason = "tool_calls"
             /\ n = 0 => reason # "tool_calls" /\ args = "object"
             /\ said' = [said EXCEPT !.messages = @ \o Filed(resp)]
             /\ story' = story \o ContentFacts("assistant", texts)
                               \o Map(LAMBDA c : CallFact(c.id, c.args), calls)
             /\ open' = Map(LAMBDA c : c.id, calls)
             /\ ending' = <<reason, ClientReason(resp)>>
    /\ phase' = "compose" /\ answers' = answers + 1
    /\ sent' = Nothing /\ asked' = NoChoice /\ folded' = FALSE
    /\ UNCHANGED <<entry, terse>>

Next == Compose \/ Refuse \/ Forward \/ Answer

Spec == Init /\ [][Next]_vars

-----------------------------------------------------------------------------
Instruction(f) == f[3] = "s"
Others(facts) == Select(LAMBDA f : ~Instruction(f), facts)
Instructions(facts) == Map(LAMBDA f : f[4], Select(Instruction, facts))

\* In this request to an Anthropic upstream the messages of the role "tool" are
\* those that hold results.
ResultsUnderTool(request) ==
    \A m \in Range(request.messages) : \A p \in Range(m.content) :
        p.type = "tool_result" <=> m.role = "tool"

\* The upstream is told the whole story: every text, image, call and result
\* of all turns, once, by its speaker and in order, whatever protocols the
\* client and the upstreams of the turns speak; and every instruction, in
\* order, as a system text or, where the model has none, as the user's.
\* (ParseEntry, FoldSystemIntoUser, Serialize, and the answers' way back into
\* the client's history.)  The exception is the role of the results at an
\* Anthropic upstream: each goes in a message of the role "tool", where the
\* comment at anthropicContentToAny, its test and the protocol have "user".
StoryTold ==
    sent # Nothing =>
        LET told == Told(sent.to, sent)
        IN /\ Others(told) = Others(story)
           /\ Instructions(told) = Instructions(story)
           /\ \A f \in Range(told) :
                 Instruction(f) => f[1] = (IF folded THEN "user" ELSE "system")
           /\ sent.to = "anthropic" => ResultsUnderTool(sent)

\* The client's history means what was said: an answer keeps its texts, calls
\* and arguments on the way into the client's protocol, and its finish reason
\* where the protocol has one (the serializers of answers).
AnswerKept ==
    /\ Told(entry, said) = story
    /\ entry = "openai" => ending[2] = ending[1]
    /\ entry = "anthropic" /\ answers > 0 => ending[2] = AnthropicStopReason(ending[1])

\* Two calls in one answer.
Parallel == \E i \in 1 .. Len(story) - 1 : story[i][2] = "call" /\ story[i + 1][2] = "call"

\* An upstream that speaks OpenAI Chat gets, right behind an assistant message
\* with calls, one result for each of them.  Except for Responses clients
\* whose model calls two tools at once: their items become one assistant
\* message per call, ahead of all results (parseResponsesInput).
ToolsPaired ==
    sent.to = "openai" /\ ~(entry = "responses" /\ Parallel) =>
        \A i \in DOMAIN sent.messages :
           LET calls == sent.messages[i].tool_calls
           IN \A k \in DOMAIN calls :
                 /\ i + k \in DOMAIN sent.messages
                 /\ sent.messages[i + k].role = "tool"
                 /\ sent.messages[i + k].tool_call_id = calls[k].id

\* What a tool_choice demands.
Demand(c) ==
    CASE c.form = "absent" \/ c.type = "auto" -> "free"
      [] c.type \in {"required", "any"} -> "some tool"
      [] c.type = "none" -> "no tool"
      [] OTHER -> c.name

\* tool_choice reaches the upstream in one of the forms it knows (comment of
\* normalizeToolChoice) and demands what the client asked for, except that an
\* Anthropic client's "any" is only "auto" to an OpenAI upstream.
ChoiceUnderstood ==
    /\ sent.to = "openai" =>
          \/ sent.choice.form \in {"absent", "string"}
          \/ sent.choice.type = "function" /\ sent.choice.nested
    /\ sent.to = "anthropic" =>
          \/ sent.choice.form = "absent"
          \/ sent.choice.form = "object" /\ ~sent.choice.nested
             /\ sent.choice.type \in {"auto", "any", "none", "tool"}
    /\ sent # Nothing =>
          \/ Demand(sent.choice) = Demand(asked)
          \/ sent.to = "openai" /\ asked = Object("any")
=============================================================================
