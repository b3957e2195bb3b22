------------------------------- MODULE Streams -------------------------------
(***************************************************************************)
(* One streamed answer: the upstream's chunks are parsed into events of    *)
(* the gateway (OpenAIStreamParser, AnthropicStreamParser), passed one by  *)
(* one through emit, and written for the client by the stream writer of    *)
(* the entry it called (handleStream).  An attempt that breaks off before  *)
(* any event may be followed by another one; the client may hang up.       *)
(***************************************************************************)
EXTENDS Integers, Sequences, FiniteSets, SequencesExt

CONSTANTS
    Index,       \* numbers upstreams give tool calls or blocks (here from 1)
    MaxChunks,   \* bound: chunks with content in an attempt
    MaxAttempts  \* bound: attempts of the router

Text == 0        \* stands for an index where the content is text
None == -1       \* no block, no item
Upstreams == {"openai", "anthropic"}
Entries == {"openai", "anthropic", "responses"}

\* A usage is the set of its counts that are told; one that is not there, or
\* 0 in an object that is, is not told.
Counts == {"prompt", "completion", "total"}

ASSUME StreamsAssumption ==
    /\ Index \subseteq Nat \ {Text}
    /\ MaxChunks \in Nat /\ MaxAttempts \in Nat \ {0}

VARIABLES
    from,      \* the protocol of the upstream in use
    to,        \* the entry the client called
    src,       \* the upstream: what it has sent in this attempt
    parser,    \* the parser of this attempt
    queue,     \* events of the last Feed not yet emitted
    writer,    \* the stream writer
    out,       \* what was sent to the client
    http,      \* none, 200 or an error status
    phase,     \* reading, emitting, failed or returned
    broken,    \* history: the last attempt failed
    gone,      \* the client has hung up
    attempts

vars == <<from, to, src, parser, queue, writer, out, http, phase, broken,
          gone, attempts>>

-----------------------------------------------------------------------------
(* The upstream and its parser.  Content is numbered in the order it is    *)
(* sent: sent[n] says what the n-th piece belongs to.                      *)

\* open: the block an Anthropic upstream is in, None between blocks; start:
\* the usage in its message_start; usage: the one that comes at the end.
Fresh == [sent |-> <<>>, chunks |-> 0, used |-> {}, open |-> None,
          reason |-> "none", start |-> {}, usage |-> {}, final |-> FALSE]

\* tools: toolStarted, or toolBlocks; reason and usage: cached for done.
NewParser == [tools |-> {}, reason |-> "none", usage |-> {}]

Event(type, tool, data) ==
    [type |-> type, tool |-> tool, data |-> data, reason |-> "none",
     usage |-> {}]

Done(reason, usage) ==
    [Event("done", Text, 0) EXCEPT !.reason = reason, !.usage = usage]

Feed(events) ==
    /\ queue' = events
    /\ phase' = IF events = <<>> THEN "reading" ELSE "emitting"
    /\ UNCHANGED <<from, to, writer, out, http, broken, gone, attempts>>

Sends(protocol) == phase = "reading" /\ from = protocol /\ ~src.final

\* Upstreams give their numbers in order.
NextIndex == {i \in Index \ src.used : \A j \in Index \ src.used : i <= j}

\* The n-th piece, if there is one, of this kind.
Piece(there, type, tool, n) ==
    IF there THEN <<Event(type, tool, n)>> ELSE <<>>

\* Mutant: what comes with the first fragment of a tool call is dropped.
OpenAIDeltaStartOnly(text, tool, args) ==
    LET isTool == tool # Text
        isNew == isTool /\ tool \notin parser.tools
        sent == src.sent \o (IF text THEN <<Text>> ELSE <<>>)
                         \o (IF isTool /\ args THEN <<tool>> ELSE <<>>)
    IN
    /\ Sends("openai") /\ src.reason = "none" /\ src.chunks < MaxChunks
    /\ text \/ isTool
    /\ src' = [src EXCEPT !.chunks = @ + 1, !.sent = sent,
                          !.used = IF isTool THEN @ \cup {tool} ELSE @]
    /\ parser' = [parser EXCEPT !.tools = IF isTool THEN @ \cup {tool} ELSE @]
    /\ Feed(Piece(text, "text_delta", Text, Len(src.sent) + 1)
            \o Piece(isNew, "tool_call_start", tool, 0)
            \o Piece(isTool /\ args /\ ~isNew,
                     "tool_call_delta", tool, Len(sent)))

\* A chunk with text, a fragment of one tool call, or both.
OpenAIDelta(text, tool, args) ==
    LET isTool == tool # Text
        sent == src.sent \o (IF text THEN <<Text>> ELSE <<>>)
                         \o (IF isTool /\ args THEN <<tool>> ELSE <<>>)
    IN
    /\ Sends("openai") /\ src.reason = "none" /\ src.chunks < MaxChunks
    /\ text \/ isTool
    /\ src' = [src EXCEPT !.chunks = @ + 1, !.sent = sent,
                          !.used = IF isTool THEN @ \cup {tool} ELSE @]
    /\ parser' = [parser EXCEPT !.tools = IF isTool THEN @ \cup {tool} ELSE @]
    /\ Feed(Piece(text, "text_delta", Text, Len(src.sent) + 1)
            \o Piece(isTool /\ tool \notin parser.tools,
                     "tool_call_start", tool, 0)
            \o Piece(isTool /\ args, "tool_call_delta", tool, Len(sent)))

\* finish_reason and usage, in one chunk or in two.
OpenAIFinish(reason, usage) ==
    /\ Sends("openai")
    /\ \/ src.reason = "none" /\ reason # "none"
       \/ src.reason # "none" /\ reason = "none" /\ src.usage = {} /\ usage # {}
    /\ src' = [src EXCEPT !.reason = IF reason # "none" THEN reason ELSE @,
                          !.usage = IF usage # {} THEN usage ELSE @]
    /\ parser' = [parser EXCEPT
                     !.reason = IF reason # "none" THEN reason ELSE @,
                     !.usage = IF usage # {} THEN usage ELSE @]
    /\ Feed(<<>>)

\* data: [DONE]
OpenAIDone ==
    /\ Sends("openai")
    /\ src' = [src EXCEPT !.final = TRUE]
    /\ Feed(<<Done(parser.reason, parser.usage)>>)
    /\ UNCHANGED parser

\* message_start, with the input tokens: the parser does not read it.
MessageBegin ==
    /\ Sends("anthropic") /\ src.used = {} /\ src.reason = "none"
    /\ src.start = {}
    /\ src' = [src EXCEPT !.start = {"prompt"}]
    /\ Feed(<<>>)
    /\ UNCHANGED parser

\* content_block_start, of a text block (Text) or a tool_use block.
BlockStart(b, tool) ==
    /\ Sends("anthropic") /\ src.reason = "none" /\ src.open = None
    /\ src.chunks < MaxChunks
    /\ src' = [src EXCEPT !.open = b, !.used = @ \cup {b}]
    /\ parser' = [parser EXCEPT !.tools = IF tool THEN @ \cup {b} ELSE @]
    /\ Feed(Piece(tool, "tool_call_start", b, 0))

\* content_block_delta
BlockDelta ==
    LET b == src.open
        tool == b \in parser.tools
        n == Len(src.sent) + 1
    IN
    /\ Sends("anthropic") /\ b # None /\ src.chunks < MaxChunks
    /\ src' = [src EXCEPT !.chunks = @ + 1,
                          !.sent = Append(@, IF tool THEN b ELSE Text)]
    /\ Feed(Piece(TRUE, IF tool THEN "tool_call_delta" ELSE "text_delta",
                  IF tool THEN b ELSE Text, n))
    /\ UNCHANGED parser

\* content_block_stop
BlockStop ==
    /\ Sends("anthropic") /\ src.open # None
    /\ src' = [src EXCEPT !.open = None]
    /\ Feed(Piece(src.open \in parser.tools, "tool_call_stop", src.open, 0))
    /\ UNCHANGED parser

\* Mutant: the usage is read only where it has both counts.
MessageDeltaBoth(reason, usage) ==
    /\ Sends("anthropic") /\ src.open = None /\ src.reason = "none"
    /\ src' = [src EXCEPT !.reason = reason,
                          !.usage = IF usage # {} THEN usage ELSE @]
    /\ parser' = [parser EXCEPT
                     !.reason = reason,
                     !.usage = IF Cardinality(usage) = 2 THEN usage ELSE @]
    /\ Feed(<<>>)

\* message_delta, after the last block: its own counts, and never a total.
MessageDelta(reason, usage) ==
    /\ Sends("anthropic") /\ src.open = None /\ src.reason = "none"
    /\ src' = [src EXCEPT !.reason = reason,
                          !.usage = IF usage # {} THEN usage ELSE @]
    /\ parser' = [parser EXCEPT
                     !.reason = reason,
                     !.usage = IF usage # {} THEN usage ELSE @]
    /\ Feed(<<>>)

IRFinishReason(stop) ==
    CASE stop = "tool_use" -> "tool_calls"
      [] stop = "max_tokens" -> "length"
      [] OTHER -> "stop"

\* message_stop
MessageStop ==
    /\ Sends("anthropic") /\ src.open = None
    /\ src' = [src EXCEPT !.final = TRUE]
    /\ Feed(<<Done(IRFinishReason(parser.reason), parser.usage)>>)
    /\ UNCHANGED parser

Chunk ==
    \/ \E text, args \in BOOLEAN, tool \in src.used \cup NextIndex \cup {Text} :
           OpenAIDelta(text, tool, args)
    \/ \E reason \in {"none", "stop", "length", "tool_calls"},
          usage \in {{}, Counts} : OpenAIFinish(reason, usage)
    \/ OpenAIDone
    \/ MessageBegin
    \/ \E b \in NextIndex, tool \in BOOLEAN : BlockStart(b, tool)
    \/ BlockDelta \/ BlockStop
    \/ \E reason \in {"end_turn", "max_tokens", "tool_use"},
          usage \in {{}, {"completion"}, {"prompt", "completion"}} :
              MessageDelta(reason, usage)
    \/ MessageStop

-----------------------------------------------------------------------------
(* What the client can be sent: a content block or output item that begins *)
(* ("open", of a tool call or of text), goes on ("delta", with a piece) or *)
(* ends ("close"), the beginning of the message, and the two endings.      *)

Wire(type, at) ==
    [type |-> type, at |-> at, of |-> None, data |-> 0, reason |-> "none",
     usage |-> {}, items |-> <<>>]

Open(at, of) == [Wire("open", at) EXCEPT !.of = of]
Delta(at, n) == [Wire("delta", at) EXCEPT !.data = n]
Close(at) == Wire("close", at)
End(reason, usage, items) ==
    [Wire("end", None) EXCEPT !.reason = reason, !.usage = usage,
                              !.items = items]

\* started, seq (blockSeq, itemSeq), text (textBlock, msgItemID), tools
\* (toolBlocks, callItemIDs), open (openBlocks), output and done.
NewWriter ==
    [started |-> FALSE, seq |-> 0, text |-> None,
     tools |-> [i \in Index |-> None], open |-> <<>>, output |-> <<>>,
     done |-> FALSE]

Wrote(w, wires) == [w |-> w, wires |-> wires, ok |-> TRUE]
Refused(w) == [w |-> w, wires |-> <<>>, ok |-> FALSE]
Ended(w) == [w EXCEPT !.done = TRUE]

\* OpenAIChatStreamWriter.WriteEvent
WriteChat(w, e) ==
    CASE e.type = "text_delta" -> Wrote(w, <<Delta(Text, e.data)>>)
      [] e.type = "tool_call_start" -> Wrote(w, <<Open(e.tool, e.tool)>>)
      [] e.type = "tool_call_delta" -> Wrote(w, <<Delta(e.tool, e.data)>>)
      [] e.type = "tool_call_stop" -> Wrote(w, <<>>)
      [] e.type = "done" -> Wrote(Ended(w), <<End(e.reason, e.usage, <<>>)>>)

\* AnthropicStreamWriter
MessageStart(w) == IF w.started THEN <<>> ELSE <<Wire("start", None)>>
Begun(w) == [w EXCEPT !.started = TRUE]

Places(w, b) == {k \in DOMAIN w.open : w.open[k] = b}

Without(w, b) ==
    IF Places(w, b) = {} THEN w.open
    ELSE RemoveAt(w.open, CHOOSE k \in Places(w, b) : TRUE)

\* Mutant: the writer does not notice that its text block is closed.
CloseBlockOnly(w, b) == [w EXCEPT !.open = Without(w, b)]

CloseBlock(w, b) ==
    [w EXCEPT !.open = Without(w, b), !.text = IF @ = b THEN None ELSE @]

Closing(w, b) == IF Places(w, b) = {} THEN <<>> ELSE <<Close(b)>>

\* ensureTextBlock
EnsureTextBlock(w) ==
    IF w.text # None THEN Wrote(w, <<>>)
    ELSE Wrote([w EXCEPT !.seq = @ + 1, !.text = w.seq,
                         !.open = Append(@, w.seq)],
               <<Open(w.seq, Text)>>)

StartToolBlock(w, tool) ==
    Wrote([CloseBlock(w, w.text) EXCEPT !.seq = @ + 1, !.tools[tool] = w.seq,
                                        !.open = Append(@, w.seq)],
          Closing(w, w.text) \o <<Open(w.seq, tool)>>)

AnthropicStopReason(finish) ==
    CASE finish = "tool_calls" -> "tool_use"
      [] finish = "length" -> "max_tokens"
      [] OTHER -> "end_turn"

\* Mutant: blocks that are open are not closed at the end.
FinishMessageOpen(w, reason, usage) ==
    Wrote(Ended(w),
          <<End(AnthropicStopReason(reason), usage \ {"total"}, <<>>)>>)

FinishMessage(w, reason, usage) ==
    Wrote([w EXCEPT !.open = <<>>, !.text = None, !.done = TRUE],
          [k \in DOMAIN w.open |-> Close(w.open[k])]
          \o <<End(AnthropicStopReason(reason), usage \ {"total"}, <<>>)>>)

AnthropicBlocks(w, e) ==
    CASE e.type = "text_delta" ->
             LET t == EnsureTextBlock(w) IN
             Wrote(t.w, Append(t.wires, Delta(t.w.text, e.data)))
      [] e.type = "tool_call_start" -> StartToolBlock(w, e.tool)
      [] e.type = "tool_call_delta" ->
             IF w.tools[e.tool] = None THEN Refused(w)
             ELSE Wrote(w, <<Delta(w.tools[e.tool], e.data)>>)
      [] e.type = "tool_call_stop" ->
             Wrote(CloseBlock(w, w.tools[e.tool]),
                   Closing(w, w.tools[e.tool]))
      [] e.type = "done" -> FinishMessage(w, e.reason, e.usage)

WriteAnthropic(w, e) ==
    LET r == AnthropicBlocks(Begun(w), e) IN
    [r EXCEPT !.wires = MessageStart(w) \o @]

\* ResponsesStreamWriter: items are numbered from 1.
Finished(w, usage) ==
    LET output == (IF w.text = None THEN <<>> ELSE <<w.text>>) \o w.output IN
    Wrote([w EXCEPT !.output = output, !.done = TRUE],
          <<End("none", usage, output)>>)

WriteResponses(w, e) ==
    LET item == w.seq + 1 IN
    CASE e.type = "text_delta" ->
             IF w.text # None THEN Wrote(w, <<Delta(w.text, e.data)>>)
             ELSE Wrote([w EXCEPT !.seq = item, !.text = item],
                        <<Open(item, Text), Delta(item, e.data)>>)
      [] e.type = "tool_call_start" ->
             Wrote([w EXCEPT !.seq = item, !.tools[e.tool] = item,
                             !.output = Append(@, item)],
                   <<Open(item, e.tool)>>)
      [] e.type = "tool_call_delta" ->
             IF w.tools[e.tool] = None THEN Refused(w)
             ELSE Wrote(w, <<Delta(w.tools[e.tool], e.data)>>)
      [] e.type = "tool_call_stop" -> Wrote(w, <<>>)
      [] e.type = "done" -> Finished(w, e.usage)

\* The three writers share that nothing is written after the end.
WriteEvent(w, e) ==
    CASE w.done -> Wrote(w, <<>>)
      [] ~w.done /\ to = "openai" -> WriteChat(w, e)
      [] ~w.done /\ to = "anthropic" -> WriteAnthropic(w, e)
      [] ~w.done /\ to = "responses" -> WriteResponses(w, e)

\* Mutant: an error is written after the end as well.
WriteErrorAlways(w) == Wrote(Ended(w), <<Wire("error", None)>>)

WriteError(w) ==
    IF w.done THEN Wrote(w, <<>>)
    ELSE Wrote(Ended(w), <<Wire("error", None)>>)

\* Finish: complete what the upstream did not.
Finish(w) ==
    CASE w.done -> Wrote(w, <<>>)
      [] ~w.done /\ to = "openai" -> Wrote(Ended(w), <<End("none", {}, <<>>)>>)
      [] ~w.done /\ to = "anthropic" -> WriteAnthropic(w, Done("none", {}))
      [] ~w.done /\ to = "responses" -> Finished(w, {})

-----------------------------------------------------------------------------
(* The adapter's loop, the router's reaction and handleStream.             *)

Send(r) ==
    /\ writer' = r.w
    /\ out' = IF gone THEN out ELSE out \o r.wires

\* emit: the first event decides the status.
Emit ==
    LET r == WriteEvent(writer, Head(queue)) IN
    /\ phase = "emitting"
    /\ http' = "200"
    /\ Send(r)
    /\ queue' = IF r.ok THEN Tail(queue) ELSE <<>>
    /\ phase' = CASE ~r.ok -> "failed"
                  [] r.ok /\ Tail(queue) = <<>> -> "reading"
                  [] r.ok /\ Tail(queue) # <<>> -> "emitting"
    /\ broken' = ~r.ok
    /\ UNCHANGED <<from, to, src, parser, gone, attempts>>

\* emit returns an error to the adapter, which returns it to the router; the
\* writer fails as it writes, or when it flushes what it has written.
EmitFails ==
    /\ phase = "emitting" /\ gone
    /\ http' = "200" /\ phase' = "failed" /\ broken' = TRUE
    /\ writer' \in {writer, WriteEvent(writer, Head(queue)).w}
    /\ queue' = <<>>
    /\ UNCHANGED <<from, to, src, parser, out, gone, attempts>>

\* The upstream closes the stream, with or without a final marker.
EndOfStream ==
    /\ phase = "reading"
    /\ Send(Finish(writer))
    /\ http' = "200" /\ phase' = "returned"
    /\ UNCHANGED <<from, to, src, parser, queue, broken, gone, attempts>>

\* Mutant: the router does not count its attempts.
RetryUncounted ==
    /\ phase = "reading" /\ http = "none"
    /\ attempts' = attempts + 1
    /\ from' \in Upstreams
    /\ src' = Fresh /\ parser' = NewParser
    /\ UNCHANGED <<to, queue, writer, out, http, phase, broken, gone>>

\* A status of failure or a broken connection, when nothing was emitted: the
\* router tries again ...
Retry ==
    /\ phase = "reading" /\ http = "none" /\ attempts < MaxAttempts
    /\ attempts' = attempts + 1
    /\ from' \in Upstreams
    /\ src' = Fresh /\ parser' = NewParser
    /\ UNCHANGED <<to, queue, writer, out, http, phase, broken, gone>>

\* ... or it gives up, as it does at once when a chunk cannot be parsed or is
\* an error event: the client gets an error status.
RouteError ==
    /\ phase = "reading" /\ http = "none"
    /\ http' = "error" /\ phase' = "returned" /\ broken' = TRUE
    /\ UNCHANGED <<from, to, src, parser, queue, writer, out, gone, attempts>>

\* All these after something was emitted: the error goes into the stream.
BreakOff ==
    /\ phase = "reading" /\ http = "200"
    /\ phase' = "failed" /\ broken' = TRUE
    /\ UNCHANGED <<from, to, src, parser, queue, writer, out, http, gone,
                   attempts>>

\* Mutant: a stream that broke off is completed like one that ended.
ReportErrorFinishes ==
    /\ phase = "failed"
    /\ Send(Finish(writer))
    /\ phase' = "returned"
    /\ UNCHANGED <<from, to, src, parser, queue, http, broken, gone, attempts>>

ReportError ==
    /\ phase = "failed"
    /\ Send(WriteError(writer))
    /\ phase' = "returned"
    /\ UNCHANGED <<from, to, src, parser, queue, http, broken, gone, attempts>>

ClientGone ==
    /\ ~gone /\ phase # "returned"
    /\ gone' = TRUE
    /\ UNCHANGED <<from, to, src, parser, queue, writer, out, http, phase,
                   broken, attempts>>

Init ==
    /\ from \in Upstreams /\ to \in Entries
    /\ src = Fresh /\ parser = NewParser /\ queue = <<>>
    /\ writer = NewWriter /\ out = <<>>
    /\ http = "none" /\ phase = "reading" /\ broken = FALSE
    /\ gone = FALSE /\ attempts = 1

Returned == phase = "returned" /\ UNCHANGED vars

Next ==
    \/ Chunk \/ Emit \/ EmitFails \/ EndOfStream
    \/ Retry \/ RouteError \/ BreakOff \/ ReportError
    \/ ClientGone \/ Returned

Spec == Init /\ [][Next]_vars

-----------------------------------------------------------------------------
(* Properties.                                                             *)

TypeOK ==
    /\ from \in Upstreams /\ to \in Entries
    /\ src.sent \in Seq(Index \cup {Text}) /\ src.final \in BOOLEAN
    /\ parser.tools \subseteq Index
    /\ http \in {"none", "200", "error"}
    /\ phase \in {"reading", "emitting", "failed", "returned"}
    /\ phase = "emitting" <=> queue # <<>>
    /\ writer.done \in BOOLEAN
    /\ broken \in BOOLEAN /\ gone \in BOOLEAN
    /\ attempts \in 1..MaxAttempts

IsEnding(k) == out[k].type \in {"end", "error"}
Completed == out # <<>> /\ Last(out).type = "end"

\* A client that stays gets exactly one ending, as the last thing, or an
\* error status and no stream at all; whatever fails, retries or closes
\* without a marker (WriteEvent, WriteError and Finish under handleStream).
OneEnding ==
    /\ \A k \in DOMAIN out : IsEnding(k) => k = Len(out)
    /\ out # <<>> => http = "200"
    /\ phase = "returned" /\ ~gone /\ http = "200"
          => out # <<>> /\ IsEnding(Len(out))

\* A client is told that its answer is complete only if no failure cut it
\* short, or the failure came after the final marker (handleStream).
HonestEnd == Completed /\ broken => src.final

Position(k) == Cardinality({j \in 1..k : out[j].type = "delta"})

\* The client gets the upstream's pieces of text and tool arguments once
\* each and in order, and a completed answer has them all (the parsers,
\* emit and the writers).
NothingLost ==
    /\ \A k \in DOMAIN out : out[k].type = "delta" => out[k].data = Position(k)
    /\ Completed => Position(Len(out)) = Len(src.sent)

\* Every piece is written into the block, item or tool call that was begun
\* for what it belongs to, and is still open (toolBlocks, textBlock,
\* msgItemID, callItemIDs).
Attributed ==
    \A k \in DOMAIN out : out[k].type = "delta" =>
        \/ to = "openai" /\ src.sent[out[k].data] = Text /\ out[k].at = Text
        \/ \E j \in 1..k : /\ out[j] = Open(out[k].at, src.sent[out[k].data])
                           /\ Close(out[k].at) \notin {out[h] : h \in j..k}

Opens == {k \in DOMAIN out : out[k].type = "open"}

\* A completed Anthropic answer has closed each block it opened once, a
\* completed Responses answer lists each item it announced once, and both
\* number them without gaps (finishMessage, finish).
AllClosed ==
    /\ to # "openai" => \A k \in Opens :
           out[k].at = Cardinality({j \in Opens : j < k})
                         + (IF to = "responses" THEN 1 ELSE 0)
    /\ Completed /\ to = "anthropic" => \A k \in Opens :
           \E j \in DOMAIN out : \A h \in DOMAIN out :
               out[h] = Close(out[k].at) <=> h = j
    /\ Completed /\ to = "responses" =>
           /\ Len(Last(out).items) = Cardinality(Opens)
           /\ \A k \in Opens : Contains(Last(out).items, out[k].at)

Meaning(reason) ==
    CASE reason \in {"tool_calls", "tool_use"} -> "tools"
      [] reason \in {"length", "max_tokens"} -> "length"
      [] OTHER -> "stop"

\* The counts that have a place in the protocol of an entry.
Fields(entry) == IF entry = "anthropic" THEN Counts \ {"total"} ELSE Counts

Reported == src.start \cup src.usage

\* What of it the gateway loses: the input tokens of message_start, where
\* message_delta does not repeat them (anthropic.go:793).
Lost == src.start \ src.usage

\* After a final marker the client is told the upstream's reason to stop, in
\* its own protocol's words, and the counts of its usage but those Lost;
\* from an Anthropic upstream no total, which is left 0 in a stream where
\* ParseAnthropicResponse adds it up (anthropic.go:822, :718).
FinishKept ==
    Completed /\ src.final =>
        /\ Last(out).usage = (Reported \ Lost) \cap Fields(to)
        /\ from = "anthropic" => "total" \notin Last(out).usage
        /\ to # "responses" => Meaning(Last(out).reason) = Meaning(src.reason)

\* "Content blocks must appear one after the other" (anthropic.go:345): a
\* block begins when those before it are closed.
BlocksSequential ==
    to = "anthropic" => \A j, k \in Opens :
        j < k => Close(out[j].at) \in {out[h] : h \in j..k}
=============================================================================
