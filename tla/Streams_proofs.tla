--------------------------- MODULE Streams_proofs ---------------------------
(***************************************************************************)
(* What holds of Streams for all indices, any number of chunks and any     *)
(* number of attempts: a stream has one ending, and the right one.         *)
(***************************************************************************)
EXTENDS Streams, SequenceTheorems, TLAPS

-----------------------------------------------------------------------------
(* Types.                                                                  *)

Reason == {"none", "stop", "length", "tool_calls", "end_turn", "max_tokens",
           "tool_use"}

SourceType ==
    [sent : Seq(Index \cup {Text}), chunks : Nat, used : SUBSET Index,
     open : Index \cup {None}, reason : Reason, start : SUBSET Counts,
     usage : SUBSET Counts, final : BOOLEAN]

ParserType == [tools : SUBSET Index, reason : Reason, usage : SUBSET Counts]

ToolEvents == {"tool_call_start", "tool_call_delta", "tool_call_stop"}

EventType ==
    {e \in [type : ToolEvents \cup {"text_delta", "done"},
            tool : Index \cup {Text}, data : Nat, reason : Reason,
            usage : SUBSET Counts] : e.type \in ToolEvents => e.tool \in Index}

WriterType ==
    [started : BOOLEAN, seq : Nat, text : Int, tools : [Index -> Int],
     open : Seq(Int), output : Seq(Int), done : BOOLEAN]

WireType ==
    [type : {"start", "open", "delta", "close", "end", "error"}, at : Int,
     of : Int, data : Nat, reason : Reason, usage : SUBSET Counts,
     items : Seq(Int)]

Types ==
    /\ from \in Upstreams /\ to \in Entries
    /\ src \in SourceType /\ parser \in ParserType
    /\ queue \in Seq(EventType) /\ writer \in WriterType
    /\ out \in Seq(WireType)
    /\ http \in {"none", "200", "error"}
    /\ phase \in {"reading", "emitting", "failed", "returned"}
    /\ phase = "emitting" <=> queue # <<>>
    /\ broken \in BOOLEAN /\ gone \in BOOLEAN
    /\ attempts \in 1..MaxAttempts

-----------------------------------------------------------------------------
(* The inductive invariant.                                                *)

Clean(s) == \A k \in DOMAIN s : s[k].type \notin {"end", "error"}

EndsOnce(s) ==
    /\ s # <<>> /\ s[Len(s)].type \in {"end", "error"}
    /\ \A k \in DOMAIN s : s[k].type \in {"end", "error"} => k = Len(s)

\* The writer knows whether the stream has ended; a client that has hung up
\* may have missed it.
OutInv ==
    /\ Clean(out) \/ EndsOnce(out)
    /\ ~writer.done => Clean(out)
    /\ writer.done /\ ~gone => EndsOnce(out)

\* Where the handler is, and what it has decided.
PhaseInv ==
    /\ out # <<>> => http = "200"
    /\ writer.done => http = "200"
    /\ http = "error" => phase = "returned"
    /\ phase = "failed" => http = "200"
    /\ phase = "returned" /\ http = "200" => writer.done
    /\ phase = "returned" => http # "none"
    /\ broken => phase \in {"failed", "returned"}

\* The final marker comes before the event that reports it.
FinalInv ==
    /\ \A k \in DOMAIN queue : queue[k].type = "done" => src.final
    /\ Completed /\ (broken \/ phase # "returned") => src.final

IInv == Types /\ OutInv /\ PhaseInv /\ FinalInv

-----------------------------------------------------------------------------
(* The writers.                                                            *)

\* What a writer that has not ended may do.
WriteOK(r, e) ==
    /\ r \in [w : WriterType, wires : Seq(WireType), ok : BOOLEAN]
    /\ r.w.done => EndsOnce(r.wires) /\ r.wires[Len(r.wires)].type = "end"
    /\ ~r.w.done => Clean(r.wires)
    /\ r.w.done => r.ok /\ e.type = "done"

LEMMA WireTypes ==
    /\ Wire("start", None) \in WireType
    /\ Wire("error", None) \in WireType
    /\ \A at, of \in Int : Open(at, of) \in WireType
    /\ \A at \in Int, n \in Nat : Delta(at, n) \in WireType
    /\ \A at \in Int : Close(at) \in WireType
    /\ \A r \in Reason, u \in SUBSET Counts, s \in Seq(Int) : End(r, u, s) \in WireType
<1>1. <<>> \in Seq(Int) /\ None \in Int
  BY EmptySeq DEF None
<1> QED BY <1>1 DEF Wire, Open, Delta, Close, End, WireType, Reason, None

LEMMA WireKinds ==
    /\ Wire("start", None).type = "start" /\ Wire("error", None).type = "error"
    /\ \A at, of : Open(at, of).type = "open"
    /\ \A at, n : Delta(at, n).type = "delta"
    /\ \A at : Close(at).type = "close"
    /\ \A r, u, s : End(r, u, s).type = "end"
BY DEF Wire, Open, Delta, Close, End

\* Something that does not end the stream, before something.
LEMMA CleanConcat ==
    ASSUME NEW s \in Seq(WireType), NEW t \in Seq(WireType), Clean(s)
    PROVE  /\ s \o t \in Seq(WireType)
           /\ Clean(t) => Clean(s \o t)
           /\ EndsOnce(t) => EndsOnce(s \o t)
           /\ t # <<>> => (s \o t)[Len(s \o t)] = t[Len(t)]
<1>1. /\ s \o t \in Seq(WireType) /\ Len(s \o t) = Len(s) + Len(t)
      /\ \A k \in 1..Len(s) + Len(t) :
             (s \o t)[k] = IF k <= Len(s) THEN s[k] ELSE t[k - Len(s)]
  BY ConcatProperties
<1>2. /\ DOMAIN s = 1..Len(s) /\ DOMAIN t = 1..Len(t)
      /\ DOMAIN (s \o t) = 1..Len(s) + Len(t)
      /\ Len(s) \in Nat /\ Len(t) \in Nat
  BY <1>1, LenProperties
<1>3. Clean(t) => Clean(s \o t)
  BY <1>1, <1>2 DEF Clean
<1>4. t # <<>> => Len(t) > 0
  BY <1>2, EmptySeq, LenProperties
<1>5. t # <<>> => (s \o t)[Len(s \o t)] = t[Len(t)]
  BY <1>1, <1>2, <1>4
<1>6. ASSUME EndsOnce(t) PROVE EndsOnce(s \o t)
  <2>1. t # <<>> /\ Len(t) > 0
    BY <1>4, <1>6 DEF EndsOnce
  <2>2. s \o t # <<>>
    BY <1>1, <1>2, <2>1, EmptySeq
  <2>3. ASSUME NEW k \in 1..Len(s) + Len(t),
               (s \o t)[k].type \in {"end", "error"}
        PROVE  k = Len(s) + Len(t)
    <3>1. k > Len(s)
      BY <1>1, <1>2, <2>3 DEF Clean
    <3>2. k - Len(s) \in 1..Len(t) /\ (s \o t)[k] = t[k - Len(s)]
      BY <1>1, <1>2, <3>1
    <3> QED BY <1>2, <1>6, <2>3, <3>2 DEF EndsOnce
  <2> QED BY <1>1, <1>2, <1>5, <1>6, <2>1, <2>2, <2>3 DEF EndsOnce
<1> QED BY <1>1, <1>3, <1>5, <1>6

LEMMA OneWire ==
    ASSUME NEW x \in WireType
    PROVE  /\ <<x>> \in Seq(WireType)
           /\ x.type \notin {"end", "error"} => Clean(<<x>>)
           /\ x.type \in {"end", "error"} => EndsOnce(<<x>>)
           /\ <<x>>[Len(<<x>>)] = x
BY DEF Clean, EndsOnce

LEMMA TwoWires ==
    ASSUME NEW x \in WireType, NEW y \in WireType,
           x.type \notin {"end", "error"}, y.type \notin {"end", "error"}
    PROVE  <<x, y>> \in Seq(WireType) /\ Clean(<<x, y>>)
BY DEF Clean

LEMMA NoWire == <<>> \in Seq(WireType) /\ Clean(<<>>)
BY EmptySeq DEF Clean

\* A writer and what it wrote, from one piece or none that is no ending.
LEMMA WroteOK ==
    ASSUME NEW w \in WriterType, ~w.done, NEW e,
           NEW s \in Seq(WireType), Clean(s)
    PROVE  WriteOK(Wrote(w, s), e)
BY DEF Wrote, WriteOK

LEMMA RefusedOK ==
    ASSUME NEW w \in WriterType, ~w.done, NEW e
    PROVE  WriteOK(Refused(w), e)
BY NoWire DEF Refused, WriteOK

\* A writer that has written its end after other things.
LEMMA EndedOK ==
    ASSUME NEW w \in WriterType, w.done, NEW e, e.type = "done",
           NEW s \in Seq(WireType), Clean(s),
           NEW r \in Reason, NEW u \in SUBSET Counts, NEW i \in Seq(Int)
    PROVE  WriteOK(Wrote(w, s \o <<End(r, u, i)>>), e)
<1>1. End(r, u, i) \in WireType /\ End(r, u, i).type = "end"
  BY WireTypes, WireKinds
<1>2. <<End(r, u, i)>> # <<>>
  OBVIOUS
<1> QED BY <1>1, <1>2, OneWire, CleanConcat DEF Wrote, WriteOK

LEMMA EndedAtOnce ==
    ASSUME NEW w \in WriterType, w.done, NEW e, e.type = "done",
           NEW r \in Reason, NEW u \in SUBSET Counts, NEW i \in Seq(Int)
    PROVE  WriteOK(Wrote(w, <<End(r, u, i)>>), e)
<1>1. End(r, u, i) \in WireType /\ End(r, u, i).type = "end"
  BY WireTypes, WireKinds
<1> QED BY <1>1, OneWire DEF Wrote, WriteOK

LEMMA OpenSeq ==
    ASSUME NEW at \in Int, NEW of \in Int
    PROVE  <<Open(at, of)>> \in Seq(WireType) /\ Clean(<<Open(at, of)>>)
BY WireTypes, WireKinds, OneWire

LEMMA DeltaSeq ==
    ASSUME NEW at \in Int, NEW n \in Nat
    PROVE  <<Delta(at, n)>> \in Seq(WireType) /\ Clean(<<Delta(at, n)>>)
BY WireTypes, WireKinds, OneWire

LEMMA CloseSeq ==
    ASSUME NEW at \in Int
    PROVE  <<Close(at)>> \in Seq(WireType) /\ Clean(<<Close(at)>>)
BY WireTypes, WireKinds, OneWire

LEMMA Indices == Index \subseteq Int /\ Text \in Int /\ None \in Int
BY StreamsAssumption DEF Text, None

LEMMA EventFields ==
    ASSUME NEW e \in EventType
    PROVE  /\ e.type \in ToolEvents \cup {"text_delta", "done"}
           /\ e.tool \in Int /\ e.data \in Nat
           /\ e.type \in ToolEvents => e.tool \in Index
           /\ e.reason \in Reason /\ e.usage \in SUBSET Counts
<1>1. /\ e.type \in ToolEvents \cup {"text_delta", "done"}
      /\ e.tool \in Index \cup {Text} /\ e.data \in Nat
      /\ e.reason \in Reason /\ e.usage \in SUBSET Counts
      /\ e.type \in ToolEvents => e.tool \in Index
  BY DEF EventType
<1>2. e.tool \in Int
  BY <1>1, Indices
<1> QED BY <1>1, <1>2

LEMMA WriterFields ==
    ASSUME NEW w \in WriterType
    PROVE  /\ w.started \in BOOLEAN /\ w.seq \in Nat /\ w.seq \in Int
           /\ w.seq + 1 \in Nat /\ w.seq + 1 \in Int /\ w.text \in Int
           /\ w.tools \in [Index -> Int] /\ w.open \in Seq(Int)
           /\ w.output \in Seq(Int) /\ w.done \in BOOLEAN
<1>1. /\ w.started \in BOOLEAN /\ w.seq \in Nat /\ w.text \in Int
      /\ w.tools \in [Index -> Int] /\ w.open \in Seq(Int)
      /\ w.output \in Seq(Int) /\ w.done \in BOOLEAN
  BY DEF WriterType
<1> QED BY <1>1

LEMMA EndedType ==
    ASSUME NEW w \in WriterType
    PROVE  Ended(w) \in WriterType /\ Ended(w).done
BY DEF Ended, WriterType

LEMMA ChatOK ==
    ASSUME NEW w \in WriterType, ~w.done, NEW e \in EventType
    PROVE  WriteOK(WriteChat(w, e), e)
<1> USE EventFields
<1>1. CASE e.type = "text_delta"
  <2>1. WriteChat(w, e) = Wrote(w, <<Delta(Text, e.data)>>)
    BY <1>1 DEF WriteChat
  <2> QED BY <2>1, DeltaSeq, Indices, WroteOK
<1>2. CASE e.type = "tool_call_start"
  <2>1. WriteChat(w, e) = Wrote(w, <<Open(e.tool, e.tool)>>)
    BY <1>2 DEF WriteChat
  <2> QED BY <2>1, OpenSeq, WroteOK
<1>3. CASE e.type = "tool_call_delta"
  <2>1. WriteChat(w, e) = Wrote(w, <<Delta(e.tool, e.data)>>)
    BY <1>3 DEF WriteChat
  <2> QED BY <2>1, DeltaSeq, WroteOK
<1>4. CASE e.type = "tool_call_stop"
  <2>1. WriteChat(w, e) = Wrote(w, <<>>)
    BY <1>4 DEF WriteChat
  <2> QED BY <2>1, NoWire, WroteOK
<1>5. CASE e.type = "done"
  <2>1. WriteChat(w, e) = Wrote(Ended(w), <<End(e.reason, e.usage, <<>>)>>)
    BY <1>5 DEF WriteChat
  <2>2. <<>> \in Seq(Int)
    BY EmptySeq
  <2> QED BY <1>5, <2>1, <2>2, EndedType, EndedAtOnce
<1> QED BY <1>1, <1>2, <1>3, <1>4, <1>5 DEF ToolEvents

LEMMA WithoutType ==
    ASSUME NEW w \in WriterType, NEW b \in Int
    PROVE  Without(w, b) \in Seq(Int)
<1>1. w.open \in Seq(Int)
  BY DEF WriterType
<1>2. CASE Places(w, b) = {}
  BY <1>1, <1>2 DEF Without
<1>3. CASE Places(w, b) # {}
  <2>1. PICK k \in Places(w, b) : k = CHOOSE j \in Places(w, b) : TRUE
    BY <1>3
  <2>2. k \in 1..Len(w.open) /\ Len(w.open) \in Nat
    BY <1>1, <2>1, LenProperties DEF Places
  <2>3. SubSeq(w.open, 1, k - 1) \in Seq(Int)
    BY <1>1, <2>2, SubSeqProperties
  <2>4. SubSeq(w.open, k + 1, Len(w.open)) \in Seq(Int)
    BY <1>1, <2>2, SubSeqProperties
  <2> QED BY <1>3, <2>1, <2>3, <2>4, ConcatProperties DEF Without, RemoveAt
<1> QED BY <1>2, <1>3

LEMMA CloseBlockType ==
    ASSUME NEW w \in WriterType, NEW b \in Int
    PROVE  /\ CloseBlock(w, b) \in WriterType
           /\ CloseBlock(w, b).done = w.done
           /\ CloseBlock(w, b).seq = w.seq
           /\ Closing(w, b) \in Seq(WireType) /\ Clean(Closing(w, b))
<1>1. PICK s \in Seq(Int) : s = Without(w, b)
  BY WithoutType
<1>2. PICK t \in Int : t = IF w.text = b THEN None ELSE w.text
  BY WriterFields, Indices
<1>3. CloseBlock(w, b) = [w EXCEPT !.open = s, !.text = t]
  BY <1>1, <1>2 DEF CloseBlock, WriterType
<1>4. /\ [w EXCEPT !.open = s, !.text = t] \in WriterType
      /\ [w EXCEPT !.open = s, !.text = t].done = w.done
      /\ [w EXCEPT !.open = s, !.text = t].seq = w.seq
  BY DEF WriterType
<1>5. Closing(w, b) \in Seq(WireType) /\ Clean(Closing(w, b))
  BY CloseSeq, NoWire DEF Closing
<1> QED BY <1>3, <1>4, <1>5

LEMMA EnsureTextBlockOK ==
    ASSUME NEW w \in WriterType, NEW t, t = EnsureTextBlock(w)
    PROVE  /\ t.w \in WriterType /\ t.w.done = w.done
           /\ t.wires \in Seq(WireType) /\ Clean(t.wires)
<1>1. CASE w.text # None
  BY <1>1, NoWire DEF EnsureTextBlock, Wrote
<1>2. CASE w.text = None
  <2>1. PICK s \in Seq(Int), n \in Nat, m \in Int :
            s = Append(w.open, w.seq) /\ n = w.seq + 1 /\ m = w.seq
    BY WriterFields, AppendProperties
  <2>2. PICK v : v = [w EXCEPT !.seq = n, !.text = m, !.open = s]
    OBVIOUS
  <2>3. v \in WriterType /\ v.done = w.done
    BY <2>2 DEF WriterType
  <2>4. t.w = v /\ t.wires = <<Open(w.seq, Text)>>
    BY <1>2, <2>1, <2>2 DEF EnsureTextBlock, Wrote, WriterType
  <2>5. <<Open(w.seq, Text)>> \in Seq(WireType)
        /\ Clean(<<Open(w.seq, Text)>>)
    BY WriterFields, Indices, OpenSeq
  <2> QED BY <2>3, <2>4, <2>5
<1> QED BY <1>1, <1>2

LEMMA StartToolBlockOK ==
    ASSUME NEW w \in WriterType, ~w.done, NEW tool \in Index, NEW e
    PROVE  WriteOK(StartToolBlock(w, tool), e)
<1>1. PICK c : c = CloseBlock(w, w.text)
  OBVIOUS
<1>2. /\ c \in WriterType /\ c.done = w.done /\ c.seq = w.seq
      /\ Closing(w, w.text) \in Seq(WireType) /\ Clean(Closing(w, w.text))
  BY <1>1, WriterFields, CloseBlockType
<1>3. PICK s \in Seq(Int), n \in Nat, m \in Int :
          s = Append(c.open, w.seq) /\ n = c.seq + 1 /\ m = w.seq
  BY <1>2, WriterFields, AppendProperties
<1>4. PICK v : v = [c EXCEPT !.seq = n, !.tools[tool] = m, !.open = s]
  OBVIOUS
<1>5. v \in WriterType /\ v.done = c.done
  BY <1>2, <1>4 DEF WriterType
<1>6. StartToolBlock(w, tool)
        = Wrote(v, Closing(w, w.text) \o <<Open(w.seq, tool)>>)
  BY <1>1, <1>2, <1>3, <1>4 DEF StartToolBlock, WriterType
<1>7. <<Open(w.seq, tool)>> \in Seq(WireType) /\ Clean(<<Open(w.seq, tool)>>)
  BY WriterFields, Indices, OpenSeq
<1>8. /\ Closing(w, w.text) \o <<Open(w.seq, tool)>> \in Seq(WireType)
      /\ Clean(Closing(w, w.text) \o <<Open(w.seq, tool)>>)
  BY <1>2, <1>7, CleanConcat
<1>9. ~v.done
  BY <1>2, <1>5
<1> QED BY <1>5, <1>6, <1>8, <1>9, WroteOK

LEMMA StopReasons == \A f : AnthropicStopReason(f) \in Reason
BY DEF AnthropicStopReason, Reason

LEMMA FinishMessageOK ==
    ASSUME NEW w \in WriterType, NEW e, e.type = "done",
           NEW f, NEW u \in SUBSET Counts
    PROVE  WriteOK(FinishMessage(w, f, u), e) /\ FinishMessage(w, f, u).w.done
<1>1. PICK s : s = [k \in DOMAIN w.open |-> Close(w.open[k])]
  OBVIOUS
<1>2. /\ w.open \in Seq(Int) /\ DOMAIN w.open = 1..Len(w.open)
      /\ Len(w.open) \in Nat
  BY WriterFields, LenProperties
<1>3. \A k \in 1..Len(w.open) : w.open[k] \in Int
  BY <1>2
<1>4. \A k \in 1..Len(w.open) :
          Close(w.open[k]) \in WireType /\ Close(w.open[k]).type = "close"
  BY <1>3, WireTypes, WireKinds
<1>5. s \in [1..Len(w.open) -> WireType]
  BY <1>1, <1>2, <1>4
<1>6. s \in Seq(WireType)
  BY <1>2, <1>5, SeqDef
<1>7. Clean(s)
  BY <1>1, <1>2, <1>4 DEF Clean
<1>8. PICK i \in Seq(Int), t \in Int : i = <<>> /\ t = None
  BY Indices, EmptySeq
<1>9. PICK v : v = [w EXCEPT !.open = i, !.text = t, !.done = TRUE]
  OBVIOUS
<1>10. v \in WriterType /\ v.done
  BY <1>9 DEF WriterType
<1>11. FinishMessage(w, f, u)
         = Wrote(v, s \o <<End(AnthropicStopReason(f), u \ {"total"}, i)>>)
  BY <1>1, <1>8, <1>9 DEF FinishMessage
<1>12. PICK r \in Reason : r = AnthropicStopReason(f)
  BY StopReasons
<1>13. PICK told \in SUBSET Counts : told = u \ {"total"}
  OBVIOUS
<1>14. WriteOK(Wrote(v, s \o <<End(r, told, i)>>), e)
  BY <1>6, <1>7, <1>10, EndedOK
<1>15. Wrote(v, s \o <<End(r, told, i)>>).w = v
  BY DEF Wrote
<1> QED BY <1>10, <1>11, <1>12, <1>13, <1>14, <1>15

LEMMA AnthropicBlocksOK ==
    ASSUME NEW w \in WriterType, ~w.done, NEW e \in EventType
    PROVE  WriteOK(AnthropicBlocks(w, e), e)
<1>1. CASE e.type = "text_delta"
  <2>1. PICK t : t = EnsureTextBlock(w)
    OBVIOUS
  <2>2. /\ t.w \in WriterType /\ t.w.done = w.done
        /\ t.wires \in Seq(WireType) /\ Clean(t.wires)
    BY <2>1, EnsureTextBlockOK
  <2>3. PICK d : d = Delta(t.w.text, e.data)
    OBVIOUS
  <2>4. t.w.text \in Int /\ e.data \in Nat
    BY <2>2, WriterFields, EventFields
  <2>5. d \in WireType /\ <<d>> \in Seq(WireType) /\ Clean(<<d>>)
    BY <2>3, <2>4, WireTypes, DeltaSeq
  <2>6. AnthropicBlocks(w, e) = Wrote(t.w, Append(t.wires, d))
    BY <1>1, <2>1, <2>3 DEF AnthropicBlocks
  <2>7. Append(t.wires, d) = t.wires \o <<d>>
    BY <2>2, <2>5, AppendIsConcat
  <2>8. t.wires \o <<d>> \in Seq(WireType) /\ Clean(t.wires \o <<d>>)
    BY <2>2, <2>5, CleanConcat
  <2>9. ~t.w.done
    BY <2>2
  <2> QED BY <2>2, <2>6, <2>7, <2>8, <2>9, WroteOK
<1>2. CASE e.type = "tool_call_start"
  <2>1. AnthropicBlocks(w, e) = StartToolBlock(w, e.tool)
    BY <1>2 DEF AnthropicBlocks
  <2>2. e.tool \in Index
    BY <1>2, EventFields DEF ToolEvents
  <2> QED BY <2>1, <2>2, StartToolBlockOK
<1>3. CASE e.type = "tool_call_delta"
  <2>1. e.tool \in Index /\ e.data \in Nat
    BY <1>3, EventFields DEF ToolEvents
  <2>2. w.tools[e.tool] \in Int
    BY <2>1, WriterFields
  <2>3. AnthropicBlocks(w, e)
          = IF w.tools[e.tool] = None THEN Refused(w)
            ELSE Wrote(w, <<Delta(w.tools[e.tool], e.data)>>)
    BY <1>3 DEF AnthropicBlocks
  <2>4. WriteOK(Wrote(w, <<Delta(w.tools[e.tool], e.data)>>), e)
    BY <2>1, <2>2, DeltaSeq, WroteOK
  <2> QED BY <2>3, <2>4, RefusedOK
<1>4. CASE e.type = "tool_call_stop"
  <2>1. e.tool \in Index
    BY <1>4, EventFields DEF ToolEvents
  <2>2. PICK b \in Int : b = w.tools[e.tool]
    BY <2>1, WriterFields
  <2>3. AnthropicBlocks(w, e) = Wrote(CloseBlock(w, b), Closing(w, b))
    BY <1>4, <2>2 DEF AnthropicBlocks
  <2>4. /\ CloseBlock(w, b) \in WriterType /\ ~CloseBlock(w, b).done
        /\ Closing(w, b) \in Seq(WireType) /\ Clean(Closing(w, b))
    BY CloseBlockType
  <2> QED BY <2>3, <2>4, WroteOK
<1>5. CASE e.type = "done"
  <2>1. AnthropicBlocks(w, e) = FinishMessage(w, e.reason, e.usage)
    BY <1>5 DEF AnthropicBlocks
  <2> QED BY <1>5, <2>1, EventFields, FinishMessageOK
<1> QED BY <1>1, <1>2, <1>3, <1>4, <1>5, EventFields DEF ToolEvents

LEMMA BegunType ==
    ASSUME NEW w \in WriterType
    PROVE  /\ Begun(w) \in WriterType /\ Begun(w).done = w.done
           /\ MessageStart(w) \in Seq(WireType) /\ Clean(MessageStart(w))
<1>1. Begun(w) \in WriterType /\ Begun(w).done = w.done
  BY DEF Begun, WriterType
<1>2. /\ <<Wire("start", None)>> \in Seq(WireType)
      /\ Clean(<<Wire("start", None)>>)
  BY WireTypes, WireKinds, OneWire
<1> QED BY <1>1, <1>2, NoWire DEF MessageStart

\* Something that does not end the stream may come before what is written.
LEMMA PrefixOK ==
    ASSUME NEW r, NEW e, WriteOK(r, e), NEW t \in Seq(WireType), Clean(t)
    PROVE  /\ WriteOK([r EXCEPT !.wires = t \o @], e)
           /\ [r EXCEPT !.wires = t \o @].w = r.w
<1>1. /\ r \in [w : WriterType, wires : Seq(WireType), ok : BOOLEAN]
      /\ r.w.done => EndsOnce(r.wires) /\ r.wires[Len(r.wires)].type = "end"
      /\ ~r.w.done => Clean(r.wires)
      /\ r.w.done => r.ok /\ e.type = "done"
  BY DEF WriteOK
<1>2. r.wires \in Seq(WireType)
  BY <1>1
<1>3. PICK x : x = t \o r.wires
  OBVIOUS
<1>4. /\ x \in Seq(WireType)
      /\ r.w.done => EndsOnce(x) /\ x[Len(x)].type = "end"
      /\ ~r.w.done => Clean(x)
  BY <1>1, <1>2, <1>3, CleanConcat DEF EndsOnce
<1>5. PICK q : q = [r EXCEPT !.wires = x]
  OBVIOUS
<1>6. /\ q \in [w : WriterType, wires : Seq(WireType), ok : BOOLEAN]
      /\ q.w = r.w /\ q.wires = x /\ q.ok = r.ok
  BY <1>1, <1>4, <1>5
<1>7. WriteOK(q, e)
  BY <1>1, <1>4, <1>6 DEF WriteOK
<1> QED BY <1>3, <1>5, <1>6, <1>7

LEMMA WriteAnthropicOK ==
    ASSUME NEW w \in WriterType, ~w.done, NEW e \in EventType
    PROVE  WriteOK(WriteAnthropic(w, e), e)
<1>1. /\ Begun(w) \in WriterType /\ ~Begun(w).done
      /\ MessageStart(w) \in Seq(WireType) /\ Clean(MessageStart(w))
  BY BegunType
<1>2. PICK r : r = AnthropicBlocks(Begun(w), e)
  OBVIOUS
<1>3. WriteOK(r, e)
  BY <1>1, <1>2, AnthropicBlocksOK
<1>4. WriteAnthropic(w, e) = [r EXCEPT !.wires = MessageStart(w) \o @]
  BY <1>2 DEF WriteAnthropic
<1> QED BY <1>1, <1>3, <1>4, PrefixOK

LEMMA FinishedOK ==
    ASSUME NEW w \in WriterType, NEW e, e.type = "done", NEW u \in SUBSET Counts
    PROVE  WriteOK(Finished(w, u), e) /\ Finished(w, u).w.done
<1>1. PICK first \in Seq(Int) :
          first = IF w.text = None THEN <<>> ELSE <<w.text>>
  <2>1. <<>> \in Seq(Int) /\ w.text \in Int
    BY EmptySeq, WriterFields
  <2>2. <<w.text>> \in Seq(Int)
    BY <2>1
  <2> QED BY <2>1, <2>2
<1>2. PICK o \in Seq(Int) : o = first \o w.output
  BY WriterFields, ConcatProperties
<1>3. PICK v : v = [w EXCEPT !.output = o, !.done = TRUE]
  OBVIOUS
<1>4. v \in WriterType /\ v.done
  BY <1>3 DEF WriterType
<1>5. PICK r \in Reason : r = "none"
  BY DEF Reason
<1>6. Finished(w, u) = Wrote(v, <<End(r, u, o)>>)
  BY <1>1, <1>2, <1>3, <1>5 DEF Finished
<1>7. WriteOK(Wrote(v, <<End(r, u, o)>>), e)
  BY <1>4, EndedAtOnce
<1>8. Wrote(v, <<End(r, u, o)>>).w = v
  BY DEF Wrote
<1> QED BY <1>4, <1>6, <1>7, <1>8

LEMMA WriteResponsesOK ==
    ASSUME NEW w \in WriterType, ~w.done, NEW e \in EventType
    PROVE  WriteOK(WriteResponses(w, e), e)
<1>1. CASE e.type = "text_delta" /\ w.text # None
  <2>1. WriteResponses(w, e) = Wrote(w, <<Delta(w.text, e.data)>>)
    BY <1>1 DEF WriteResponses
  <2> QED BY <2>1, WriterFields, EventFields, DeltaSeq, WroteOK
<1>2. CASE e.type = "text_delta" /\ w.text = None
  <2>1. PICK n \in Nat, t \in Int : n = w.seq + 1 /\ t = w.seq + 1
    BY WriterFields
  <2>2. PICK v : v = [w EXCEPT !.seq = n, !.text = t]
    OBVIOUS
  <2>3. v \in WriterType /\ v.done = w.done
    BY <2>2 DEF WriterType
  <2>4. WriteResponses(w, e)
          = Wrote(v, <<Open(t, Text), Delta(t, e.data)>>)
    BY <1>2, <2>1, <2>2 DEF WriteResponses
  <2>5. /\ Open(t, Text) \in WireType /\ Open(t, Text).type = "open"
        /\ Delta(t, e.data) \in WireType /\ Delta(t, e.data).type = "delta"
    BY Indices, EventFields, WireTypes, WireKinds
  <2>6. /\ <<Open(t, Text), Delta(t, e.data)>> \in Seq(WireType)
        /\ Clean(<<Open(t, Text), Delta(t, e.data)>>)
    BY <2>5, TwoWires
  <2>7. ~v.done
    BY <2>3
  <2> QED BY <2>3, <2>4, <2>6, <2>7, WroteOK
<1>3. CASE e.type = "tool_call_start"
  <2>1. PICK tool \in Index : tool = e.tool
    BY <1>3, EventFields DEF ToolEvents
  <2>2. PICK n \in Nat, t \in Int, o \in Seq(Int) :
            /\ n = w.seq + 1 /\ t = w.seq + 1
            /\ o = Append(w.output, w.seq + 1)
    BY WriterFields, AppendProperties
  <2>3. PICK v : v = [w EXCEPT !.seq = n, !.tools[tool] = t, !.output = o]
    OBVIOUS
  <2>4. v \in WriterType /\ v.done = w.done
    BY <2>3 DEF WriterType
  <2>5. WriteResponses(w, e) = Wrote(v, <<Open(t, tool)>>)
    BY <1>3, <2>1, <2>2, <2>3 DEF WriteResponses, WriterType
  <2>6. <<Open(t, tool)>> \in Seq(WireType) /\ Clean(<<Open(t, tool)>>)
    BY Indices, OpenSeq
  <2>7. ~v.done
    BY <2>4
  <2> QED BY <2>4, <2>5, <2>6, <2>7, WroteOK
<1>4. CASE e.type = "tool_call_delta"
  <2>1. e.tool \in Index /\ e.data \in Nat
    BY <1>4, EventFields DEF ToolEvents
  <2>2. w.tools[e.tool] \in Int
    BY <2>1, WriterFields
  <2>3. WriteResponses(w, e)
          = IF w.tools[e.tool] = None THEN Refused(w)
            ELSE Wrote(w, <<Delta(w.tools[e.tool], e.data)>>)
    BY <1>4 DEF WriteResponses
  <2>4. WriteOK(Wrote(w, <<Delta(w.tools[e.tool], e.data)>>), e)
    BY <2>1, <2>2, DeltaSeq, WroteOK
  <2> QED BY <2>3, <2>4, RefusedOK
<1>5. CASE e.type = "tool_call_stop"
  <2>1. WriteResponses(w, e) = Wrote(w, <<>>)
    BY <1>5 DEF WriteResponses
  <2> QED BY <2>1, NoWire, WroteOK
<1>6. CASE e.type = "done"
  <2>1. WriteResponses(w, e) = Finished(w, e.usage)
    BY <1>6 DEF WriteResponses
  <2> QED BY <1>6, <2>1, EventFields, FinishedOK
<1> QED
  BY <1>1, <1>2, <1>3, <1>4, <1>5, <1>6, EventFields DEF ToolEvents

LEMMA WriteEventOK ==
    ASSUME to \in Entries, NEW w \in WriterType, NEW e \in EventType
    PROVE  /\ w.done => WriteEvent(w, e) = Wrote(w, <<>>)
           /\ ~w.done => WriteOK(WriteEvent(w, e), e)
<1>1. w.done => WriteEvent(w, e) = Wrote(w, <<>>)
  BY DEF WriteEvent
<1>2. CASE ~w.done /\ to = "openai"
  <2>1. WriteEvent(w, e) = WriteChat(w, e)
    BY <1>2 DEF WriteEvent
  <2> QED BY <1>1, <1>2, <2>1, ChatOK
<1>3. CASE ~w.done /\ to = "anthropic"
  <2>1. WriteEvent(w, e) = WriteAnthropic(w, e)
    BY <1>3 DEF WriteEvent
  <2> QED BY <1>1, <1>3, <2>1, WriteAnthropicOK
<1>4. CASE ~w.done /\ to = "responses"
  <2>1. WriteEvent(w, e) = WriteResponses(w, e)
    BY <1>4 DEF WriteEvent
  <2> QED BY <1>1, <1>4, <2>1, WriteResponsesOK
<1> QED BY <1>1, <1>2, <1>3, <1>4 DEF Entries

LEMMA DoneEvent ==
    ASSUME NEW r \in Reason, NEW u \in SUBSET Counts
    PROVE  /\ Done(r, u) \in EventType /\ Done(r, u).type = "done"
           /\ Done(r, u).reason = r /\ Done(r, u).usage = u
<1> DEFINE T == ToolEvents \cup {"text_delta", "done"}
           F == [type : T, tool : Index \cup {Text}, data : Nat,
                 reason : Reason, usage : SUBSET Counts]
<1>1. PICK x : x = Event("done", Text, 0)
  OBVIOUS
<1>2. x \in F /\ x.type = "done"
  BY <1>1 DEF Event, Reason
<1>3. PICK y : y = [x EXCEPT !.reason = r, !.usage = u]
  OBVIOUS
<1>4. y \in F /\ y.type = "done" /\ y.reason = r /\ y.usage = u
  BY <1>2, <1>3
<1>5. y = Done(r, u)
  BY <1>1, <1>3 DEF Done
<1>6. y \in EventType
  BY <1>4 DEF EventType, ToolEvents
<1> QED BY <1>4, <1>5, <1>6

\* What may be sent: nothing after an ending, else at most one ending.
Writes(r) ==
    /\ writer.done => r = Wrote(writer, <<>>)
    /\ ~writer.done => /\ r.w \in WriterType /\ r.wires \in Seq(WireType)
                       /\ r.w.done => EndsOnce(r.wires)
                       /\ ~r.w.done => Clean(r.wires)

LEMMA FinishOK ==
    ASSUME to \in Entries, writer \in WriterType
    PROVE  Writes(Finish(writer)) /\ Finish(writer).w.done
<1>1. CASE writer.done
  <2>1. Finish(writer) = Wrote(writer, <<>>)
    BY <1>1 DEF Finish
  <2> QED BY <1>1, <2>1 DEF Writes, Wrote
<1> DEFINE d == Done("none", {})
<1>2. d \in EventType /\ d.type = "done" /\ d.usage = {}
  BY DoneEvent DEF Reason
<1> HIDE DEF d
<1>3. CASE ~writer.done /\ to = "openai"
  <2>1. Finish(writer) = Wrote(Ended(writer), <<End("none", {}, <<>>)>>)
    BY <1>3 DEF Finish
  <2>2. PICK r \in Reason, u \in SUBSET Counts, i \in Seq(Int) :
            r = "none" /\ u = {} /\ i = <<>>
    BY EmptySeq DEF Reason
  <2>3. WriteOK(Wrote(Ended(writer), <<End(r, u, i)>>), d)
    BY <1>2, EndedType, EndedAtOnce
  <2>4. Finish(writer).w.done
    BY <2>1, EndedType DEF Wrote
  <2> QED BY <1>3, <2>1, <2>2, <2>3, <2>4 DEF Writes, WriteOK
<1>4. CASE ~writer.done /\ to = "anthropic"
  <2>1. Finish(writer) = WriteAnthropic(writer, d)
    BY <1>4 DEF Finish, d
  <2>2. WriteOK(Finish(writer), d)
    BY <1>2, <1>4, <2>1, WriteAnthropicOK
  <2>3. PICK r : r = AnthropicBlocks(Begun(writer), d)
    OBVIOUS
  <2>4. r = FinishMessage(Begun(writer), d.reason, d.usage)
    BY <1>2, <2>3 DEF AnthropicBlocks
  <2>5. WriteOK(r, d) /\ r.w.done
    BY <1>2, <2>4, BegunType, FinishMessageOK
  <2>6. Finish(writer) = [r EXCEPT !.wires = MessageStart(writer) \o @]
    BY <2>1, <2>3 DEF WriteAnthropic
  <2>7. Finish(writer).w = r.w
    BY <2>5, <2>6, BegunType, PrefixOK
  <2> QED BY <1>4, <2>2, <2>5, <2>7 DEF Writes, WriteOK
<1>5. CASE ~writer.done /\ to = "responses"
  <2>1. Finish(writer) = Finished(writer, {})
    BY <1>5 DEF Finish
  <2>2. WriteOK(Finish(writer), d) /\ Finish(writer).w.done
    BY <1>2, <2>1, FinishedOK
  <2> QED BY <1>5, <2>2 DEF Writes, WriteOK
<1> QED BY <1>1, <1>3, <1>4, <1>5 DEF Entries

LEMMA WriteErrorOK ==
    ASSUME writer \in WriterType
    PROVE  /\ Writes(WriteError(writer)) /\ WriteError(writer).w.done
           /\ ~writer.done => WriteError(writer).wires
                                = <<Wire("error", None)>>
<1>1. CASE writer.done
  BY <1>1 DEF WriteError, Writes, Wrote
<1>2. CASE ~writer.done
  <2>1. WriteError(writer) = Wrote(Ended(writer), <<Wire("error", None)>>)
    BY <1>2 DEF WriteError
  <2>2. /\ <<Wire("error", None)>> \in Seq(WireType)
        /\ EndsOnce(<<Wire("error", None)>>)
    BY WireTypes, WireKinds, OneWire
  <2>3. /\ WriteError(writer).w = Ended(writer)
        /\ WriteError(writer).wires = <<Wire("error", None)>>
    BY <2>1 DEF Wrote
  <2> QED BY <1>2, <2>2, <2>3, EndedType DEF Writes
<1> QED BY <1>1, <1>2

\* What the client then has.
LEMMA Sent ==
    ASSUME writer \in WriterType, out \in Seq(WireType), gone \in BOOLEAN,
           OutInv, NEW r, Writes(r), Send(r), gone' = gone
    PROVE  /\ writer' = r.w /\ writer' \in WriterType
           /\ out' \in Seq(WireType) /\ OutInv'
           /\ writer.done => out' = out
           /\ Completed' => \/ Completed
                            \/ /\ ~writer.done /\ r.w.done
                               /\ r.wires[Len(r.wires)].type = "end"
<1>1. writer' = r.w /\ out' = IF gone THEN out ELSE out \o r.wires
  BY DEF Send
<1>2. CASE writer.done
  <2>1. r.w = writer /\ r.wires = <<>>
    BY <1>2 DEF Writes, Wrote
  <2>2. out' = out /\ writer' = writer
    BY <1>1, <2>1, ConcatEmptySeq
  <2> QED BY <1>1, <1>2, <2>1, <2>2 DEF OutInv, Completed
<1>3. CASE ~writer.done
  <2>1. /\ r.w \in WriterType /\ r.wires \in Seq(WireType)
        /\ r.w.done => EndsOnce(r.wires)
        /\ ~r.w.done => Clean(r.wires)
    BY <1>3 DEF Writes
  <2>2. Clean(out)
    BY <1>3 DEF OutInv
  <2>3. CASE gone
    <3>1. out' = out
      BY <1>1, <2>3
    <3> QED BY <1>1, <1>3, <2>1, <2>2, <2>3, <3>1 DEF OutInv, Completed
  <2>4. CASE ~gone
    <3>1. out' = out \o r.wires
      BY <1>1, <2>4
    <3>2. /\ out' \in Seq(WireType)
          /\ ~r.w.done => Clean(out')
          /\ r.w.done => EndsOnce(out')
          /\ r.wires # <<>> => out'[Len(out')] = r.wires[Len(r.wires)]
      BY <2>1, <2>2, <3>1, CleanConcat
    <3>3. OutInv'
      BY <1>1, <3>2 DEF OutInv
    <3>4. ASSUME Completed'
          PROVE  r.w.done /\ r.wires[Len(r.wires)].type = "end"
      <4>1. out' # <<>> /\ out'[Len(out')].type = "end"
        BY <3>4 DEF Completed, Last
      <4>2. Len(out') \in DOMAIN out'
        BY <3>2, <4>1, EmptySeq, LenProperties
      <4>3. r.w.done
        BY <3>2, <4>1, <4>2 DEF Clean
      <4>4. r.wires # <<>>
        BY <2>1, <4>3 DEF EndsOnce
      <4> QED BY <3>2, <4>1, <4>3, <4>4
    <3> QED BY <1>1, <1>3, <2>1, <3>2, <3>3, <3>4
  <2> QED BY <2>3, <2>4
<1> QED
  <2>1. writer.done \in BOOLEAN
    BY WriterFields
  <2> QED BY <1>2, <1>3, <2>1

-----------------------------------------------------------------------------
(* The steps of the handler.                                               *)

LEMMA EmitStep == IInv /\ Emit => IInv'
<1> SUFFICES ASSUME IInv, Emit PROVE IInv'
  OBVIOUS
<1> USE DEF IInv
<1>1. PICK e, r : e = Head(queue) /\ r = WriteEvent(writer, e)
  OBVIOUS
<1>2. /\ phase = "emitting" /\ http' = "200" /\ Send(r)
      /\ queue' = IF r.ok THEN Tail(queue) ELSE <<>>
      /\ phase' = CASE ~r.ok -> "failed"
                    [] r.ok /\ Tail(queue) = <<>> -> "reading"
                    [] r.ok /\ Tail(queue) # <<>> -> "emitting"
      /\ broken' = ~r.ok
      /\ UNCHANGED <<from, to, src, parser, gone, attempts>>
  BY <1>1 DEF Emit
<1>3. /\ queue \in Seq(EventType) /\ queue # <<>>
      /\ writer \in WriterType /\ out \in Seq(WireType) /\ gone \in BOOLEAN
      /\ to \in Entries
  BY <1>2 DEF Types
<1>4. /\ e \in EventType /\ Tail(queue) \in Seq(EventType)
      /\ Len(Tail(queue)) = Len(queue) - 1
      /\ \A k \in 1..Len(Tail(queue)) : Tail(queue)[k] = queue[k + 1]
      /\ e = queue[1] /\ Len(queue) \in Nat \ {0}
      /\ DOMAIN queue = 1..Len(queue)
      /\ DOMAIN Tail(queue) = 1..Len(Tail(queue))
  BY <1>1, <1>3, HeadTailProperties, EmptySeq, LenProperties
<1>5. Writes(r) /\ r.ok \in BOOLEAN
      /\ (~writer.done /\ r.w.done => e.type = "done" /\ r.ok)
      /\ (writer.done => r.ok /\ r.w = writer)
  <2>1. /\ writer.done => r = Wrote(writer, <<>>)
        /\ ~writer.done => WriteOK(r, e)
    BY <1>1, <1>3, <1>4, WriteEventOK
  <2>2. CASE writer.done
    <3>1. r.ok = TRUE /\ r.w = writer
      BY <2>1, <2>2 DEF Wrote
    <3> QED BY <2>1, <2>2, <3>1 DEF Writes
  <2>3. CASE ~writer.done
    <3>1. WriteOK(r, e)
      BY <2>1, <2>3
    <3> QED BY <2>3, <3>1 DEF Writes, WriteOK
  <2> QED BY <2>2, <2>3
<1>6. /\ writer' = r.w /\ writer' \in WriterType
      /\ out' \in Seq(WireType) /\ OutInv'
      /\ Completed' => Completed \/ (~writer.done /\ r.w.done)
  BY <1>2, <1>3, <1>5, Sent
<1>7. queue' \in Seq(EventType)
  BY <1>2, <1>4, EmptySeq
<1>8. /\ phase' \in {"reading", "emitting", "failed"}
      /\ phase' = "emitting" <=> queue' # <<>>
      /\ broken' => phase' = "failed"
      /\ broken' \in BOOLEAN
  BY <1>2, <1>5
<1>9. Types'
  BY <1>2, <1>6, <1>7, <1>8 DEF Types
<1>10. PhaseInv'
  BY <1>2, <1>8 DEF PhaseInv
<1>11. \A k \in DOMAIN queue' : queue'[k].type = "done" => src'.final
  <2>1. CASE r.ok
    <3>1. \A k \in 1..Len(Tail(queue)) :
              k + 1 \in DOMAIN queue /\ Tail(queue)[k] = queue[k + 1]
      BY <1>4
    <3> QED BY <1>2, <1>4, <2>1, <3>1 DEF FinalInv
  <2>2. CASE ~r.ok
    BY <1>2, <2>2
  <2> QED BY <2>1, <2>2
<1>12. Completed' => src'.final
  <2>1. Completed => src.final
    BY <1>2 DEF FinalInv
  <2>2. e.type = "done" => src.final
    BY <1>4 DEF FinalInv
  <2> QED BY <1>2, <1>5, <1>6, <2>1, <2>2
<1> QED BY <1>6, <1>9, <1>10, <1>11, <1>12 DEF FinalInv

LEMMA EmitFailsStep == IInv /\ EmitFails => IInv'
<1> SUFFICES ASSUME IInv, EmitFails PROVE IInv'
  OBVIOUS
<1> USE DEF IInv
<1>1. PICK e, r : e = Head(queue) /\ r = WriteEvent(writer, e)
  OBVIOUS
<1>2. /\ phase = "emitting" /\ gone
      /\ http' = "200" /\ phase' = "failed" /\ broken' = TRUE
      /\ writer' \in {writer, r.w} /\ queue' = <<>>
      /\ UNCHANGED <<from, to, src, parser, out, gone, attempts>>
  BY <1>1 DEF EmitFails
<1>3. e \in EventType /\ writer \in WriterType /\ to \in Entries
  BY <1>1, <1>2, HeadTailProperties DEF Types
<1>4. /\ writer.done => r = Wrote(writer, <<>>)
      /\ ~writer.done => WriteOK(r, e)
  BY <1>1, <1>3, WriteEventOK
<1>5. writer' \in WriterType /\ (writer.done => writer'.done)
  <2>1. CASE writer.done
    <3>1. r.w = writer
      BY <1>4, <2>1 DEF Wrote
    <3> QED BY <1>2, <1>3, <2>1, <3>1
  <2>2. CASE ~writer.done
    <3>1. r.w \in WriterType
      BY <1>4, <2>2 DEF WriteOK
    <3> QED BY <1>2, <1>3, <2>2, <3>1
  <2> QED BY <2>1, <2>2
<1>6. Types'
  BY <1>2, <1>5, EmptySeq DEF Types
<1>7. OutInv'
  BY <1>2, <1>5 DEF OutInv
<1>8. PhaseInv'
  BY <1>2 DEF PhaseInv
<1>9. FinalInv'
  BY <1>2 DEF FinalInv, Completed
<1> QED BY <1>6, <1>7, <1>8, <1>9

LEMMA EndOfStreamStep == IInv /\ EndOfStream => IInv'
<1> SUFFICES ASSUME IInv, EndOfStream PROVE IInv'
  OBVIOUS
<1> USE DEF IInv
<1>1. PICK r : r = Finish(writer)
  OBVIOUS
<1>2. /\ phase = "reading" /\ Send(r) /\ http' = "200"
      /\ phase' = "returned"
      /\ UNCHANGED <<from, to, src, parser, queue, broken, gone, attempts>>
  BY <1>1 DEF EndOfStream
<1>3. Writes(r) /\ r.w.done
  BY <1>1, FinishOK DEF Types
<1>4. /\ writer' = r.w /\ writer' \in WriterType
      /\ out' \in Seq(WireType) /\ OutInv'
  BY <1>2, <1>3, Sent DEF Types
<1>5. Types'
  BY <1>2, <1>4 DEF Types
<1>6. PhaseInv'
  BY <1>2, <1>3, <1>4 DEF PhaseInv
<1>7. FinalInv'
  BY <1>2 DEF FinalInv, PhaseInv
<1> QED BY <1>4, <1>5, <1>6, <1>7

LEMMA ReportErrorStep == IInv /\ ReportError => IInv'
<1> SUFFICES ASSUME IInv, ReportError PROVE IInv'
  OBVIOUS
<1> USE DEF IInv
<1>1. PICK r : r = WriteError(writer)
  OBVIOUS
<1>2. /\ phase = "failed" /\ Send(r) /\ phase' = "returned"
      /\ UNCHANGED <<from, to, src, parser, queue, http, broken, gone,
                     attempts>>
  BY <1>1 DEF ReportError
<1>3. /\ Writes(r) /\ r.w.done
      /\ ~writer.done => r.wires = <<Wire("error", None)>>
  BY <1>1, WriteErrorOK DEF Types
<1>4. /\ writer' = r.w /\ writer' \in WriterType
      /\ out' \in Seq(WireType) /\ OutInv'
      /\ Completed' => \/ Completed
                       \/ /\ ~writer.done /\ r.w.done
                          /\ r.wires[Len(r.wires)].type = "end"
  BY <1>2, <1>3, Sent DEF Types
<1>5. ~writer.done => r.wires[Len(r.wires)].type = "error"
  <2>1. <<Wire("error", None)>>[Len(<<Wire("error", None)>>)]
          = Wire("error", None)
    BY WireTypes, OneWire
  <2> QED BY <1>3, <2>1, WireKinds
<1>6. Types'
  BY <1>2, <1>4 DEF Types
<1>7. PhaseInv'
  <2>1. http = "200"
    BY <1>2 DEF PhaseInv
  <2> QED BY <1>2, <1>3, <1>4, <2>1 DEF PhaseInv
<1>8. FinalInv'
  <2>1. Completed' => Completed
    BY <1>4, <1>5
  <2> QED BY <1>2, <2>1 DEF FinalInv
<1> QED BY <1>4, <1>6, <1>7, <1>8

LEMMA NothingSent ==
    ASSUME IInv, phase = "reading", http = "none"
    PROVE  out = <<>> /\ ~writer.done /\ ~Completed /\ queue = <<>> /\ ~broken
BY DEF IInv, PhaseInv, Types, Completed

LEMMA FreshType == Fresh \in SourceType /\ NewParser \in ParserType
                   /\ ~Fresh.final
<1>1. <<>> \in Seq(Index \cup {Text})
  BY EmptySeq
<1> QED BY <1>1 DEF Fresh, NewParser, SourceType, ParserType, Reason

LEMMA RetryStep == IInv /\ Retry => IInv'
<1> SUFFICES ASSUME IInv, Retry PROVE IInv'
  OBVIOUS
<1>1. /\ phase = "reading" /\ http = "none" /\ attempts < MaxAttempts
      /\ attempts' = attempts + 1 /\ from' \in Upstreams
      /\ src' = Fresh /\ parser' = NewParser
      /\ UNCHANGED <<to, queue, writer, out, http, phase, broken, gone>>
  BY DEF Retry
<1>2. attempts' \in 1..MaxAttempts
  BY <1>1, StreamsAssumption DEF IInv, Types
<1>3. Types'
  BY <1>1, <1>2, FreshType DEF IInv, Types
<1>4. FinalInv'
  BY <1>1, NothingSent DEF FinalInv, Completed
<1> QED BY <1>1, <1>3, <1>4 DEF IInv, OutInv, PhaseInv

LEMMA OtherSteps ==
    IInv /\ (RouteError \/ BreakOff \/ ClientGone \/ UNCHANGED vars) => IInv'
<1> SUFFICES ASSUME IInv,
                    RouteError \/ BreakOff \/ ClientGone \/ UNCHANGED vars
             PROVE  IInv'
  OBVIOUS
<1>1. CASE RouteError
  <2>1. /\ phase = "reading" /\ http = "none" /\ http' = "error"
        /\ phase' = "returned" /\ broken' = TRUE
        /\ UNCHANGED <<from, to, src, parser, queue, writer, out, gone,
                       attempts>>
    BY <1>1 DEF RouteError
  <2>2. Types'
    BY <2>1 DEF IInv, Types
  <2>3. PhaseInv' /\ FinalInv'
    BY <2>1, NothingSent DEF PhaseInv, FinalInv, Completed
  <2> QED BY <2>1, <2>2, <2>3 DEF IInv, OutInv
<1>2. CASE BreakOff
  <2>1. /\ phase = "reading" /\ http = "200"
        /\ phase' = "failed" /\ broken' = TRUE
        /\ UNCHANGED <<from, to, src, parser, queue, writer, out, http, gone,
                       attempts>>
    BY <1>2 DEF BreakOff
  <2> QED BY <2>1 DEF IInv, Types, OutInv, PhaseInv, FinalInv, Completed
<1>3. CASE ClientGone
  <2>1. /\ gone' = TRUE
        /\ UNCHANGED <<from, to, src, parser, queue, writer, out, http, phase,
                       broken, attempts>>
    BY <1>3 DEF ClientGone
  <2> QED BY <2>1 DEF IInv, Types, OutInv, PhaseInv, FinalInv, Completed
<1>4. CASE UNCHANGED vars
  BY <1>4 DEF vars, IInv, Types, OutInv, PhaseInv, FinalInv, Completed
<1> QED BY <1>1, <1>2, <1>3, <1>4

-----------------------------------------------------------------------------
(* The steps of the upstream and its parser.                               *)

NoDone(s) == \A k \in DOMAIN s : s[k].type # "done"

LEMMA NoEvent == <<>> \in Seq(EventType) /\ NoDone(<<>>)
BY EmptySeq DEF NoDone

LEMMA PieceOK ==
    ASSUME NEW there \in BOOLEAN, NEW tool, NEW n \in Nat,
           NEW type \in ToolEvents \cup {"text_delta"},
           there => tool \in Index \/ (tool = Text /\ type = "text_delta")
    PROVE  /\ Piece(there, type, tool, n) \in Seq(EventType)
           /\ NoDone(Piece(there, type, tool, n))
<1>1. CASE ~there
  BY <1>1, NoEvent DEF Piece
<1>2. CASE there
  <2>1. PICK e : e = Event(type, tool, n)
    OBVIOUS
  <2>2. e \in EventType /\ e.type = type
    BY <1>2, <2>1 DEF Event, EventType, Reason, ToolEvents
  <2>3. Piece(there, type, tool, n) = <<e>>
    BY <1>2, <2>1 DEF Piece
  <2>4. <<e>> \in Seq(EventType) /\ NoDone(<<e>>)
    BY <2>2 DEF NoDone, ToolEvents
  <2> QED BY <2>3, <2>4
<1> QED BY <1>1, <1>2

LEMMA EventsConcat ==
    ASSUME NEW s \in Seq(EventType), NEW t \in Seq(EventType),
           NoDone(s), NoDone(t)
    PROVE  s \o t \in Seq(EventType) /\ NoDone(s \o t)
<1>1. /\ s \o t \in Seq(EventType) /\ Len(s \o t) = Len(s) + Len(t)
      /\ \A k \in 1..Len(s) + Len(t) :
             (s \o t)[k] = IF k <= Len(s) THEN s[k] ELSE t[k - Len(s)]
  BY ConcatProperties
<1>2. /\ DOMAIN s = 1..Len(s) /\ DOMAIN t = 1..Len(t)
      /\ DOMAIN (s \o t) = 1..Len(s) + Len(t)
      /\ Len(s) \in Nat /\ Len(t) \in Nat
  BY <1>1, LenProperties
<1> QED BY <1>1, <1>2 DEF NoDone

\* A chunk was parsed into these events.
LEMMA FeedStep ==
    ASSUME IInv, phase = "reading", ~src.final,
           NEW events \in Seq(EventType), Feed(events),
           src' \in SourceType, parser' \in ParserType,
           NoDone(events) \/ src'.final
    PROVE  IInv'
<1>1. /\ queue' = events
      /\ phase' = IF events = <<>> THEN "reading" ELSE "emitting"
      /\ UNCHANGED <<from, to, writer, out, http, broken, gone, attempts>>
  BY DEF Feed
<1>2. Types'
  BY <1>1 DEF IInv, Types
<1>3. OutInv' /\ PhaseInv'
  BY <1>1 DEF IInv, OutInv, PhaseInv
<1>4. FinalInv'
  BY <1>1 DEF IInv, FinalInv, NoDone, Completed
<1> QED BY <1>2, <1>3, <1>4 DEF IInv

LEMMA SourceFields ==
    ASSUME IInv
    PROVE  /\ src \in SourceType /\ parser \in ParserType
           /\ src.sent \in Seq(Index \cup {Text}) /\ src.chunks \in Nat
           /\ src.used \in SUBSET Index /\ src.open \in Index \cup {None}
           /\ src.reason \in Reason /\ src.usage \in SUBSET Counts
           /\ parser.tools \in SUBSET Index /\ parser.reason \in Reason
           /\ parser.usage \in SUBSET Counts /\ Len(src.sent) \in Nat
<1>1. src \in SourceType /\ parser \in ParserType
  BY DEF IInv, Types
<1>2. src.sent \in Seq(Index \cup {Text})
  BY <1>1 DEF SourceType
<1> QED BY <1>1, <1>2, LenProperties DEF SourceType, ParserType

LEMMA OpenAIDeltaStep ==
    ASSUME IInv, NEW text \in BOOLEAN, NEW args \in BOOLEAN,
           NEW tool \in src.used \cup NextIndex \cup {Text},
           OpenAIDelta(text, tool, args)
    PROVE  IInv'
<1>1. tool # Text => tool \in Index
  BY SourceFields DEF NextIndex
<1>2. PICK isTool \in BOOLEAN : isTool = (tool # Text)
  OBVIOUS
<1>3. PICK p, q \in Seq(Index \cup {Text}) :
          /\ p = IF text THEN <<Text>> ELSE <<>>
          /\ q = IF isTool /\ args THEN <<tool>> ELSE <<>>
  <2>1. <<>> \in Seq(Index \cup {Text}) /\ <<Text>> \in Seq(Index \cup {Text})
    BY EmptySeq
  <2>2. tool # Text => <<tool>> \in Seq(Index \cup {Text})
    BY <1>1
  <2> QED BY <1>2, <2>1, <2>2
<1>4. PICK sent \in Seq(Index \cup {Text}) : sent = src.sent \o p \o q
  BY SourceFields, ConcatProperties
<1>5. PICK used \in SUBSET Index, tools \in SUBSET Index, chunks \in Nat :
          /\ used = IF isTool THEN src.used \cup {tool} ELSE src.used
          /\ tools = IF isTool THEN parser.tools \cup {tool} ELSE parser.tools
          /\ chunks = src.chunks + 1
  <2>1. isTool => /\ src.used \cup {tool} \in SUBSET Index
                  /\ parser.tools \cup {tool} \in SUBSET Index
    BY <1>1, <1>2, SourceFields
  <2>2. src.chunks + 1 \in Nat
    BY SourceFields
  <2> QED BY <2>1, <2>2, SourceFields
<1> DEFINE a == Piece(text, "text_delta", Text, Len(src.sent) + 1)
           b == Piece(isTool /\ tool \notin parser.tools,
                      "tool_call_start", tool, 0)
           c == Piece(isTool /\ args, "tool_call_delta", tool, Len(sent))
<1>6. /\ phase = "reading" /\ ~src.final
      /\ src' = [src EXCEPT !.chunks = chunks, !.sent = sent, !.used = used]
      /\ parser' = [parser EXCEPT !.tools = tools]
      /\ Feed(a \o b \o c)
  BY <1>2, <1>3, <1>4, <1>5, SourceFields
  DEF OpenAIDelta, Sends, SourceType, ParserType
<1>7. src' \in SourceType /\ parser' \in ParserType
  BY <1>6, SourceFields DEF SourceType, ParserType
<1>8. Len(src.sent) + 1 \in Nat /\ Len(sent) \in Nat
  BY SourceFields, LenProperties
<1>9. a \in Seq(EventType) /\ NoDone(a)
  BY <1>8, PieceOK
<1>10. b \in Seq(EventType) /\ NoDone(b)
  BY <1>1, <1>2, PieceOK DEF ToolEvents
<1>11. c \in Seq(EventType) /\ NoDone(c)
  BY <1>1, <1>2, <1>8, PieceOK DEF ToolEvents
<1> HIDE DEF a, b, c
<1>12. a \o b \o c \in Seq(EventType) /\ NoDone(a \o b \o c)
  BY <1>9, <1>10, <1>11, EventsConcat
<1> QED BY <1>6, <1>7, <1>12, FeedStep

LEMMA OpenAIFinishStep ==
    ASSUME IInv, NEW reason \in {"none", "stop", "length", "tool_calls"},
           NEW usage \in SUBSET Counts, OpenAIFinish(reason, usage)
    PROVE  IInv'
<1>1. PICK r \in Reason, u \in SUBSET Counts :
          /\ r = IF reason # "none" THEN reason ELSE src.reason
          /\ u = IF usage # {} THEN usage ELSE src.usage
  BY SourceFields DEF Reason
<1>2. PICK pr \in Reason, pu \in SUBSET Counts :
          /\ pr = IF reason # "none" THEN reason ELSE parser.reason
          /\ pu = IF usage # {} THEN usage ELSE parser.usage
  BY SourceFields DEF Reason
<1>3. /\ phase = "reading" /\ ~src.final
      /\ src' = [src EXCEPT !.reason = r, !.usage = u]
      /\ parser' = [parser EXCEPT !.reason = pr, !.usage = pu]
      /\ Feed(<<>>)
  BY <1>1, <1>2, SourceFields
  DEF OpenAIFinish, Sends, SourceType, ParserType
<1>4. src' \in SourceType /\ parser' \in ParserType
  BY <1>3, SourceFields DEF SourceType, ParserType
<1> QED BY <1>3, <1>4, NoEvent, FeedStep

\* The final markers.
LEMMA MarkerStep ==
    ASSUME IInv, phase = "reading", ~src.final,
           src' = [src EXCEPT !.final = TRUE], parser' = parser,
           NEW r \in Reason, NEW u \in SUBSET Counts, Feed(<<Done(r, u)>>)
    PROVE  IInv'
<1>1. src' \in SourceType /\ src'.final
  BY SourceFields DEF SourceType
<1>2. Done(r, u) \in EventType
  BY DoneEvent
<1>3. <<Done(r, u)>> \in Seq(EventType)
  BY <1>2
<1> QED BY <1>1, <1>3, SourceFields, FeedStep

LEMMA OpenAIDoneStep == IInv /\ OpenAIDone => IInv'
BY SourceFields, MarkerStep DEF OpenAIDone, Sends

LEMMA MessageStopStep == IInv /\ MessageStop => IInv'
<1>1. IRFinishReason(parser.reason) \in Reason
  BY DEF IRFinishReason, Reason
<1> QED BY <1>1, SourceFields, MarkerStep DEF MessageStop, Sends

LEMMA BlockStartStep ==
    ASSUME IInv, NEW b \in NextIndex, NEW tool \in BOOLEAN,
           BlockStart(b, tool)
    PROVE  IInv'
<1>1. b \in Index
  BY DEF NextIndex
<1>2. PICK used \in SUBSET Index, tools \in SUBSET Index,
           open \in Index \cup {None} :
          /\ used = src.used \cup {b} /\ open = b
          /\ tools = IF tool THEN parser.tools \cup {b} ELSE parser.tools
  BY <1>1, SourceFields
<1>3. /\ phase = "reading" /\ ~src.final
      /\ src' = [src EXCEPT !.open = open, !.used = used]
      /\ parser' = [parser EXCEPT !.tools = tools]
      /\ Feed(Piece(tool, "tool_call_start", b, 0))
  BY <1>2, SourceFields
  DEF BlockStart, Sends, SourceType, ParserType
<1>4. src' \in SourceType /\ parser' \in ParserType
  BY <1>3, SourceFields DEF SourceType, ParserType
<1>5. /\ Piece(tool, "tool_call_start", b, 0) \in Seq(EventType)
      /\ NoDone(Piece(tool, "tool_call_start", b, 0))
  BY <1>1, PieceOK DEF ToolEvents
<1> QED BY <1>3, <1>4, <1>5, FeedStep

LEMMA BlockDeltaStep == IInv /\ BlockDelta => IInv'
<1> SUFFICES ASSUME IInv, BlockDelta PROVE IInv'
  OBVIOUS
<1>1. PICK tool \in BOOLEAN : tool <=> src.open \in parser.tools
  <2>1. CASE src.open \in parser.tools
    BY <2>1
  <2>2. CASE src.open \notin parser.tools
    BY <2>2
  <2> QED BY <2>1, <2>2
<1>2. PICK kind \in Index \cup {Text},
           type \in ToolEvents \cup {"text_delta"} :
          /\ kind = IF tool THEN src.open ELSE Text
          /\ type = IF tool THEN "tool_call_delta" ELSE "text_delta"
  BY <1>1, SourceFields DEF ToolEvents
<1>3. PICK sent \in Seq(Index \cup {Text}), chunks \in Nat :
          sent = Append(src.sent, kind) /\ chunks = src.chunks + 1
  <2>1. Append(src.sent, kind) \in Seq(Index \cup {Text})
    BY SourceFields, AppendProperties
  <2>2. src.chunks + 1 \in Nat
    BY SourceFields
  <2> QED BY <2>1, <2>2
<1>4. /\ phase = "reading" /\ ~src.final
      /\ src' = [src EXCEPT !.chunks = chunks, !.sent = sent]
      /\ Feed(Piece(TRUE, type, kind, Len(src.sent) + 1))
      /\ parser' = parser
  BY <1>1, <1>2, <1>3, SourceFields DEF BlockDelta, Sends, SourceType
<1>5. src' \in SourceType
  BY <1>4, SourceFields DEF SourceType
<1>6. kind \in Index \/ (kind = Text /\ type = "text_delta")
  BY <1>1, <1>2, SourceFields
<1>7. Len(src.sent) + 1 \in Nat
  BY SourceFields
<1>8. /\ Piece(TRUE, type, kind, Len(src.sent) + 1) \in Seq(EventType)
      /\ NoDone(Piece(TRUE, type, kind, Len(src.sent) + 1))
  BY <1>6, <1>7, PieceOK
<1> QED BY <1>4, <1>5, <1>8, SourceFields, FeedStep

LEMMA BlockStopStep == IInv /\ BlockStop => IInv'
<1> SUFFICES ASSUME IInv, BlockStop PROVE IInv'
  OBVIOUS
<1>1. PICK tool \in BOOLEAN : tool <=> src.open \in parser.tools
  <2>1. CASE src.open \in parser.tools
    BY <2>1
  <2>2. CASE src.open \notin parser.tools
    BY <2>2
  <2> QED BY <2>1, <2>2
<1>2. PICK open \in Index \cup {None} : open = None
  OBVIOUS
<1>3. /\ phase = "reading" /\ ~src.final
      /\ src' = [src EXCEPT !.open = open]
      /\ Feed(Piece(tool, "tool_call_stop", src.open, 0))
      /\ parser' = parser
  BY <1>1, <1>2, SourceFields DEF BlockStop, Sends, SourceType
<1>4. src' \in SourceType
  BY <1>3, SourceFields DEF SourceType
<1>5. tool => src.open \in Index
  BY <1>1, SourceFields
<1>6. /\ Piece(tool, "tool_call_stop", src.open, 0) \in Seq(EventType)
      /\ NoDone(Piece(tool, "tool_call_stop", src.open, 0))
  BY <1>5, PieceOK DEF ToolEvents
<1> QED BY <1>3, <1>4, <1>6, SourceFields, FeedStep

LEMMA MessageBeginStep == IInv /\ MessageBegin => IInv'
<1> SUFFICES ASSUME IInv, MessageBegin PROVE IInv'
  OBVIOUS
<1>1. PICK usage \in SUBSET Counts : usage = {"prompt"}
  BY DEF Counts
<1>2. /\ phase = "reading" /\ ~src.final
      /\ src' = [src EXCEPT !.start = usage] /\ parser' = parser
      /\ Feed(<<>>)
  BY <1>1 DEF MessageBegin, Sends
<1>3. src' \in SourceType
  BY <1>2, SourceFields DEF SourceType
<1> QED BY <1>2, <1>3, SourceFields, NoEvent, FeedStep

LEMMA MessageDeltaStep ==
    ASSUME IInv, NEW reason \in {"end_turn", "max_tokens", "tool_use"},
           NEW usage \in SUBSET Counts, MessageDelta(reason, usage)
    PROVE  IInv'
<1>1. PICK told, kept \in SUBSET Counts :
          /\ reason \in Reason
          /\ told = IF usage # {} THEN usage ELSE src.usage
          /\ kept = IF usage # {} THEN usage ELSE parser.usage
  BY SourceFields DEF Reason
<1>2. /\ phase = "reading" /\ ~src.final
      /\ src' = [src EXCEPT !.reason = reason, !.usage = told]
      /\ parser' = [parser EXCEPT !.reason = reason, !.usage = kept]
      /\ Feed(<<>>)
  BY <1>1, SourceFields DEF MessageDelta, Sends, SourceType, ParserType
<1>3. src' \in SourceType /\ parser' \in ParserType
  BY <1>1, <1>2, SourceFields DEF SourceType, ParserType
<1> QED BY <1>2, <1>3, NoEvent, FeedStep

LEMMA ChunkStep == IInv /\ Chunk => IInv'
BY OpenAIDeltaStep, OpenAIFinishStep, OpenAIDoneStep, BlockStartStep,
   BlockDeltaStep, BlockStopStep, MessageBeginStep, MessageDeltaStep, MessageStopStep
DEF Chunk, Counts

-----------------------------------------------------------------------------
(* The theorems.                                                           *)

LEMMA InitInv == Init => IInv
<1> SUFFICES ASSUME Init PROVE IInv
  OBVIOUS
<1>1. NewWriter \in WriterType /\ ~NewWriter.done
  BY EmptySeq, Indices DEF NewWriter, WriterType
<1>2. <<>> \in Seq(EventType) /\ <<>> \in Seq(WireType)
  BY EmptySeq
<1>3. Types
  <2>1. attempts \in 1..MaxAttempts
    BY StreamsAssumption DEF Init
  <2> QED BY <1>1, <1>2, <2>1, FreshType DEF Init, Types
<1>4. OutInv
  BY <1>1, NoWire DEF Init, OutInv
<1>5. PhaseInv /\ FinalInv
  BY <1>1 DEF Init, PhaseInv, FinalInv, Completed
<1> QED BY <1>3, <1>4, <1>5 DEF IInv

\* The invariant is inductive: every chunk, event, failure, retry and hang-up
\* keeps it, whatever protocols the two sides speak.
THEOREM StreamsInductive == Spec => []IInv
<1>1. IInv /\ [Next]_vars => IInv'
  <2> SUFFICES ASSUME IInv, [Next]_vars PROVE IInv'
    OBVIOUS
  <2>1. Returned => UNCHANGED vars
    BY DEF Returned
  <2> QED
    BY <2>1, ChunkStep, EmitStep, EmitFailsStep, EndOfStreamStep, RetryStep,
       ReportErrorStep, OtherSteps DEF Next
<1> QED BY <1>1, InitInv, PTL DEF Spec

\* Every variable keeps its type (TypeOK of the run).
THEOREM StreamsTypes == Spec => []TypeOK
<1>1. IInv => TypeOK
  <2> SUFFICES ASSUME IInv PROVE TypeOK
    OBVIOUS
  <2>1. src.final \in BOOLEAN /\ writer.done \in BOOLEAN
    BY WriterFields DEF IInv, Types, SourceType
  <2> QED BY <2>1, SourceFields DEF IInv, Types, TypeOK
<1> QED BY <1>1, StreamsInductive, PTL

\* handleStream and the three writers: a client that stays is sent exactly
\* one ending, and nothing after it, or an error status and nothing else.
THEOREM StreamsEndOnce == Spec => []OneEnding
<1>1. IInv => OneEnding
  <2> SUFFICES ASSUME IInv PROVE OneEnding
    OBVIOUS
  <2>1. \A k \in DOMAIN out : IsEnding(k) => k = Len(out)
    BY DEF IInv, OutInv, Clean, EndsOnce, IsEnding
  <2>2. phase = "returned" /\ ~gone /\ http = "200"
          => out # <<>> /\ IsEnding(Len(out))
    BY DEF IInv, OutInv, PhaseInv, EndsOnce, IsEnding
  <2> QED BY <2>1, <2>2 DEF IInv, PhaseInv, OneEnding
<1> QED BY <1>1, StreamsInductive, PTL

\* handleStream: a stream that was cut short before its final marker is never
\* presented to the client as complete.
THEOREM StreamsHonest == Spec => []HonestEnd
<1>1. IInv => HonestEnd
  BY DEF IInv, FinalInv, HonestEnd
<1> QED BY <1>1, StreamsInductive, PTL
=============================================================================
