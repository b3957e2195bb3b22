------------------------ MODULE Conversation_proofs ------------------------
(***************************************************************************)
(* Proofs about Conversation, for any contents and any number of answers.  *)
(***************************************************************************)
EXTENDS Conversation, Codecs_proofs

LEMMA OpenAIRequest ==
    ASSUME NEW msgs, NEW choice
    PROVE  /\ SerializeOpenAIChatRequest(msgs, choice).to = "openai"
           /\ SerializeOpenAIChatRequest(msgs, choice).choice = choice
BY DEF SerializeOpenAIChatRequest, Map

LEMMA AnthropicRequest ==
    ASSUME NEW msgs, NEW choice
    PROVE  /\ SerializeAnthropicMessagesRequest(msgs, choice).to = "anthropic"
           /\ SerializeAnthropicMessagesRequest(msgs, choice).choice = choice
BY DEF SerializeAnthropicMessagesRequest

LEMMA ValueFields ==
    /\ NoChoice.form = "absent"
    /\ \A type : /\ Bare(type).form = "string" /\ Bare(type).type = type
                 /\ Object(type).form = "object" /\ Object(type).type = type
                 /\ ~Object(type).nested
<1>1. NoChoice.form = "absent"
  BY DEF NoChoice, ChoiceValue
<1>2. ASSUME NEW type
      PROVE  Bare(type).form = "string" /\ Bare(type).type = type
  BY DEF Bare, ChoiceValue
<1>3. ASSUME NEW type
      PROVE  Object(type).form = "object" /\ Object(type).type = type /\ ~Object(type).nested
  BY DEF Object, ChoiceValue
<1> QED
  BY <1>1, <1>2, <1>3

LEMMA NamedFields ==
    ASSUME NEW type, NEW name
    PROVE  /\ Named(type, name).form = "object" /\ Named(type, name).type = type
           /\ Named(type, name).name = name /\ ~Named(type, name).nested
           /\ NestedName(type, name).form = "object"
           /\ NestedName(type, name).type = type
           /\ NestedName(type, name).name = name /\ NestedName(type, name).nested
BY DEF Named, NestedName, ChoiceValue

\* The forms clients write, and what becomes of each.
LEMMA ChoiceForms ==
    ASSUME NEW e, NEW c \in ChoicesOf(e)
    PROVE  \/ c \in {NoChoice, Bare("auto"), Bare("required"), Bare("none")}
           \/ c \in {Object("auto"), Object("any"), Object("none")}
           \/ c \in {Named("tool", "f"), Named("function", "f"), NestedName("function", "f")}
BY DEF ChoicesOf

LEMMA ForOpenAI ==
    ASSUME NEW e, NEW c \in ChoicesOf(e)
    PROVE  LET n == NormalizeToolChoice(c)
           IN /\ \/ n.form \in {"absent", "string"}
                 \/ n.type = "function" /\ n.nested
              /\ Demand(n) = Demand(c) \/ c = Object("any")
<1>1. CASE c \in {NoChoice, Bare("auto"), Bare("required"), Bare("none")}
  <2>1. c.form \in {"absent", "string"}
    BY <1>1, ValueFields
  <2>2. NormalizeToolChoice(c) = c
    BY <2>1 DEF NormalizeToolChoice
  <2> QED
    BY <2>1, <2>2
<1>2. CASE c = Object("auto") \/ c = Object("none")
  <2>1. c.form = "object" /\ c.type \in {"auto", "none"}
    BY <1>2, ValueFields
  <2>2. NormalizeToolChoice(c) = Bare(c.type)
    BY <2>1 DEF NormalizeToolChoice
  <2>3. Bare(c.type).form = "string" /\ Bare(c.type).type = c.type
    BY DEF Bare, ChoiceValue
  <2> QED
    BY <2>1, <2>2, <2>3 DEF Demand
<1>3. CASE c = Object("any")
  <2>1. c.form = "object" /\ c.type = "any"
    BY <1>3 DEF Object, ChoiceValue
  <2>2. NormalizeToolChoice(c) = Bare("auto")
    BY <2>1 DEF NormalizeToolChoice
  <2>3. Bare("auto").form = "string"
    BY DEF Bare, ChoiceValue
  <2> QED
    BY <1>3, <2>2, <2>3
<1>4. CASE c \in {Named("tool", "f"), Named("function", "f"), NestedName("function", "f")}
  <2>1. /\ c.form = "object" /\ c.type \in {"tool", "function"} /\ c.name = "f"
        /\ c.nested => c.type = "function"
    BY <1>4, NamedFields
  <2>2. /\ NormalizeToolChoice(c) \in {c, NestedName("function", "f")}
        /\ \/ NormalizeToolChoice(c) # c
           \/ c.type = "function" /\ c.nested
           \/ c = NestedName("function", "f")
    BY <2>1 DEF NormalizeToolChoice
  <2>3. LET n == NestedName("function", "f")
        IN n.form = "object" /\ n.type = "function" /\ n.name = "f" /\ n.nested
    BY DEF NestedName, ChoiceValue
  <2> QED
    BY <2>1, <2>2, <2>3 DEF Demand
<1> QED
  BY <1>1, <1>2, <1>3, <1>4, ChoiceForms

LEMMA ForAnthropic ==
    ASSUME NEW e, NEW c \in ChoicesOf(e)
    PROVE  LET n == NormalizeAnthropicToolChoice(c)
           IN /\ \/ n.form = "absent"
                 \/ n.form = "object" /\ ~n.nested /\ n.type \in {"auto", "any", "none", "tool"}
              /\ Demand(n) = Demand(c)
<1>1. CASE c = NoChoice
  <2>1. c.form = "absent"
    BY <1>1 DEF NoChoice, ChoiceValue
  <2>2. NormalizeAnthropicToolChoice(c) = c
    BY <2>1 DEF NormalizeAnthropicToolChoice
  <2> QED
    BY <2>1, <2>2
<1>2. CASE c \in {Bare("auto"), Bare("required"), Bare("none")}
  <2>1. c.form = "string" /\ c.type \in {"auto", "required", "none"}
    BY <1>2, ValueFields
  <2>2. NormalizeAnthropicToolChoice(c) =
          Object(IF c.type = "required" THEN "any" ELSE c.type)
    BY <2>1 DEF NormalizeAnthropicToolChoice
  <2>3. \A type : LET n == Object(type)
                  IN n.form = "object" /\ ~n.nested /\ n.type = type
    BY DEF Object, ChoiceValue
  <2> QED
    BY <2>1, <2>2, <2>3 DEF Demand
<1>3. CASE c \in {Object("auto"), Object("any"), Object("none"), Named("tool", "f")}
  <2>1. /\ c.form = "object" /\ c.type \in {"auto", "any", "none", "tool"} /\ ~c.nested
    BY <1>3, ValueFields, NamedFields
  <2>2. NormalizeAnthropicToolChoice(c) = c
    BY <2>1 DEF NormalizeAnthropicToolChoice
  <2> QED
    BY <2>1, <2>2
<1>4. CASE c \in {Named("function", "f"), NestedName("function", "f")}
  <2>1. c.form = "object" /\ c.type = "function" /\ c.name = "f"
    BY <1>4, NamedFields
  <2>2. NormalizeAnthropicToolChoice(c) = Named("tool", "f")
    BY <2>1 DEF NormalizeAnthropicToolChoice
  <2>3. LET n == Named("tool", "f")
        IN n.form = "object" /\ ~n.nested /\ n.type = "tool" /\ n.name = "f"
    BY DEF Named, ChoiceValue
  <2> QED
    BY <2>1, <2>2, <2>3 DEF Demand
<1> QED
  BY <1>1, <1>2, <1>3, <1>4, ChoiceForms

-----------------------------------------------------------------------------
(* Only Forward sends a request.                                           *)

LEMMA ForwardUnderstood ==
    ASSUME Forward
    PROVE  ChoiceUnderstood'
<1> DEFINE Msgs(fold) == IF fold THEN FoldSystemIntoUser(ParseEntry(entry, said))
                         ELSE ParseEntry(entry, said)
<1>0. PICK to \in Upstreams, fold \in BOOLEAN, c \in ChoicesOf(entry) :
         sent' = Serialize(to, Msgs(fold), c) /\ asked' = c
  BY DEF Forward
<1>1. PICK msgs : sent' = Serialize(to, msgs, c) /\ asked' = c
  BY <1>0
<1>2. CASE to = "openai"
  <2>1. sent'.to = "openai" /\ sent'.choice = NormalizeToolChoice(c)
    BY <1>1, <1>2, OpenAIRequest DEF Serialize
  <2> QED
    BY <1>1, <2>1, ForOpenAI DEF ChoiceUnderstood
<1>3. CASE to # "openai"
  <2>1. sent'.to = "anthropic" /\ sent'.choice = NormalizeAnthropicToolChoice(c)
    BY <1>1, <1>3, AnthropicRequest DEF Serialize
  <2> QED
    BY <1>1, <2>1, ForAnthropic DEF ChoiceUnderstood
<1> QED
  BY <1>2, <1>3

LEMMA NothingUnderstood ==
    ASSUME sent = Nothing
    PROVE  ChoiceUnderstood
<1>1. Nothing.to = "none"
  BY DEF Nothing
<1> QED
  BY <1>1 DEF ChoiceUnderstood

LEMMA NextUnderstood ==
    ASSUME ChoiceUnderstood, [Next]_vars
    PROVE  ChoiceUnderstood'
<1>1. CASE Forward
  BY <1>1, ForwardUnderstood
<1>2. CASE Answer
  <2>1. sent' = Nothing
    BY <1>2 DEF Answer
  <2>2. sent'.to = "none"
    BY <2>1 DEF Nothing
  <2> QED
    BY <2>1, <2>2 DEF ChoiceUnderstood
<1>3. CASE UNCHANGED <<sent, asked>>
  BY <1>3 DEF ChoiceUnderstood
<1> QED
  BY <1>1, <1>2, <1>3 DEF Next, Compose, Refuse, vars

\* In every conversation tool_choice reaches the upstream in a form it knows and
\* demands what the client asked for (but for "any" to an OpenAI upstream).
THEOREM ChoicesUnderstood == Spec => []ChoiceUnderstood
<1>1. Init => ChoiceUnderstood
  BY NothingUnderstood DEF Init
<1>2. ChoiceUnderstood /\ [Next]_vars => ChoiceUnderstood'
  BY NextUnderstood
<1> QED
  BY <1>1, <1>2, PTL DEF Spec

-----------------------------------------------------------------------------
(* Facts, and what messages of IR say.                                     *)

Tags == {"s", "u", "r", "a"}
Piece == Tags \X Nat
PlainPiece == {"u", "r", "a"} \X Nat
Url == [scheme : {"http", "data"}, ref : Nat]
Call == [id : Nat, args : Arguments]
Roles == {"system", "user", "assistant", "tool"}

PartsOf(P) ==
    [type : {"text"}, text : Seq(P)] \cup [type : {"image"}, url : Url]
        \cup {[type |-> "file"]}

Fact == Roles \X {"text", "image", "call", "result"}
          \X (Tags \cup {"http", "data", "object", "{}", ""}) \X Nat
PlainFact == {f \in Fact : ~Instruction(f)}
FactOf(who) == {f \in Fact : Instruction(f) => f[1] = who}

TextF(who) == [t \in Piece |-> <<<<who, "text", t[1], t[2]>>>>]
CallF == [c \in Call |-> <<CallFact(c.id, c.args)>>]

IRPartFacts(who, p) ==
    CASE p.type = "text" -> TextFacts(who, p.text)
      [] p.type = "image" -> <<ImageFact(who, p.url)>>
      [] OTHER -> <<>>
PartF(who) == [p \in PartsOf(Piece) |-> IRPartFacts(who, p)]

IRFacts(m) ==
    (Opt(m.role = "tool", ResultFact(m.call_id)) \o Flat(PartF(m.role), m.content))
        \o Flat(CallF, m.calls)

SystemMsg == {Message("system", <<TextPart(<<<<"s", n>>>>)>>, <<>>, NoId) : n \in Nat}
ToolMsg == {Message("tool", <<TextPart(<<<<"r", n>>>>)>>, <<>>, n) : n \in Nat}
UserMsg(P) == [role : {"user"}, content : Seq(PartsOf(P)), calls : {<<>>}, call_id : {NoId}]
AssistantMsg ==
    [role : {"assistant"}, content : Seq(PartsOf(PlainPiece)), calls : Seq(Call),
     call_id : {NoId}]

\* Messages without instructions; what the gateway reads; what it may send.
Plain == ToolMsg \cup UserMsg(PlainPiece) \cup AssistantMsg
Shaped == SystemMsg \cup Plain
Rest == Plain \cup UserMsg(Piece)
IR == SystemMsg \cup Rest

LEMMA PartCases ==
    ASSUME NEW P, NEW p \in PartsOf(P)
    PROVE  \/ p.type = "text" /\ IsList(p.text, P)
           \/ p.type = "image" /\ p.url \in Url
           \/ p.type = "file"
BY DEF PartsOf, IsList

LEMMA FactFields ==
    /\ \A who \in Roles, t \in Piece : <<who, "text", t[1], t[2]>> \in Fact
    /\ \A who \in Roles, u \in Url : ImageFact(who, u) \in PlainFact
    /\ \A c \in Call : CallFact(c.id, c.args) \in PlainFact
    /\ \A id \in Nat : ResultFact(id) \in PlainFact
<1>1. ASSUME NEW who \in Roles, NEW t \in Piece
      PROVE  <<who, "text", t[1], t[2]>> \in Fact
  BY DEF Piece, Fact, Tags
<1>2. ASSUME NEW who \in Roles, NEW u \in Url
      PROVE  ImageFact(who, u) \in PlainFact
  <2>1. u.scheme \in {"http", "data"} /\ u.ref \in Nat
    BY DEF Url
  <2> QED BY <2>1 DEF ImageFact, PlainFact, Fact, Instruction
<1>3. ASSUME NEW c \in Call
      PROVE  CallFact(c.id, c.args) \in PlainFact
  <2>1. c.id \in Nat /\ Input(c.args) \in {"object", "{}"}
    BY DEF Call, Arguments, Input
  <2> QED BY <2>1 DEF CallFact, PlainFact, Fact, Roles, Instruction
<1>4. ASSUME NEW id \in Nat
      PROVE  ResultFact(id) \in PlainFact
  BY DEF ResultFact, PlainFact, Fact, Roles, Instruction
<1> QED BY <1>1, <1>2, <1>3, <1>4

LEMMA PieceFields ==
    /\ \A t \in Piece : t[1] \in Tags /\ t[2] \in Nat
    /\ \A t \in PlainPiece : t[1] \in Tags \ {"s"} /\ t[2] \in Nat
    /\ PlainPiece \subseteq Piece
BY DEF Piece, PlainPiece, Tags

LEMMA Speakers ==
    /\ PlainFact \subseteq Fact /\ \A who : PlainFact \subseteq FactOf(who)
    /\ \A who : FactOf(who) \subseteq Fact
BY DEF PlainFact, FactOf

LEMMA TextFType ==
    ASSUME NEW who \in Roles
    PROVE  /\ Lists(TextF(who), Piece, FactOf(who)) /\ Lists(TextF(who), Piece, Fact)
           /\ Lists([t \in PlainPiece |-> TextF(who)[t]], PlainPiece, PlainFact)
<1>1. ASSUME NEW t \in Piece
      PROVE  IsList(<<<<who, "text", t[1], t[2]>>>>, FactOf(who))
  <2>1. <<who, "text", t[1], t[2]>> \in FactOf(who)
    BY FactFields DEF FactOf
  <2> QED BY <2>1, ListFacts
<1>2. ASSUME NEW t \in PlainPiece
      PROVE  IsList(<<<<who, "text", t[1], t[2]>>>>, PlainFact)
  <2>1. <<who, "text", t[1], t[2]>> \in PlainFact
    BY FactFields, PieceFields DEF PlainFact, Instruction
  <2> QED BY <2>1, ListFacts
<1>3. Lists(TextF(who), Piece, FactOf(who))
  BY <1>1 DEF Lists, TextF, IsList
<1>4. Lists(TextF(who), Piece, Fact)
  <2>1. \A t \in Piece : IsList(<<<<who, "text", t[1], t[2]>>>>, Fact)
    BY <1>1, Wider, Speakers
  <2> QED BY <2>1 DEF Lists, TextF, IsList
<1>5. Lists([t \in PlainPiece |-> TextF(who)[t]], PlainPiece, PlainFact)
  <2>1. \A t \in PlainPiece : IsList(TextF(who)[t], PlainFact)
    BY <1>2, PieceFields DEF TextF
  <2> QED BY <2>1 DEF Lists, IsList
<1> QED BY <1>3, <1>4, <1>5

LEMMA TextFactsFlat ==
    ASSUME NEW who, NEW text, IsList(text, Piece)
    PROVE  TextFacts(who, text) = Flat(TextF(who), text)
<1> DEFINE f == [t \in Piece |-> <<who, "text", t[1], t[2]>>]
           Y == {f[t] : t \in Piece}
<1>1. Maps(f, Piece, Y)
  BY DEF Maps
<1>2. \A t \in Piece : TextF(who)[t] = <<f[t]>>
  BY DEF TextF
<1>3. Image(f, text) = TextFacts(who, text)
  BY Listed DEF Image, TextFacts, Map
<1> HIDE DEF f, Y
<1>4. Flat(TextF(who), text) = Image(f, text)
  BY <1>1, <1>2, FlatSingles
<1> QED BY <1>3, <1>4

LEMMA TextFactsType ==
    ASSUME NEW who \in Roles, NEW text
    PROVE  /\ IsList(text, Piece) => IsList(TextFacts(who, text), FactOf(who))
           /\ IsList(text, PlainPiece) => IsList(TextFacts(who, text), PlainFact)
<1>1. ASSUME IsList(text, Piece)
      PROVE  IsList(TextFacts(who, text), FactOf(who))
  <2>1. Lists(TextF(who), Piece, FactOf(who))
    BY TextFType
  <2>2. IsList(Flat(TextF(who), text), FactOf(who))
    BY <1>1, <2>1, FlatType
  <2> QED BY <1>1, <2>2, TextFactsFlat
<1>2. ASSUME IsList(text, PlainPiece)
      PROVE  IsList(TextFacts(who, text), PlainFact)
  <2> DEFINE g == [t \in PlainPiece |-> TextF(who)[t]]
  <2>1. IsList(Flat(g, text), PlainFact)
    <3> HIDE DEF g
    <3>1. Lists(g, PlainPiece, PlainFact)
      BY TextFType DEF g
    <3> QED BY <1>2, <3>1, FlatType
  <2>2. \A t \in PlainPiece : TextF(who)[t] = g[t]
    OBVIOUS
  <2>3. Flat(g, text) = Flat(TextF(who), text)
    <3> HIDE DEF g
    <3> QED BY <1>2, <2>2, FlatSame
  <2>4. IsList(text, Piece)
    BY <1>2, PieceFields, Wider
  <2> QED BY <2>1, <2>3, <2>4, TextFactsFlat
<1> QED BY <1>1, <1>2

LEMMA TextFactsConcat ==
    ASSUME NEW who \in Roles, NEW s, NEW t, IsList(s, Piece), IsList(t, Piece)
    PROVE  TextFacts(who, s \o t) = TextFacts(who, s) \o TextFacts(who, t)
<1>1. IsList(s \o t, Piece)
  BY ListFacts
<1>2. Flat(TextF(who), s \o t) = Flat(TextF(who), s) \o Flat(TextF(who), t)
  <2>1. Lists(TextF(who), Piece, Fact)
    BY TextFType
  <2> QED BY <2>1, FlatConcat
<1> QED BY <1>1, <1>2, TextFactsFlat

LEMMA PartFType ==
    ASSUME NEW who \in Roles
    PROVE  /\ Lists(PartF(who), PartsOf(Piece), FactOf(who))
           /\ Lists(PartF(who), PartsOf(Piece), Fact)
           /\ Lists([p \in PartsOf(PlainPiece) |-> PartF(who)[p]], PartsOf(PlainPiece), PlainFact)
           /\ PartsOf(PlainPiece) \subseteq PartsOf(Piece)
<1>1. ASSUME NEW p \in PartsOf(Piece)
      PROVE  IsList(IRPartFacts(who, p), FactOf(who))
  <2>1. CASE p.type = "text" /\ IsList(p.text, Piece)
    BY <2>1, TextFactsType DEF IRPartFacts
  <2>2. CASE p.type = "image" /\ p.url \in Url
    <3>1. ImageFact(who, p.url) \in FactOf(who)
      BY <2>2, FactFields, Speakers
    <3>2. IsList(<<ImageFact(who, p.url)>>, FactOf(who))
      BY <3>1, ListFacts
    <3> QED BY <2>2, <3>2 DEF IRPartFacts
  <2>3. CASE p.type = "file"
    BY <2>3, ListFacts DEF IRPartFacts
  <2> QED BY <2>1, <2>2, <2>3, PartCases
<1>2. ASSUME NEW p \in PartsOf(PlainPiece)
      PROVE  IsList(IRPartFacts(who, p), PlainFact)
  <2>1. CASE p.type = "text" /\ IsList(p.text, PlainPiece)
    BY <2>1, TextFactsType DEF IRPartFacts
  <2>2. CASE p.type = "image" /\ p.url \in Url
    <3>1. ImageFact(who, p.url) \in PlainFact
      BY <2>2, FactFields
    <3>2. IsList(<<ImageFact(who, p.url)>>, PlainFact)
      BY <3>1, ListFacts
    <3> QED BY <2>2, <3>2 DEF IRPartFacts
  <2>3. CASE p.type = "file"
    BY <2>3, ListFacts DEF IRPartFacts
  <2> QED BY <2>1, <2>2, <2>3, PartCases
<1>3. PartsOf(PlainPiece) \subseteq PartsOf(Piece)
  <2>1. Seq(PlainPiece) \subseteq Seq(Piece)
    BY PieceFields, Wider DEF IsList
  <2> QED BY <2>1 DEF PartsOf
<1>4. Lists(PartF(who), PartsOf(Piece), FactOf(who))
  BY <1>1 DEF Lists, IsList, PartF
<1>5. Lists(PartF(who), PartsOf(Piece), Fact)
  <2>1. \A p \in PartsOf(Piece) : IsList(IRPartFacts(who, p), Fact)
    BY <1>1, Wider, Speakers
  <2> QED BY <2>1 DEF Lists, IsList, PartF
<1>6. Lists([p \in PartsOf(PlainPiece) |-> PartF(who)[p]], PartsOf(PlainPiece), PlainFact)
  <2>1. \A p \in PartsOf(PlainPiece) : IsList(PartF(who)[p], PlainFact)
    BY <1>2, <1>3 DEF PartF
  <2> QED BY <2>1 DEF Lists, IsList
<1> QED BY <1>3, <1>4, <1>5, <1>6

LEMMA CallFType == Lists(CallF, Call, PlainFact) /\ Lists(CallF, Call, Fact)
<1>1. \A c \in Call : IsList(<<CallFact(c.id, c.args)>>, PlainFact)
  <2>1. \A c \in Call : CallFact(c.id, c.args) \in PlainFact
    BY FactFields
  <2> QED BY <2>1, ListFacts
<1>2. \A c \in Call : IsList(<<CallFact(c.id, c.args)>>, Fact)
  BY <1>1, Wider, Speakers
<1> QED BY <1>1, <1>2 DEF Lists, IsList, CallF

LEMMA ContentType ==
    ASSUME NEW who \in Roles, NEW c
    PROVE  /\ IsList(c, PartsOf(Piece)) =>
                /\ IsList(Flat(PartF(who), c), FactOf(who))
                /\ IsList(Flat(PartF(who), c), Fact)
           /\ IsList(c, PartsOf(PlainPiece)) =>
                /\ IsList(c, PartsOf(Piece))
                /\ IsList(Flat(PartF(who), c), PlainFact)
<1>1. ASSUME IsList(c, PartsOf(Piece))
      PROVE  IsList(Flat(PartF(who), c), FactOf(who)) /\ IsList(Flat(PartF(who), c), Fact)
  <2>1. Lists(PartF(who), PartsOf(Piece), FactOf(who)) /\ Lists(PartF(who), PartsOf(Piece), Fact)
    BY PartFType
  <2> QED BY <1>1, <2>1, FlatType
<1>2. ASSUME IsList(c, PartsOf(PlainPiece))
      PROVE  IsList(c, PartsOf(Piece)) /\ IsList(Flat(PartF(who), c), PlainFact)
  <2> DEFINE g == [p \in PartsOf(PlainPiece) |-> PartF(who)[p]]
  <2>1. IsList(Flat(g, c), PlainFact)
    <3> HIDE DEF g
    <3>1. Lists(g, PartsOf(PlainPiece), PlainFact)
      BY PartFType DEF g
    <3> QED BY <1>2, <3>1, FlatType
  <2>2. \A p \in PartsOf(PlainPiece) : PartF(who)[p] = g[p]
    OBVIOUS
  <2>3. Flat(g, c) = Flat(PartF(who), c)
    <3> HIDE DEF g
    <3> QED BY <1>2, <2>2, FlatSame
  <2>4. IsList(c, PartsOf(Piece))
    BY <1>2, PartFType, Wider
  <2> QED BY <2>1, <2>3, <2>4
<1> QED BY <1>1, <1>2

\* What the messages of IR look like.
LEMMA MessageShape ==
    /\ \A m \in SystemMsg : \E n \in Nat :
          m = Message("system", <<TextPart(<<<<"s", n>>>>)>>, <<>>, NoId)
    /\ \A m \in ToolMsg : \E n \in Nat :
          m = Message("tool", <<TextPart(<<<<"r", n>>>>)>>, <<>>, n)
    /\ \A P : \A m \in UserMsg(P) :
          /\ m.role = "user" /\ IsList(m.content, PartsOf(P))
          /\ m.calls = <<>> /\ m.call_id = NoId
    /\ \A m \in AssistantMsg :
          /\ m.role = "assistant" /\ IsList(m.content, PartsOf(PlainPiece))
          /\ IsList(m.calls, Call) /\ m.call_id = NoId
BY DEF SystemMsg, ToolMsg, UserMsg, AssistantMsg, IsList

LEMMA ResultFactsType ==
    ASSUME NEW who, NEW id \in Nat
    PROVE  /\ IsList(Opt(who = "tool", ResultFact(id)), PlainFact)
           /\ who # "tool" => Opt(who = "tool", ResultFact(id)) = <<>>
<1>1. ResultFact(id) \in PlainFact
  BY FactFields
<1>2. IsList(<<ResultFact(id)>>, PlainFact) /\ IsList(<<>>, PlainFact)
  BY <1>1, ListFacts
<1> QED BY <1>2 DEF Opt

LEMMA FactsOfParts ==
    ASSUME NEW m, m.role \in Roles, m.call_id \in Nat, IsList(m.calls, Call), NEW X,
           PlainFact \subseteq X, IsList(Flat(PartF(m.role), m.content), X)
    PROVE  IsList(IRFacts(m), X)
<1>1. IsList(Opt(m.role = "tool", ResultFact(m.call_id)), X)
  BY ResultFactsType, Wider
<1>2. IsList(Flat(CallF, m.calls), X)
  <2>1. IsList(Flat(CallF, m.calls), PlainFact)
    BY CallFType, FlatType
  <2> QED BY <2>1, Wider
<1>3. IsList(Opt(m.role = "tool", ResultFact(m.call_id)) \o Flat(PartF(m.role), m.content), X)
  BY <1>1, ListFacts
<1> DEFINE before == Opt(m.role = "tool", ResultFact(m.call_id)) \o Flat(PartF(m.role), m.content)
           after == Flat(CallF, m.calls)
<1>4. IRFacts(m) = before \o after
  BY DEF IRFacts
<1> HIDE DEF before, after
<1>5. IsList(before \o after, X)
  <2>1. IsList(before, X) /\ IsList(after, X)
    BY <1>2, <1>3 DEF before, after
  <2> QED BY <2>1, ListFacts
<1> QED BY <1>4, <1>5

LEMMA NoIdNat == NoId \in Nat /\ IsList(<<>>, Call) /\ Roles = {"system", "user", "assistant", "tool"}
BY ListFacts DEF NoId, Roles

LEMMA SingleText ==
    ASSUME NEW who \in Roles, NEW text, IsList(text, Piece)
    PROVE  /\ IsList(<<TextPart(text)>>, PartsOf(Piece))
           /\ Flat(PartF(who), <<TextPart(text)>>) = TextFacts(who, text)
           /\ TextPart(text) \in PartsOf(Piece)
<1>1. TextPart(text) \in PartsOf(Piece)
  BY DEF PartsOf, TextPart, IsList
<1>2. IsList(<<TextPart(text)>>, PartsOf(Piece))
  BY <1>1, ListFacts
<1>3. Flat(PartF(who), <<TextPart(text)>>) = PartF(who)[TextPart(text)]
  BY FlatOne
<1>4. PartF(who)[TextPart(text)] = TextFacts(who, text)
  BY <1>1 DEF PartF, IRPartFacts, TextPart
<1> QED BY <1>1, <1>2, <1>3, <1>4

LEMMA SinglePieces ==
    ASSUME NEW n \in Nat
    PROVE  /\ IsList(<<<<"s", n>>>>, Piece)
           /\ \A x \in {"u", "r", "a"} : IsList(<<<<x, n>>>>, PlainPiece) /\ IsList(<<<<x, n>>>>, Piece)
<1>1. <<"s", n>> \in Piece /\ \A x \in {"u", "r", "a"} : <<x, n>> \in PlainPiece /\ <<x, n>> \in Piece
  BY DEF Piece, PlainPiece, Tags
<1> QED BY <1>1, ListFacts

LEMMA SingleFacts ==
    ASSUME NEW who, NEW x, NEW n
    PROVE  TextFacts(who, <<<<x, n>>>>) = <<<<who, "text", x, n>>>>
BY DEF TextFacts, Map

LEMMA SystemFacts ==
    ASSUME NEW n \in Nat
    PROVE  IRFacts(Message("system", <<TextPart(<<<<"s", n>>>>)>>, <<>>, NoId))
             = <<<<"system", "text", "s", n>>>>
<1> DEFINE m == Message("system", <<TextPart(<<<<"s", n>>>>)>>, <<>>, NoId)
           t == <<<<"s", n>>>>
<1>1. m.role = "system" /\ m.content = <<TextPart(t)>> /\ m.calls = <<>> /\ m.call_id = NoId
  BY DEF Message
<1>2. IsList(t, Piece) /\ TextFacts("system", t) = <<<<"system", "text", "s", n>>>>
  BY SinglePieces, SingleFacts
<1> HIDE DEF m, t
<1>3. Flat(PartF("system"), <<TextPart(t)>>) = TextFacts("system", t)
  BY <1>2, NoIdNat, SingleText
<1>4. IRFacts(m) = (<<>> \o TextFacts("system", t)) \o <<>>
  BY <1>1, <1>3, NoIdNat, ResultFactsType, FlatEmpty DEF IRFacts
<1>5. IsList(TextFacts("system", t), FactOf("system"))
  BY <1>2, NoIdNat, TextFactsType
<1>6. IRFacts(m) = TextFacts("system", t)
  BY <1>4, <1>5, ListFacts
<1> QED BY <1>2, <1>6 DEF m, t

LEMMA IRFactsType ==
    /\ \A m \in SystemMsg : IsList(IRFacts(m), FactOf("system"))
    /\ \A m \in Plain : IsList(IRFacts(m), PlainFact)
    /\ \A m \in UserMsg(Piece) : IsList(IRFacts(m), FactOf("user"))
    /\ \A m \in IR : IsList(IRFacts(m), Fact)
<1>1. ASSUME NEW m \in SystemMsg
      PROVE  IsList(IRFacts(m), FactOf("system"))
  <2>1. PICK n \in Nat : m = Message("system", <<TextPart(<<<<"s", n>>>>)>>, <<>>, NoId)
    BY MessageShape
  <2>2. <<"system", "text", "s", n>> \in FactOf("system")
    BY DEF FactOf, Fact, Roles, Tags
  <2>3. IsList(<<<<"system", "text", "s", n>>>>, FactOf("system"))
    BY <2>2, ListFacts
  <2> QED BY <2>1, <2>3, SystemFacts
<1>2. ASSUME NEW m \in ToolMsg
      PROVE  IsList(IRFacts(m), PlainFact)
  <2>1. PICK n \in Nat : m = Message("tool", <<TextPart(<<<<"r", n>>>>)>>, <<>>, n)
    BY MessageShape
  <2>2. PICK t : t = <<<<"r", n>>>>
    OBVIOUS
  <2>3. IsList(t, PlainPiece) /\ IsList(t, Piece)
    BY <2>2, SinglePieces
  <2>4. m.role = "tool" /\ m.content = <<TextPart(t)>> /\ m.calls = <<>> /\ m.call_id = n
    BY <2>1, <2>2 DEF Message
  <2>5. Flat(PartF("tool"), <<TextPart(t)>>) = TextFacts("tool", t)
    BY <2>3, NoIdNat, SingleText
  <2>6. IsList(TextFacts("tool", t), PlainFact)
    BY <2>3, NoIdNat, TextFactsType
  <2> QED BY <2>4, <2>5, <2>6, NoIdNat, FactsOfParts
<1>3. ASSUME NEW m \in UserMsg(PlainPiece) \cup AssistantMsg
      PROVE  IsList(IRFacts(m), PlainFact)
  <2>1. /\ m.role \in Roles /\ m.call_id \in Nat /\ IsList(m.calls, Call)
        /\ IsList(m.content, PartsOf(PlainPiece))
    BY MessageShape, NoIdNat
  <2>2. IsList(Flat(PartF(m.role), m.content), PlainFact)
    BY <2>1, ContentType
  <2> QED BY <2>1, <2>2, FactsOfParts
<1>4. ASSUME NEW m \in UserMsg(Piece)
      PROVE  IsList(IRFacts(m), FactOf("user"))
  <2>1. /\ m.role = "user" /\ "user" \in Roles /\ m.call_id \in Nat /\ IsList(m.calls, Call)
        /\ IsList(m.content, PartsOf(Piece))
    BY MessageShape, NoIdNat
  <2>2. IsList(Flat(PartF(m.role), m.content), FactOf("user"))
    BY <2>1, ContentType
  <2> QED BY <2>1, <2>2, Speakers, FactsOfParts
<1>5. \A m \in Plain : IsList(IRFacts(m), PlainFact)
  BY <1>2, <1>3 DEF Plain
<1>6. \A m \in IR : IsList(IRFacts(m), Fact)
  BY <1>1, <1>5, <1>4, Speakers, Wider DEF IR, Rest
<1> QED BY <1>1, <1>4, <1>5, <1>6

IRF == [m \in IR |-> IRFacts(m)]
OtherF == [f \in Fact |-> Opt(~Instruction(f), f)]
NumF == [f \in Fact |-> IF Instruction(f) THEN <<f[4]>> ELSE <<>>]

LEMMA IRFType ==
    /\ Lists(IRF, IR, Fact)
    /\ \A m \in IR : IRF[m] = IRFacts(m)
BY IRFactsType DEF IRF, Lists, IsList

LEMMA Messages ==
    /\ SystemMsg \subseteq Shaped /\ Plain \subseteq Shaped /\ Plain \subseteq Rest
    /\ Shaped \subseteq IR /\ Rest \subseteq IR /\ UserMsg(Piece) \subseteq Rest
    /\ Shaped = SystemMsg \cup Plain /\ Rest = Plain \cup UserMsg(Piece)
    /\ \A m \in SystemMsg : m.role = "system"
    /\ \A m \in Rest : m.role \in {"user", "assistant", "tool"}
<1>1. \A m \in SystemMsg : m.role = "system"
  <2> SUFFICES ASSUME NEW m \in SystemMsg PROVE m.role = "system"
    OBVIOUS
  <2>1. PICK n \in Nat : m = Message("system", <<TextPart(<<<<"s", n>>>>)>>, <<>>, NoId)
    BY MessageShape
  <2> QED BY <2>1 DEF Message
<1>2. \A m \in ToolMsg : m.role = "tool"
  <2> SUFFICES ASSUME NEW m \in ToolMsg PROVE m.role = "tool"
    OBVIOUS
  <2>1. PICK n \in Nat : m = Message("tool", <<TextPart(<<<<"r", n>>>>)>>, <<>>, n)
    BY MessageShape
  <2> QED BY <2>1 DEF Message
<1>3. \A m \in Rest : m.role \in {"user", "assistant", "tool"}
  BY <1>2, MessageShape DEF Rest, Plain
<1> QED BY <1>1, <1>3 DEF Shaped, IR, Rest

LEMMA OtherFType ==
    /\ Lists(OtherF, Fact, PlainFact) /\ Lists(OtherF, Fact, Fact)
    /\ Lists(NumF, Fact, Nat)
<1>1. ASSUME NEW f \in Fact
      PROVE  IsList(Opt(~Instruction(f), f), PlainFact)
  <2>1. CASE Instruction(f)
    BY <2>1, ListFacts DEF Opt
  <2>2. CASE ~Instruction(f)
    <3>1. IsList(<<f>>, PlainFact)
      BY <2>2, ListFacts DEF PlainFact
    <3> QED BY <2>2, <3>1 DEF Opt
  <2> QED BY <2>1, <2>2
<1>2. \A f \in Fact : IsList(Opt(~Instruction(f), f), Fact)
  BY <1>1, Wider, Speakers
<1>3. ASSUME NEW f \in Fact
      PROVE  IsList(IF Instruction(f) THEN <<f[4]>> ELSE <<>>, Nat)
  <2>1. f[4] \in Nat
    BY DEF Fact
  <2> QED BY <2>1, ListFacts
<1> QED BY <1>1, <1>2, <1>3 DEF Lists, IsList, OtherF, NumF

LEMMA OthersFlat ==
    ASSUME NEW s, IsList(s, Fact)
    PROVE  Others(s) = Flat(OtherF, s)
BY Listed DEF Others, Select, Map, Flat, Image, OtherF

LEMMA InstructionsFlat ==
    ASSUME NEW s, IsList(s, Fact)
    PROVE  Instructions(s) = Flat(NumF, s)
<1> DEFINE Ins == [f \in Fact |-> Opt(Instruction(f), f)]
           Four == [f \in Fact |-> f[4]]
           Ones == [f \in Fact |-> <<f[4]>>]
<1>1. Select(Instruction, s) = Flat(Ins, s)
  BY Listed DEF Select, Map, Flat, Image
<1>2. Lists(Ins, Fact, Fact)
  <2>1. ASSUME NEW f \in Fact
        PROVE  IsList(Opt(Instruction(f), f), Fact)
    BY ListFacts DEF Opt
  <2> QED BY <2>1 DEF Lists, IsList
<1>3. Maps(Four, Fact, Nat)
  <2>1. \A f \in Fact : f[4] \in Nat
    BY DEF Fact
  <2> QED BY <2>1 DEF Maps
<1>4. \A f \in Fact : Ones[f] = <<Four[f]>>
  OBVIOUS
<1>5. Lists(Ones, Fact, Nat)
  <2>1. ASSUME NEW f \in Fact
        PROVE  IsList(<<f[4]>>, Nat)
    <3>1. f[4] \in Nat
      BY DEF Fact
    <3> QED BY <3>1, ListFacts
  <2> QED BY <2>1 DEF Lists, IsList
<1>6. \A f \in Fact : NumF[f] = Flat(Ones, Ins[f])
  <2> SUFFICES ASSUME NEW f \in Fact
               PROVE  NumF[f] = Flat(Ones, Ins[f])
    OBVIOUS
  <2>1. Flat(Ones, <<f>>) = Ones[f] /\ Flat(Ones, <<>>) = <<>>
    BY FlatOne, FlatEmpty
  <2> QED BY <2>1 DEF NumF, Opt
<1>7. IsList(Flat(Ins, s), Fact)
  <2> HIDE DEF Ins
  <2> QED BY <1>2, FlatType
<1>8. Map(LAMBDA f : f[4], Flat(Ins, s)) = Image(Four, Flat(Ins, s))
  BY <1>7, Listed DEF Map, Image
<1> HIDE DEF Ins, Four, Ones
<1>9. Flat(Ones, Flat(Ins, s)) = Image(Four, Flat(Ins, s))
  BY <1>3, <1>4, <1>7, FlatSingles
<1>10. Flat(Ones, Flat(Ins, s)) = Flat(NumF, s)
  BY <1>2, <1>5, <1>6, FlatFlat
<1> QED BY <1>1, <1>8, <1>9, <1>10 DEF Instructions

LEMMA OthersPlain ==
    ASSUME NEW s, IsList(s, PlainFact)
    PROVE  IsList(s, Fact) /\ Flat(OtherF, s) = s /\ Flat(NumF, s) = <<>>
<1>1. \A f \in PlainFact : OtherF[f] = <<f>> /\ NumF[f] = <<>>
  BY DEF PlainFact, OtherF, NumF, Opt
<1>2. Flat(OtherF, s) = s
  BY <1>1, FlatAll
<1>3. Flat(NumF, s) = <<>>
  BY <1>1, FlatNone
<1> QED BY <1>2, <1>3, Speakers, Wider

LEMMA OthersText ==
    ASSUME NEW who \in Roles, NEW n \in Nat
    PROVE  /\ Flat(OtherF, <<<<who, "text", "s", n>>>>) = <<>>
           /\ Flat(NumF, <<<<who, "text", "s", n>>>>) = <<n>>
<1> DEFINE f == <<who, "text", "s", n>>
<1>1. f \in Fact
  BY DEF Fact, Tags
<1>2. OtherF[f] = <<>> /\ NumF[f] = <<n>>
  BY <1>1 DEF OtherF, NumF, Opt, Instruction
<1> HIDE DEF f
<1>3. Flat(OtherF, <<f>>) = OtherF[f] /\ Flat(NumF, <<f>>) = NumF[f]
  BY FlatOne
<1> QED BY <1>2, <1>3 DEF f

LEMMA IRShape ==
    ASSUME NEW m \in IR
    PROVE  /\ m.role \in Roles /\ m.call_id \in Nat
           /\ IsList(m.content, PartsOf(Piece)) /\ IsList(m.calls, Call)
<1>1. CASE m \in SystemMsg
  <2>1. PICK n \in Nat : m = Message("system", <<TextPart(<<<<"s", n>>>>)>>, <<>>, NoId)
    BY <1>1, MessageShape
  <2>2. IsList(<<TextPart(<<<<"s", n>>>>)>>, PartsOf(Piece))
    BY SinglePieces, NoIdNat, SingleText
  <2> QED BY <2>1, <2>2, NoIdNat DEF Message
<1>2. CASE m \in ToolMsg
  <2>1. PICK n \in Nat : m = Message("tool", <<TextPart(<<<<"r", n>>>>)>>, <<>>, n)
    BY <1>2, MessageShape
  <2>2. IsList(<<TextPart(<<<<"r", n>>>>)>>, PartsOf(Piece))
    BY SinglePieces, NoIdNat, SingleText
  <2> QED BY <2>1, <2>2, NoIdNat DEF Message
<1>3. CASE m \in UserMsg(PlainPiece) \cup AssistantMsg
  <2>1. IsList(m.content, PartsOf(PlainPiece))
    BY <1>3, MessageShape
  <2>2. IsList(m.content, PartsOf(Piece))
    BY <2>1, NoIdNat, ContentType
  <2> QED BY <1>3, <2>2, MessageShape, NoIdNat
<1>4. CASE m \in UserMsg(Piece)
  BY <1>4, MessageShape, NoIdNat
<1> QED BY <1>1, <1>2, <1>3, <1>4 DEF IR, Rest, Plain

LEMMA CallsFlat ==
    ASSUME NEW s, IsList(s, Call)
    PROVE  Map(LAMBDA c : CallFact(c.id, c.args), s) = Flat(CallF, s)
<1> DEFINE f == [c \in Call |-> CallFact(c.id, c.args)]
<1>1. Maps(f, Call, PlainFact)
  BY FactFields DEF Maps
<1>2. \A c \in Call : CallF[c] = <<f[c]>>
  BY DEF CallF
<1>3. Map(LAMBDA c : CallFact(c.id, c.args), s) = Image(f, s)
  BY Listed DEF Map, Image
<1> HIDE DEF f
<1> QED BY <1>1, <1>2, <1>3, FlatSingles

\* An OpenAI content says what the content of IR says.
LEMMA OpenAIContent ==
    ASSUME NEW who \in Roles, NEW content, IsList(content, PartsOf(Piece))
    PROVE  ContentFacts(who, ContentPartsToAny(content)) = Flat(PartF(who), content)
<1> DEFINE conv(p) == IF p.type = "image"
                      THEN [type |-> "image_url", image_url |-> p.url] ELSE p
<1>1. ASSUME NEW p \in PartsOf(Piece)
      PROVE  PartFacts(who, conv(p)) = PartF(who)[p]
  <2>1. CASE p.type = "text"
    BY <2>1 DEF PartFacts, PartF, IRPartFacts
  <2>2. CASE p.type = "image"
    BY <2>2 DEF PartFacts, PartF, IRPartFacts
  <2>3. CASE p.type = "file"
    BY <2>3 DEF PartFacts, PartF, IRPartFacts
  <2> QED BY <2>1, <2>2, <2>3, PartCases
<1>2. ContentPartsToAny(content) = [i \in DOMAIN content |-> conv(content[i])]
  BY DEF ContentPartsToAny, Map
<1>3. \A i \in DOMAIN content : PartFacts(who, conv(content[i])) = PartF(who)[content[i]]
  BY <1>1, Listed
<1> HIDE DEF conv
<1>4. Map(LAMBDA p : PartFacts(who, p), ContentPartsToAny(content)) = Image(PartF(who), content)
  BY <1>2, <1>3 DEF Map, Image
<1> QED BY <1>4 DEF ContentFacts, Flat

LEMMA OpenAIFacts ==
    ASSUME NEW m \in IR
    PROVE  Facts("openai", MessageOutToOpenAI(m)) = IRFacts(m)
<1>1. /\ m.role \in Roles /\ IsList(m.content, PartsOf(Piece)) /\ IsList(m.calls, Call)
  BY IRShape
<1>2. ContentFacts(m.role, ContentPartsToAny(m.content)) = Flat(PartF(m.role), m.content)
  BY <1>1, OpenAIContent
<1>3. Map(LAMBDA c : CallFact(c.id, c.args), m.calls) = Flat(CallF, m.calls)
  BY <1>1, CallsFlat
<1> DEFINE o == MessageOutToOpenAI(m)
<1>4. /\ o.role = m.role /\ o.content = ContentPartsToAny(m.content)
      /\ o.tool_calls = m.calls /\ o.tool_call_id = m.call_id
  BY DEF MessageOutToOpenAI, OpenAIMessage
<1> HIDE DEF o
<1>5. Facts("openai", o) =
        (Opt(m.role = "tool", ResultFact(m.call_id)) \o Flat(PartF(m.role), m.content))
          \o Flat(CallF, m.calls)
  BY <1>2, <1>3, <1>4 DEF Facts
<1> QED BY <1>5 DEF IRFacts, o

LEMMA StoryType ==
    ASSUME NEW S, IsList(S, IR)
    PROVE  IsList(Flat(IRF, S), Fact)
BY IRFType, FlatType

LEMMA ToldOpenAI ==
    ASSUME NEW S, IsList(S, IR), NEW c
    PROVE  Told("openai", SerializeOpenAIChatRequest(S, c)) = Flat(IRF, S)
<1>1. \A i \in DOMAIN S : Facts("openai", MessageOutToOpenAI(S[i])) = IRF[S[i]]
  BY OpenAIFacts, IRFType, Listed
<1>2. Map(MessageOutToOpenAI, S) = [i \in DOMAIN S |-> MessageOutToOpenAI(S[i])]
  BY DEF Map
<1>3. Map(LAMBDA m : Facts("openai", m), Map(MessageOutToOpenAI, S)) = Image(IRF, S)
  BY <1>1, <1>2 DEF Map, Image
<1>4. TextFacts("system", <<>>) = <<>>
  <2>1. DOMAIN <<>> = {}
    OBVIOUS
  <2> QED BY <2>1 DEF TextFacts, Map
<1> DEFINE r == SerializeOpenAIChatRequest(S, c)
<1>5. r.system = <<>> /\ r.messages = Map(MessageOutToOpenAI, S)
  BY DEF SerializeOpenAIChatRequest
<1> HIDE DEF r
<1>6. Told("openai", r) = <<>> \o Flat(IRF, S)
  BY <1>3, <1>4, <1>5 DEF Told, Flat
<1> QED BY <1>6, StoryType, ListFacts DEF r

-----------------------------------------------------------------------------
(* The OpenAI and Anthropic requests of an upstream.                       *)

Says(who, X) == \A x \in X : IsList(PartFacts(who, x), Fact)

LEMMA ContentConcat ==
    ASSUME NEW who, NEW X, Says(who, X),
           NEW a, NEW b, IsList(a, X), IsList(b, X)
    PROVE  ContentFacts(who, a \o b) = ContentFacts(who, a) \o ContentFacts(who, b)
<1> DEFINE f == [x \in X |-> PartFacts(who, x)]
<1>1. Lists(f, X, Fact)
  BY DEF Lists, IsList, Says
<1>2. \A s : IsList(s, X) => ContentFacts(who, s) = Flat(f, s)
  BY Listed DEF ContentFacts, Map, Flat, Image
<1> HIDE DEF f
<1>3. Flat(f, a \o b) = Flat(f, a) \o Flat(f, b)
  BY <1>1, FlatConcat
<1>4. IsList(a \o b, X)
  BY ListFacts
<1> QED BY <1>2, <1>3, <1>4

LEMMA ContentOne ==
    ASSUME NEW who, NEW p
    PROVE  ContentFacts(who, <<p>>) = PartFacts(who, p)
<1>1. Map(LAMBDA q : PartFacts(who, q), <<p>>) = <<PartFacts(who, p)>>
  BY DEF Map
<1> QED BY <1>1, FlattenOne DEF ContentFacts

LEMMA ContentNone == ASSUME NEW who PROVE ContentFacts(who, <<>>) = <<>>
<1>1. Map(LAMBDA q : PartFacts(who, q), <<>>) = <<>>
  <2>1. DOMAIN <<>> = {}
    OBVIOUS
  <2> QED BY <2>1 DEF Map
<1> QED BY <1>1, FlattenEmpty DEF ContentFacts

LEMMA UrlRound ==
    ASSUME NEW url \in Url
    PROVE  ImageToDataURL(ImageSource(url)) = url
BY DEF Url, ImageToDataURL, ImageSource

AnthropicPart(p) ==
    IF p.type = "image" THEN [type |-> "image", source |-> ImageSource(p.url)] ELSE p
AnthropicCall(c) == ToolUse(c.id, Input(c.args))
Blocks == {AnthropicPart(p) : p \in PartsOf(Piece)} \cup {AnthropicCall(c) : c \in Call}

LEMMA InputTwice == \A a : Input(Input(a)) = Input(a)
BY DEF Input

LEMMA BlockFacts ==
    ASSUME NEW who \in Roles
    PROVE  /\ \A p \in PartsOf(Piece) : PartFacts(who, AnthropicPart(p)) = PartF(who)[p]
           /\ \A c \in Call : PartFacts(who, AnthropicCall(c)) = CallF[c]
           /\ Says(who, Blocks)
<1>1. ASSUME NEW p \in PartsOf(Piece)
      PROVE  PartFacts(who, AnthropicPart(p)) = PartF(who)[p]
  <2>1. CASE p.type = "text"
    BY <2>1 DEF PartFacts, PartF, IRPartFacts, AnthropicPart
  <2>2. CASE p.type = "image" /\ p.url \in Url
    <3> DEFINE b == AnthropicPart(p)
    <3>1. b.type = "image" /\ ImageToDataURL(b.source) = p.url
      BY <2>2, UrlRound DEF AnthropicPart
    <3> HIDE DEF b
    <3>2. PartFacts(who, b) = <<ImageFact(who, p.url)>>
      BY <3>1 DEF PartFacts
    <3> QED BY <2>2, <3>2 DEF PartF, IRPartFacts, b
  <2>3. CASE p.type = "file"
    BY <2>3 DEF PartFacts, PartF, IRPartFacts, AnthropicPart
  <2> QED BY <2>1, <2>2, <2>3, PartCases
<1>2. ASSUME NEW c \in Call
      PROVE  PartFacts(who, AnthropicCall(c)) = CallF[c]
  <2> DEFINE b == AnthropicCall(c)
  <2>1. b.type = "tool_use" /\ b.id = c.id /\ b.input = Input(c.args)
    BY DEF AnthropicCall, ToolUse
  <2> HIDE DEF b
  <2>2. PartFacts(who, b) = <<CallFact(c.id, Input(c.args))>>
    BY <2>1 DEF PartFacts
  <2>3. CallFact(c.id, Input(c.args)) = CallFact(c.id, c.args)
    BY InputTwice DEF CallFact
  <2> QED BY <2>2, <2>3 DEF b, CallF
<1>3. \A p \in PartsOf(Piece) : IsList(PartF(who)[p], Fact)
  BY PartFType DEF Lists, IsList
<1>4. \A c \in Call : IsList(CallF[c], Fact)
  BY CallFType DEF Lists, IsList
<1> QED BY <1>1, <1>2, <1>3, <1>4 DEF Blocks, Says

LEMMA AnthropicParts ==
    ASSUME NEW who \in Roles, NEW content, IsList(content, PartsOf(Piece)),
           NEW calls, IsList(calls, Call)
    PROVE  /\ IsList(Map(AnthropicPart, content), Blocks)
           /\ IsList(Map(AnthropicCall, calls), Blocks)
           /\ ContentFacts(who, Map(AnthropicPart, content)) = Flat(PartF(who), content)
           /\ ContentFacts(who, Map(AnthropicCall, calls)) = Flat(CallF, calls)
<1>1. IsList(Map(AnthropicPart, content), Blocks)
  BY Listed DEF IsList, Map, Blocks
<1>2. IsList(Map(AnthropicCall, calls), Blocks)
  BY Listed DEF IsList, Map, Blocks
<1>3. Map(LAMBDA p : PartFacts(who, p), Map(AnthropicPart, content)) = Image(PartF(who), content)
  <2>1. \A i \in DOMAIN content : PartFacts(who, AnthropicPart(content[i])) = PartF(who)[content[i]]
    BY BlockFacts, Listed
  <2> QED BY <2>1 DEF Map, Image
<1>4. Map(LAMBDA p : PartFacts(who, p), Map(AnthropicCall, calls)) = Image(CallF, calls)
  <2>1. \A i \in DOMAIN calls : PartFacts(who, AnthropicCall(calls[i])) = CallF[calls[i]]
    BY BlockFacts, Listed
  <2> QED BY <2>1 DEF Map, Image
<1> QED BY <1>1, <1>2, <1>3, <1>4 DEF ContentFacts, Flat

LEMMA AnthropicFacts ==
    ASSUME NEW m \in Rest
    PROVE  Facts("anthropic", [role |-> m.role, content |-> AnthropicContent(m)]) = IRFacts(m)
<1>0. Facts("anthropic", [role |-> m.role, content |-> AnthropicContent(m)])
        = ContentFacts(m.role, AnthropicContent(m))
  BY DEF Facts
<1>1. CASE m \in ToolMsg
  <2>1. PICK n \in Nat : m = Message("tool", <<TextPart(<<<<"r", n>>>>)>>, <<>>, n)
    BY <1>1, MessageShape
  <2>2. PICK t : t = <<<<"r", n>>>>
    OBVIOUS
  <2>3. IsList(t, Piece)
    BY <2>2, SinglePieces
  <2>4. m.role = "tool" /\ m.content = <<TextPart(t)>> /\ m.calls = <<>> /\ m.call_id = n
    BY <2>1, <2>2 DEF Message
  <2>5. AnthropicContent(m) = <<ToolResult(n, t)>>
    <3>1. m.content # <<>> /\ m.content[1].type = "text" /\ m.content[1].text = t
      BY <2>4 DEF TextPart
    <3> QED BY <3>1, <2>4 DEF AnthropicContent
  <2>6. PartFacts("tool", ToolResult(n, t)) = <<ResultFact(n)>> \o TextFacts("tool", t)
    <3> DEFINE b == ToolResult(n, t)
    <3>1. b.type = "tool_result" /\ b.id = n /\ b.text = t
      BY DEF ToolResult
    <3> HIDE DEF b
    <3>2. PartFacts("tool", b) = <<ResultFact(n)>> \o TextFacts("tool", t)
      BY <3>1 DEF PartFacts
    <3> QED BY <3>2 DEF b
  <2>7. Flat(PartF("tool"), <<TextPart(t)>>) = TextFacts("tool", t)
    BY <2>3, NoIdNat, SingleText
  <2>8. IRFacts(m) = (<<ResultFact(n)>> \o TextFacts("tool", t)) \o <<>>
    BY <2>4, <2>7, FlatEmpty DEF IRFacts, Opt
  <2>9. IsList(<<ResultFact(n)>> \o TextFacts("tool", t), Fact)
    <3>1. IsList(<<ResultFact(n)>>, Fact)
      BY FactFields, Speakers, ListFacts
    <3>2. IsList(TextFacts("tool", t), Fact)
      <4>1. IsList(TextFacts("tool", t), FactOf("tool"))
        BY <2>3, NoIdNat, TextFactsType
      <4> QED BY <4>1, Speakers, Wider
    <3> QED BY <3>1, <3>2, ListFacts
  <2>10. IRFacts(m) = <<ResultFact(n)>> \o TextFacts("tool", t)
    <3>1. PICK f : f = <<ResultFact(n)>> \o TextFacts("tool", t)
      OBVIOUS
    <3>2. f \o <<>> = f
      BY <2>9, <3>1, ListFacts
    <3> QED BY <2>8, <3>1, <3>2
  <2>11. ContentFacts("tool", AnthropicContent(m)) = PartFacts("tool", ToolResult(n, t))
    BY <2>5, ContentOne
  <2> QED BY <1>0, <2>4, <2>6, <2>10, <2>11
<1>2. CASE m \in UserMsg(Piece) \cup UserMsg(PlainPiece) \cup AssistantMsg
  <2>1. m.role # "tool" /\ m \in IR
    BY <1>2, MessageShape, Messages
  <2>2. /\ m.role \in Roles /\ m.call_id \in Nat
        /\ IsList(m.content, PartsOf(Piece)) /\ IsList(m.calls, Call)
    BY <2>1, IRShape
  <2>3. AnthropicContent(m) = Map(AnthropicPart, m.content) \o Map(AnthropicCall, m.calls)
    BY <2>1 DEF AnthropicContent, AnthropicPart, AnthropicCall, Map
  <2> DEFINE A == Map(AnthropicPart, m.content)  B == Map(AnthropicCall, m.calls)
  <2>4. /\ IsList(A, Blocks) /\ IsList(B, Blocks)
        /\ ContentFacts(m.role, A) = Flat(PartF(m.role), m.content)
        /\ ContentFacts(m.role, B) = Flat(CallF, m.calls)
    BY <2>2, AnthropicParts
  <2> HIDE DEF A, B
  <2>5. ContentFacts(m.role, A \o B) = ContentFacts(m.role, A) \o ContentFacts(m.role, B)
    <3>1. Says(m.role, Blocks)
      BY <2>2, BlockFacts
    <3> QED BY <3>1, <2>4, ContentConcat
  <2>6. Opt(m.role = "tool", ResultFact(m.call_id)) \o Flat(PartF(m.role), m.content)
          = Flat(PartF(m.role), m.content)
    <3>1. IsList(Flat(PartF(m.role), m.content), Fact)
      BY <2>2, ContentType
    <3>2. Opt(m.role = "tool", ResultFact(m.call_id)) = <<>>
      BY <2>1 DEF Opt
    <3>3. <<>> \o Flat(PartF(m.role), m.content) = Flat(PartF(m.role), m.content)
      BY <3>1, ListFacts
    <3> QED BY <3>2, <3>3
  <2> QED BY <1>0, <2>3, <2>4, <2>5, <2>6 DEF IRFacts, A, B
<1> QED BY <1>1, <1>2 DEF Rest, Plain

-----------------------------------------------------------------------------
(* System texts, taken out and joined.                                     *)

SysF == [m \in IR |-> Opt(m.role = "system", m)]
NonF == [m \in IR |-> Opt(m.role # "system", m)]
TextOfF == [m \in SystemMsg |-> TextOf(m)]
PrefixF == [m \in IR |-> IF m \in SystemMsg THEN TextOf(m) ELSE <<>>]
Prefix(S) == Flat(PrefixF, S)

\* The instructions of a message, said by who; and the rest of what it says.
SpokenF(who) ==
    [m \in IR |-> IF m \in SystemMsg THEN TextFacts(who, TextOf(m)) ELSE <<>>]
OtherM == [m \in IR |-> IF m \in SystemMsg THEN <<>> ELSE IRF[m]]
NumM == [m \in IR |-> Flat(NumF, IRF[m])]

LEMMA SystemText ==
    ASSUME NEW m \in SystemMsg
    PROVE  \E n \in Nat :
             /\ TextOf(m) = <<<<"s", n>>>> /\ IRF[m] = <<<<"system", "text", "s", n>>>>
             /\ \A who : TextFacts(who, TextOf(m)) = <<<<who, "text", "s", n>>>>
<1>1. PICK n \in Nat : m = Message("system", <<TextPart(<<<<"s", n>>>>)>>, <<>>, NoId)
  BY MessageShape
<1>2. PICK p : p = TextPart(<<<<"s", n>>>>)
  OBVIOUS
<1>3. m.content = <<p>> /\ p.type = "text" /\ p.text = <<<<"s", n>>>>
  BY <1>1, <1>2 DEF Message, TextPart
<1>4. OfType({"text"}, <<p>>) = <<p>>
  <2>1. Map(LAMBDA b : Opt(b.type \in {"text"}, b), <<p>>) = <<<<p>>>>
    BY <1>3 DEF Map, Opt
  <2> QED BY <2>1, FlattenOne DEF OfType, Select
<1>5. Map(LAMBDA q : q.text, <<p>>) = <<p.text>>
  BY DEF Map
<1>6. TextOf(m) = <<<<"s", n>>>>
  BY <1>3, <1>4, <1>5, FlattenOne DEF TextOf
<1>7. IRF[m] = <<<<"system", "text", "s", n>>>>
  BY <1>1, SystemFacts, IRFType, Messages
<1> QED BY <1>6, <1>7, SingleFacts

LEMMA Systems ==
    \A m \in IR : m.role = "system" <=> m \in SystemMsg
BY Messages DEF IR

LEMMA SelectSystem ==
    ASSUME NEW S, IsList(S, IR)
    PROVE  /\ Select(LAMBDA m : m.role = "system", S) = Flat(SysF, S)
           /\ Select(LAMBDA m : m.role # "system", S) = Flat(NonF, S)
           /\ IsList(Flat(SysF, S), SystemMsg) /\ IsList(Flat(NonF, S), Rest)
<1>1. Select(LAMBDA m : m.role = "system", S) = Flat(SysF, S)
  BY Listed DEF Select, Map, Flat, Image, SysF
<1>2. Select(LAMBDA m : m.role # "system", S) = Flat(NonF, S)
  BY Listed DEF Select, Map, Flat, Image, NonF
<1>3. Gives(SysF, IR, SystemMsg)
  <2> SUFFICES ASSUME NEW m \in IR
               PROVE  IsList(Opt(m.role = "system", m), SystemMsg)
    BY DEF Gives, SysF
  <2>1. CASE m \in SystemMsg
    BY <2>1, Systems, ListFacts DEF Opt
  <2>2. CASE m \notin SystemMsg
    BY <2>2, Systems, ListFacts DEF Opt
  <2> QED BY <2>1, <2>2
<1>4. Gives(NonF, IR, Rest)
  <2> SUFFICES ASSUME NEW m \in IR
               PROVE  IsList(Opt(m.role # "system", m), Rest)
    BY DEF Gives, NonF
  <2>1. CASE m \in SystemMsg
    BY <2>1, Systems, ListFacts DEF Opt
  <2>2. CASE m \notin SystemMsg
    <3>1. IsList(<<m>>, Rest)
      BY <2>2, ListFacts DEF IR
    <3> QED BY <3>1, <2>2, Systems DEF Opt
  <2> QED BY <2>1, <2>2
<1> QED BY <1>1, <1>2, <1>3, <1>4, FlatGives

LEMMA PrefixGives == Gives(PrefixF, IR, Piece) /\ Gives(TextOfF, SystemMsg, Piece)
<1>1. \A m \in SystemMsg : IsList(TextOf(m), Piece)
  <2> SUFFICES ASSUME NEW m \in SystemMsg PROVE IsList(TextOf(m), Piece)
    OBVIOUS
  <2> QED BY SystemText, SinglePieces
<1> QED BY <1>1, ListFacts DEF Gives, PrefixF, TextOfF

LEMMA PrefixText ==
    ASSUME NEW S, IsList(S, IR)
    PROVE  /\ FlattenSeq(Map(TextOf, Select(LAMBDA m : m.role = "system", S))) = Prefix(S)
           /\ IsList(Prefix(S), Piece)
<1>1. Select(LAMBDA m : m.role = "system", S) = Flat(SysF, S) /\ IsList(Flat(SysF, S), SystemMsg)
  BY SelectSystem
<1>2. Map(TextOf, Flat(SysF, S)) = Image(TextOfF, Flat(SysF, S))
  BY <1>1, Listed DEF Map, Image, TextOfF
<1>3. Gives(SysF, IR, SystemMsg)
  BY Systems, ListFacts DEF Gives, SysF, Opt
<1>4. Fuses(PrefixF, TextOfF, SysF, IR)
  <2> SUFFICES ASSUME NEW m \in IR
               PROVE  PrefixF[m] = Flat(TextOfF, SysF[m])
    BY DEF Fuses
  <2>1. CASE m \in SystemMsg
    <3>1. SysF[m] = <<m>>
      BY <2>1, Systems DEF SysF, Opt
    <3>2. Flat(TextOfF, <<m>>) = TextOfF[m]
      BY FlatOne
    <3> QED BY <2>1, <3>1, <3>2 DEF PrefixF, TextOfF
  <2>2. CASE m \notin SystemMsg
    <3>1. SysF[m] = <<>>
      BY <2>2, Systems DEF SysF, Opt
    <3> QED BY <2>2, <3>1, FlatEmpty DEF PrefixF
  <2> QED BY <2>1, <2>2
<1>5. Flat(TextOfF, Flat(SysF, S)) = Flat(PrefixF, S)
  BY <1>3, <1>4, PrefixGives, FlatThen
<1>6. IsList(Flat(PrefixF, S), Piece)
  BY PrefixGives, FlatGives
<1> QED BY <1>1, <1>2, <1>5, <1>6 DEF Prefix, Flat

LEMMA ToldAnthropic ==
    ASSUME NEW S, IsList(S, IR), NEW c
    PROVE  Told("anthropic", SerializeAnthropicMessagesRequest(S, c))
             = TextFacts("system", Prefix(S)) \o Flat(IRF, Flat(NonF, S))
<1> DEFINE r == SerializeAnthropicMessagesRequest(S, c)
           w(m) == [role |-> m.role, content |-> AnthropicContent(m)]
           N == Flat(NonF, S)
<1>1. r.system = Prefix(S)
  BY PrefixText DEF SerializeAnthropicMessagesRequest
<1>2. r.messages = [i \in DOMAIN N |-> w(N[i])]
  BY SelectSystem DEF SerializeAnthropicMessagesRequest, Map
<1>3. IsList(N, Rest)
  BY SelectSystem
<1>4. \A m \in Rest : Facts("anthropic", w(m)) = IRF[m]
  BY AnthropicFacts, IRFType, Messages
<1> HIDE DEF r, w, N
<1>5. \A i \in DOMAIN N : Facts("anthropic", w(N[i])) = IRF[N[i]]
  BY <1>3, <1>4, Listed
<1>6. Map(LAMBDA m : Facts("anthropic", m), r.messages) = Image(IRF, N)
  BY <1>2, <1>5 DEF Map, Image
<1> QED BY <1>1, <1>6 DEF Told, Flat, r, N

LEMMA SpokenGives ==
    ASSUME NEW who \in Roles
    PROVE  /\ Gives(SpokenF(who), IR, Fact) /\ Gives(SpokenF(who), IR, FactOf(who))
           /\ \A S : IsList(S, IR) => TextFacts(who, Prefix(S)) = Flat(SpokenF(who), S)
<1>1. ASSUME NEW m \in SystemMsg
      PROVE  IsList(TextFacts(who, TextOf(m)), FactOf(who))
  <2>1. IsList(TextOf(m), Piece)
    BY SystemText, SinglePieces
  <2> QED BY <2>1, TextFactsType
<1>2. Gives(SpokenF(who), IR, FactOf(who))
  BY <1>1, ListFacts DEF Gives, SpokenF
<1>3. Gives(SpokenF(who), IR, Fact)
  BY <1>2, Speakers, Wider DEF Gives
<1>4. Fuses(SpokenF(who), TextF(who), PrefixF, IR)
  <2> SUFFICES ASSUME NEW m \in IR
               PROVE  SpokenF(who)[m] = Flat(TextF(who), PrefixF[m])
    BY DEF Fuses
  <2>1. CASE m \in SystemMsg
    <3>1. IsList(TextOf(m), Piece)
      BY <2>1, SystemText, SinglePieces
    <3> QED BY <2>1, <3>1, TextFactsFlat DEF SpokenF, PrefixF
  <2>2. CASE m \notin SystemMsg
    BY <2>2, FlatEmpty DEF SpokenF, PrefixF
  <2> QED BY <2>1, <2>2
<1>5. Gives(TextF(who), Piece, Fact)
  BY TextFType, GivesLists
<1>6. ASSUME NEW S, IsList(S, IR)
      PROVE  TextFacts(who, Prefix(S)) = Flat(SpokenF(who), S)
  <2>1. IsList(Prefix(S), Piece)
    BY <1>6, PrefixText
  <2>2. TextFacts(who, Prefix(S)) = Flat(TextF(who), Prefix(S))
    BY <2>1, TextFactsFlat
  <2>3. Flat(TextF(who), Flat(PrefixF, S)) = Flat(SpokenF(who), S)
    BY <1>4, <1>5, <1>6, PrefixGives, FlatThen
  <2> QED BY <2>2, <2>3 DEF Prefix
<1> QED BY <1>2, <1>3, <1>6

NoneF == [m \in IR |-> <<>>]

LEMMA SpokenParts ==
    ASSUME NEW who \in Roles
    PROVE  Fuses(NoneF, OtherF, SpokenF(who), IR) /\ Fuses(NumM, NumF, SpokenF(who), Shaped)
<1>1. ASSUME NEW m \in SystemMsg
      PROVE  /\ Flat(OtherF, SpokenF(who)[m]) = <<>>
             /\ Flat(NumF, SpokenF(who)[m]) = Flat(NumF, IRF[m])
  <2>1. PICK n \in Nat :
          /\ IRF[m] = <<<<"system", "text", "s", n>>>>
          /\ TextFacts(who, TextOf(m)) = <<<<who, "text", "s", n>>>>
    BY SystemText
  <2>2. SpokenF(who)[m] = <<<<who, "text", "s", n>>>>
    BY <2>1, Messages DEF SpokenF
  <2>3. /\ Flat(OtherF, <<<<who, "text", "s", n>>>>) = <<>>
        /\ Flat(NumF, <<<<who, "text", "s", n>>>>) = <<n>>
    BY OthersText
  <2>4. Flat(NumF, <<<<"system", "text", "s", n>>>>) = <<n>>
    BY OthersText, NoIdNat
  <2> QED BY <2>1, <2>2, <2>3, <2>4
<1>2. \A m \in IR : m \notin SystemMsg => SpokenF(who)[m] = <<>>
  BY DEF SpokenF
<1>3. \A m \in Plain : m \in IR /\ Flat(NumF, IRF[m]) = <<>>
  BY IRFactsType, IRFType, OthersPlain, Messages
<1>4. Flat(OtherF, <<>>) = <<>> /\ Flat(NumF, <<>>) = <<>>
  BY FlatEmpty
<1>5. \A m \in IR : NoneF[m] = <<>> /\ NumM[m] = Flat(NumF, IRF[m])
  BY DEF NoneF, NumM
<1>6. Fuses(NoneF, OtherF, SpokenF(who), IR)
  BY <1>1, <1>2, <1>4, <1>5 DEF Fuses
<1>7. Fuses(NumM, NumF, SpokenF(who), Shaped)
  <2> SUFFICES ASSUME NEW m \in Shaped
               PROVE  NumM[m] = Flat(NumF, SpokenF(who)[m])
    BY DEF Fuses
  <2>1. m \in IR /\ (m \in SystemMsg \/ m \in Plain)
    BY Messages
  <2>2. CASE m \in SystemMsg
    BY <2>1, <2>2, <1>1, <1>5
  <2>3. CASE m \notin SystemMsg
    BY <2>1, <2>3, <1>2, <1>3, <1>4, <1>5
  <2> QED BY <2>2, <2>3
<1> QED BY <1>6, <1>7

LEMMA ShapedParts ==
    /\ Fuses(OtherM, OtherF, IRF, Shaped) /\ Fuses(OtherM, OtherF, OtherM, Shaped)
    /\ Fuses(OtherM, IRF, NonF, IR)
    /\ Fuses(NumM, NumF, IRF, IR) /\ Fuses(NoneF, NumF, OtherM, Shaped)
    /\ Gives(OtherM, Shaped, PlainFact) /\ Gives(OtherM, IR, Fact)
<1>0. \A m \in Shaped : m \in IR /\ (m \in SystemMsg \/ m \in Plain)
  BY Messages
<1>1. \A m \in Plain : IsList(IRF[m], PlainFact) /\ m \notin SystemMsg
  BY IRFactsType, IRFType, Messages
<1>2. ASSUME NEW m \in Plain
      PROVE  /\ Flat(OtherF, IRF[m]) = IRF[m] /\ Flat(NumF, IRF[m]) = <<>>
  BY <1>1, OthersPlain
<1>3. ASSUME NEW m \in SystemMsg
      PROVE  Flat(OtherF, IRF[m]) = <<>>
  <2>1. PICK n \in Nat : IRF[m] = <<<<"system", "text", "s", n>>>>
    BY SystemText
  <2>2. Flat(OtherF, <<<<"system", "text", "s", n>>>>) = <<>>
    BY OthersText, NoIdNat
  <2> QED BY <2>1, <2>2
<1>4. /\ \A m \in IR : m \notin SystemMsg => OtherM[m] = IRF[m]
      /\ \A m \in IR : m \in SystemMsg => OtherM[m] = <<>>
      /\ \A m \in IR : NoneF[m] = <<>> /\ NumM[m] = Flat(NumF, IRF[m])
  BY DEF OtherM, NoneF, NumM
<1>5. Flat(OtherF, <<>>) = <<>> /\ Flat(NumF, <<>>) = <<>> /\ Flat(IRF, <<>>) = <<>>
  BY FlatEmpty
<1>6. Gives(OtherM, Shaped, PlainFact)
  <2> SUFFICES ASSUME NEW m \in Shaped PROVE IsList(OtherM[m], PlainFact)
    BY DEF Gives
  <2>1. CASE m \in SystemMsg
    BY <2>1, <1>0, <1>4, ListFacts
  <2>2. CASE m \in Plain
    BY <2>2, <1>0, <1>1, <1>4
  <2> QED BY <2>1, <2>2, <1>0
<1>7. Fuses(OtherM, OtherF, IRF, Shaped)
  BY <1>0, <1>1, <1>2, <1>3, <1>4 DEF Fuses
<1>8. Fuses(OtherM, OtherF, OtherM, Shaped)
  BY <1>0, <1>1, <1>2, <1>4, <1>5 DEF Fuses
<1>9. Fuses(OtherM, IRF, NonF, IR)
  <2> SUFFICES ASSUME NEW m \in IR PROVE OtherM[m] = Flat(IRF, NonF[m])
    BY DEF Fuses
  <2>1. Flat(IRF, <<m>>) = IRF[m]
    BY FlatOne
  <2>2. CASE m \in SystemMsg
    BY <2>2, <1>4, <1>5, Systems DEF NonF, Opt
  <2>3. CASE m \notin SystemMsg
    BY <2>1, <2>3, <1>4, Systems DEF NonF, Opt
  <2> QED BY <2>2, <2>3
<1>10. Fuses(NumM, NumF, IRF, IR)
  BY <1>4 DEF Fuses
<1>11. Fuses(NoneF, NumF, OtherM, Shaped)
  BY <1>0, <1>1, <1>2, <1>4, <1>5 DEF Fuses
<1>12. Gives(OtherM, IR, Fact)
  <2>1. \A m \in IR : IsList(IRF[m], Fact)
    BY IRFactsType, IRFType
  <2> QED BY <2>1, <1>4, ListFacts DEF Gives
<1> QED BY <1>6, <1>7, <1>8, <1>9, <1>10, <1>11, <1>12

-----------------------------------------------------------------------------
(* What an upstream is told of a list of messages.                         *)

LEMMA ShapedGives ==
    /\ Gives(IRF, Shaped, Fact) /\ Gives(IRF, Shaped, FactOf("system")) /\ Gives(IRF, IR, Fact)
    /\ Gives(OtherF, Fact, PlainFact) /\ Gives(OtherF, Fact, Fact) /\ Gives(NumF, Fact, Nat)
    /\ Gives(IRF, Rest, FactOf("user")) /\ Gives(NonF, IR, Rest)
    /\ Gives(IRF, Rest, Fact)
<1>1. \A m \in Shaped : m \in IR /\ (m \in SystemMsg \/ m \in Plain)
  BY Messages
<1>2. \A m \in IR : IsList(IRF[m], Fact)
  BY IRFactsType, IRFType
<1>3. \A m \in Plain : m \in IR /\ IsList(IRF[m], FactOf("system")) /\ IsList(IRF[m], FactOf("user"))
  <2> SUFFICES ASSUME NEW m \in Plain
               PROVE  m \in IR /\ IsList(IRF[m], FactOf("system")) /\ IsList(IRF[m], FactOf("user"))
    OBVIOUS
  <2>1. m \in IR /\ IsList(IRF[m], PlainFact)
    BY IRFactsType, IRFType, Messages
  <2> QED BY <2>1, Speakers, Wider
<1>4. \A m \in SystemMsg : IsList(IRF[m], FactOf("system"))
  BY IRFactsType, IRFType, Messages
<1>5. \A m \in UserMsg(Piece) : IsList(IRF[m], FactOf("user"))
  BY IRFactsType, IRFType, Messages
<1>6. Gives(NonF, IR, Rest)
  <2> SUFFICES ASSUME NEW m \in IR
               PROVE  IsList(NonF[m], Rest)
    BY DEF Gives
  <2>1. CASE m \in SystemMsg
    BY <2>1, Systems, ListFacts DEF NonF, Opt
  <2>2. CASE m \notin SystemMsg
    <3>1. IsList(<<m>>, Rest)
      BY <2>2, ListFacts DEF IR
    <3> QED BY <3>1, <2>2, Systems DEF NonF, Opt
  <2> QED BY <2>1, <2>2
<1>7. Gives(IRF, Shaped, FactOf("system")) /\ Gives(IRF, Shaped, Fact) /\ Gives(IRF, IR, Fact)
  BY <1>1, <1>2, <1>3, <1>4 DEF Gives
<1>8. Gives(IRF, Rest, FactOf("user")) /\ Gives(IRF, Rest, Fact)
  BY <1>2, <1>3, <1>5, Messages DEF Gives
<1>9. Gives(OtherF, Fact, PlainFact) /\ Gives(OtherF, Fact, Fact) /\ Gives(NumF, Fact, Nat)
  BY OtherFType, GivesLists
<1> QED BY <1>6, <1>7, <1>8, <1>9

LEMMA ShapedWide ==
    ASSUME NEW S, IsList(S, Shaped)
    PROVE  IsList(S, IR)
BY Messages, Wider

LEMMA NoneFlat ==
    ASSUME NEW S, IsList(S, IR)
    PROVE  Flat(NoneF, S) = <<>>
<1>1. \A m \in IR : NoneF[m] = <<>>
  BY DEF NoneF
<1> QED BY <1>1, FlatNone

LEMMA StoryParts ==
    ASSUME NEW S, IsList(S, Shaped)
    PROVE  /\ IsList(Flat(IRF, S), Fact)
           /\ Others(Flat(IRF, S)) = Flat(OtherM, S)
           /\ Instructions(Flat(IRF, S)) = Flat(NumM, S)
<1>1. IsList(S, IR)
  BY ShapedWide
<1>2. IsList(Flat(IRF, S), Fact)
  BY ShapedGives, FlatGives
<1>3. Flat(OtherF, Flat(IRF, S)) = Flat(OtherM, S)
  <2>1. Gives(IRF, Shaped, Fact) /\ Gives(OtherF, Fact, Fact) /\ Fuses(OtherM, OtherF, IRF, Shaped)
    BY ShapedGives, ShapedParts
  <2> QED BY <2>1, FlatThen
<1>4. Flat(NumF, Flat(IRF, S)) = Flat(NumM, S)
  <2>1. Gives(IRF, IR, Fact) /\ Gives(NumF, Fact, Nat) /\ Fuses(NumM, NumF, IRF, IR)
    BY ShapedGives, ShapedParts
  <2> QED BY <1>1, <2>1, FlatThen
<1> QED BY <1>2, <1>3, <1>4, OthersFlat, InstructionsFlat

LEMMA SpokenStory ==
    ASSUME NEW S, IsList(S, Shaped), NEW who \in Roles
    PROVE  /\ IsList(TextFacts(who, Prefix(S)), FactOf(who))
           /\ IsList(TextFacts(who, Prefix(S)), Fact)
           /\ Flat(OtherF, TextFacts(who, Prefix(S))) = <<>>
           /\ Flat(NumF, TextFacts(who, Prefix(S))) = Flat(NumM, S)
<1>1. IsList(S, IR)
  BY ShapedWide
<1>2. /\ TextFacts(who, Prefix(S)) = Flat(SpokenF(who), S)
      /\ Gives(SpokenF(who), IR, Fact) /\ Gives(SpokenF(who), IR, FactOf(who))
  BY <1>1, SpokenGives
<1>3. IsList(Flat(SpokenF(who), S), FactOf(who)) /\ IsList(Flat(SpokenF(who), S), Fact)
  BY <1>1, <1>2, FlatGives
<1>4. Flat(OtherF, Flat(SpokenF(who), S)) = Flat(NoneF, S)
  <2>1. Gives(OtherF, Fact, Fact) /\ Fuses(NoneF, OtherF, SpokenF(who), IR)
    BY ShapedGives, SpokenParts
  <2> QED BY <1>1, <1>2, <2>1, FlatThen
<1>5. Flat(NumF, Flat(SpokenF(who), S)) = Flat(NumM, S)
  <2>1. Gives(NumF, Fact, Nat) /\ Fuses(NumM, NumF, SpokenF(who), Shaped)
    BY ShapedGives, SpokenParts
  <2>2. Gives(SpokenF(who), Shaped, Fact)
    BY <1>2, Messages DEF Gives
  <2> QED BY <2>1, <2>2, FlatThen
<1> QED BY <1>1, <1>2, <1>3, <1>4, <1>5, NoneFlat

\* What an upstream is told when nothing is folded.
LEMMA ToldUnfolded ==
    ASSUME NEW S, IsList(S, Shaped), NEW c, NEW to \in Upstreams
    PROVE  LET told == Told(to, Serialize(to, S, c))
           IN /\ IsList(told, FactOf("system"))
              /\ Others(told) = Flat(OtherM, S) /\ Instructions(told) = Flat(NumM, S)
<1> DEFINE told == Told(to, Serialize(to, S, c))
<1>1. IsList(S, IR)
  BY ShapedWide
<1>2. CASE to = "openai"
  <2>1. told = Flat(IRF, S)
    BY <1>1, <1>2, ToldOpenAI DEF Serialize
  <2>2. IsList(Flat(IRF, S), FactOf("system"))
    BY ShapedGives, FlatGives
  <2> QED BY <2>1, <2>2, StoryParts
<1>3. CASE to = "anthropic"
  <2> DEFINE A == TextFacts("system", Prefix(S))  B == Flat(OtherM, S)
  <2>1. told = A \o Flat(IRF, Flat(NonF, S))
    BY <1>1, <1>3, ToldAnthropic DEF Serialize
  <2>2. Flat(IRF, Flat(NonF, S)) = B
    <3>1. Gives(NonF, IR, Rest) /\ Gives(IRF, Rest, Fact) /\ Fuses(OtherM, IRF, NonF, IR)
      BY ShapedGives, ShapedParts
    <3> QED BY <1>1, <3>1, FlatThen
  <2>3. /\ IsList(A, FactOf("system")) /\ IsList(A, Fact)
        /\ Flat(OtherF, A) = <<>> /\ Flat(NumF, A) = Flat(NumM, S)
    BY SpokenStory, NoIdNat
  <2>4. IsList(B, PlainFact)
    BY ShapedParts, FlatGives
  <2>5. IsList(B, Fact) /\ Flat(OtherF, B) = B /\ Flat(NumF, B) = <<>>
    BY <2>4, OthersPlain
  <2>6. IsList(B, FactOf("system"))
    BY <2>4, Speakers, Wider
  <2> HIDE DEF A, B
  <2>7. IsList(A \o B, Fact) /\ IsList(A \o B, FactOf("system"))
    BY <2>3, <2>5, <2>6, ListFacts
  <2>8. Flat(OtherF, A \o B) = Flat(OtherF, A) \o Flat(OtherF, B)
    <3>1. IsList(A, Fact) /\ IsList(B, Fact) /\ Gives(OtherF, Fact, Fact)
      BY <2>3, <2>5, ShapedGives
    <3> QED BY <3>1, FlatJoin
  <2>9. Flat(NumF, A \o B) = Flat(NumF, A) \o Flat(NumF, B)
    <3>1. IsList(A, Fact) /\ IsList(B, Fact) /\ Gives(NumF, Fact, Nat)
      BY <2>3, <2>5, ShapedGives
    <3> QED BY <3>1, FlatJoin
  <2>10. <<>> \o B = B
    BY <2>5, ListFacts
  <2>11. Flat(NumM, S) \o <<>> = Flat(NumM, S)
    <3>1. IsList(Flat(NumF, A), Nat)
      BY <2>3, ShapedGives, FlatGives
    <3> QED BY <3>1, <2>3, ListFacts
  <2>12. Others(A \o B) = B /\ Instructions(A \o B) = Flat(NumM, S)
    BY <2>3, <2>5, <2>7, <2>8, <2>9, <2>10, <2>11, OthersFlat, InstructionsFlat
  <2> QED BY <2>1, <2>2, <2>7, <2>12 DEF B
<1> QED BY <1>2, <1>3 DEF Upstreams

-----------------------------------------------------------------------------
(* System texts in front of the first user message.                        *)

HasUser(S) == \E i \in 1..Len(S) : S[i].role = "user"
FirstUser(S) == SelectInSeq(S, LAMBDA m : m.role = "user")

LEMMA FirstUserFound ==
    ASSUME NEW S, HasUser(S), Len(S) \in Nat
    PROVE  FirstUser(S) \in 1..Len(S) /\ S[FirstUser(S)].role = "user"
<1> DEFINE I == {i \in 1..Len(S) : S[i].role = "user"}
<1>1. I # {} /\ I \in SUBSET Nat
  BY DEF HasUser
<1>2. \E x \in I : \A y \in I : x =< y
  <2> HIDE DEF I
  <2> QED BY <1>1, NatMin
<1>3. Min(I) \in I
  <2> HIDE DEF I
  <2> QED BY <1>2 DEF Min
<1>4. FirstUser(S) = Min(I)
  BY <1>1 DEF FirstUser, SelectInSeq
<1> QED BY <1>3, <1>4

LEMMA UserFacts ==
    ASSUME NEW m \in UserMsg(Piece) \cup UserMsg(PlainPiece)
    PROVE  /\ m \in UserMsg(Piece) /\ m \in IR /\ m \in Rest /\ m \notin SystemMsg
           /\ IRF[m] = Flat(PartF("user"), m.content)
<1>1. UserMsg(PlainPiece) \subseteq UserMsg(Piece)
  <2>1. Seq(PartsOf(PlainPiece)) \subseteq Seq(PartsOf(Piece))
    BY PartFType, NoIdNat, Wider DEF IsList
  <2> QED BY <2>1 DEF UserMsg
<1>2. m.role = "user" /\ IsList(m.content, PartsOf(Piece)) /\ m.calls = <<>>
  BY <1>1, MessageShape
<1>3. IsList(Flat(PartF("user"), m.content), Fact)
  BY <1>2, NoIdNat, ContentType
<1>4. IRFacts(m) = (<<>> \o Flat(PartF("user"), m.content)) \o <<>>
  BY <1>2, FlatEmpty DEF IRFacts, Opt
<1>5. IRFacts(m) = Flat(PartF("user"), m.content)
  <2>1. <<>> \o Flat(PartF("user"), m.content) = Flat(PartF("user"), m.content)
    BY <1>3, ListFacts
  <2>2. Flat(PartF("user"), m.content) \o <<>> = Flat(PartF("user"), m.content)
    BY <1>3, ListFacts
  <2> QED BY <1>4, <2>1, <2>2
<1> QED BY <1>1, <1>2, <1>5, IRFType, Messages

\* A user message with the prefix put in front of its content.
Prefixed(P, old) ==
    IF Len(old) = 1 /\ old[1].type = "text"
    THEN <<TextPart(P \o old[1].text)>>
    ELSE <<TextPart(P)>> \o old

LEMMA PrefixedFacts ==
    ASSUME NEW m \in UserMsg(PlainPiece), NEW P, IsList(P, Piece)
    PROVE  /\ [m EXCEPT !.content = Prefixed(P, m.content)] \in UserMsg(Piece)
           /\ IRF[[m EXCEPT !.content = Prefixed(P, m.content)]] = TextFacts("user", P) \o IRF[m]
<1> DEFINE old == m.content
<1>1. IsList(old, PartsOf(PlainPiece)) /\ IsList(old, PartsOf(Piece)) /\ "user" \in Roles
  BY MessageShape, ContentType, NoIdNat
<1>2. IRF[m] = Flat(PartF("user"), old)
  BY UserFacts
<1>3. /\ IsList(Prefixed(P, old), PartsOf(Piece))
      /\ Flat(PartF("user"), Prefixed(P, old)) = TextFacts("user", P) \o Flat(PartF("user"), old)
  <2> HIDE DEF old
  <2>1. CASE Len(old) = 1 /\ old[1].type = "text"
    <3>1. PICK p : p = old[1]
      OBVIOUS
    <3>2. p \in PartsOf(Piece) /\ old = <<p>> /\ p.type = "text"
      <4>1. old \in Seq(PartsOf(Piece)) /\ Len(old) = 1 /\ p.type = "text"
        BY <1>1, <2>1, <3>1 DEF IsList
      <4>2. old = <<old[1]>>
        BY <4>1
      <4> QED BY <4>1, <4>2, <3>1
    <3>3. IsList(p.text, Piece)
      BY <3>2, PartCases
    <3>4. IsList(P \o p.text, Piece)
      BY <3>3, ListFacts
    <3>5. Prefixed(P, old) = <<TextPart(P \o p.text)>>
      BY <2>1, <3>1 DEF Prefixed
    <3>6. /\ IsList(<<TextPart(P \o p.text)>>, PartsOf(Piece))
          /\ Flat(PartF("user"), <<TextPart(P \o p.text)>>) = TextFacts("user", P \o p.text)
      BY <1>1, <3>4, SingleText
    <3>7. TextFacts("user", P \o p.text) = TextFacts("user", P) \o TextFacts("user", p.text)
      BY <1>1, <3>3, TextFactsConcat
    <3>8. Flat(PartF("user"), <<p>>) = TextFacts("user", p.text)
      <4>1. Flat(PartF("user"), <<p>>) = PartF("user")[p]
        BY FlatOne
      <4> QED BY <4>1, <3>2 DEF PartF, IRPartFacts
    <3> QED BY <3>2, <3>5, <3>6, <3>7, <3>8
  <2>2. CASE ~(Len(old) = 1 /\ old[1].type = "text")
    <3>1. Prefixed(P, old) = <<TextPart(P)>> \o old
      BY <2>2 DEF Prefixed
    <3>2. PICK t : t = <<TextPart(P)>>
      OBVIOUS
    <3>3. IsList(t, PartsOf(Piece)) /\ Flat(PartF("user"), t) = TextFacts("user", P)
      BY <1>1, <3>2, SingleText
    <3>4. Lists(PartF("user"), PartsOf(Piece), Fact)
      BY <1>1, PartFType
    <3>5. Flat(PartF("user"), t \o old) = Flat(PartF("user"), t) \o Flat(PartF("user"), old)
      <4>1. IsList(t, PartsOf(Piece)) /\ IsList(old, PartsOf(Piece))
        BY <1>1, <3>3
      <4> QED BY <4>1, <3>4, FlatConcat
    <3>6. IsList(t \o old, PartsOf(Piece))
      BY <1>1, <3>3, ListFacts
    <3> QED BY <3>1, <3>2, <3>3, <3>5, <3>6
  <2> QED BY <2>1, <2>2
<1>4. [m EXCEPT !.content = Prefixed(P, old)] \in UserMsg(Piece)
  <2>1. Prefixed(P, old) \in Seq(PartsOf(Piece))
    BY <1>3 DEF IsList
  <2> HIDE DEF old
  <2> QED BY <2>1 DEF UserMsg
<1>5. IRF[[m EXCEPT !.content = Prefixed(P, old)]] = Flat(PartF("user"), Prefixed(P, old))
  <2>1. PICK x : x = [m EXCEPT !.content = Prefixed(P, old)]
    OBVIOUS
  <2>2. x.content = Prefixed(P, old) /\ x \in UserMsg(Piece)
    BY <2>1, <1>4 DEF UserMsg
  <2> QED BY <2>1, <2>2, UserFacts
<1> QED BY <1>2, <1>3, <1>4, <1>5

LEMMA ToldRest ==
    ASSUME NEW T, IsList(T, Rest), NEW c, NEW to \in Upstreams
    PROVE  Told(to, Serialize(to, T, c)) = Flat(IRF, T)
<1>1. IsList(T, IR)
  BY Messages, Wider
<1>2. CASE to = "openai"
  BY <1>1, <1>2, ToldOpenAI DEF Serialize
<1>3. CASE to = "anthropic"
  <2>1. Told(to, Serialize(to, T, c)) = TextFacts("system", Prefix(T)) \o Flat(IRF, Flat(NonF, T))
    BY <1>1, <1>3, ToldAnthropic DEF Serialize
  <2>2. \A m \in Rest : m \in IR /\ m \notin SystemMsg /\ PrefixF[m] = <<>> /\ NonF[m] = <<m>>
    BY Systems, Messages DEF PrefixF, NonF, Opt
  <2>3. Prefix(T) = <<>>
    BY <2>2, FlatNone DEF Prefix
  <2>4. Flat(NonF, T) = T
    BY <2>2, FlatAll
  <2>5. TextFacts("system", <<>>) = <<>>
    <3>1. DOMAIN <<>> = {}
      OBVIOUS
    <3> QED BY <3>1 DEF TextFacts, Map
  <2>6. <<>> \o Flat(IRF, T) = Flat(IRF, T)
    BY <1>1, StoryType, ListFacts
  <2> QED BY <2>1, <2>3, <2>4, <2>5, <2>6
<1> QED BY <1>2, <1>3 DEF Upstreams

LEMMA NoPrefix ==
    ASSUME NEW S, IsList(S, Shaped), Prefix(S) = <<>>
    PROVE  IsList(S, Plain)
<1>1. Lists(PrefixF, IR, Piece)
  <2>1. \A m \in IR : IsList(PrefixF[m], Piece)
    BY PrefixGives DEF Gives
  <2> QED BY <2>1 DEF Lists, PrefixF, IsList
<1>2. \A i \in DOMAIN S : PrefixF[S[i]] = <<>>
  <2>1. IsList(S, IR)
    BY ShapedWide
  <2> QED BY <1>1, <2>1, FlatEmptyParts DEF Prefix
<1>3. \A m \in SystemMsg : PrefixF[m] # <<>>
  <2> SUFFICES ASSUME NEW m \in SystemMsg PROVE PrefixF[m] # <<>>
    OBVIOUS
  <2>1. PICK n \in Nat : TextOf(m) = <<<<"s", n>>>>
    BY SystemText
  <2> QED BY <2>1, Messages DEF PrefixF
<1>4. \A i \in DOMAIN S : S[i] \in Plain
  BY <1>2, <1>3, Listed, Messages
<1> QED BY <1>4 DEF IsList

Put(s, u, y) == [s EXCEPT ![u] = y]

\* The messages around one of them.
LEMMA FlatAround ==
    ASSUME NEW X, NEW Y, NEW f, Gives(f, X, Y), NEW s, IsList(s, X), NEW u \in 1..Len(s), NEW y \in X
    PROVE  /\ IsList(Fore(s, u), X) /\ IsList(Rear(s, u), X)
           /\ IsList(Put(s, u, y), X)
           /\ Flat(f, Put(s, u, y)) = (Flat(f, Fore(s, u)) \o f[y]) \o Flat(f, Rear(s, u))
<1>1. IsList(Fore(s, u), X) /\ IsList(Rear(s, u), X)
  BY Sides
<1>2. PICK t : t = <<y>>
  OBVIOUS
<1>3. Put(s, u, y) = (Fore(s, u) \o t) \o Rear(s, u)
  BY <1>2, Around DEF Put
<1>4. IsList(t, X) /\ Flat(f, t) = f[y]
  BY <1>2, ListFacts, FlatOne
<1>5. PICK a : a = Fore(s, u)
  OBVIOUS
<1>6. IsList(a, X) /\ IsList(a \o t, X)
  BY <1>1, <1>4, <1>5, ListFacts
<1>7. Flat(f, a \o t) = Flat(f, a) \o Flat(f, t)
  <2>1. IsList(a, X) /\ IsList(t, X)
    BY <1>4, <1>6
  <2> QED BY <2>1, FlatJoin
<1>8. Flat(f, (a \o t) \o Rear(s, u)) = Flat(f, a \o t) \o Flat(f, Rear(s, u))
  <2>1. PICK b : b = a \o t
    OBVIOUS
  <2>2. IsList(b, X) /\ IsList(Rear(s, u), X)
    BY <1>1, <1>6, <2>1
  <2>3. Flat(f, b \o Rear(s, u)) = Flat(f, b) \o Flat(f, Rear(s, u))
    BY <2>2, FlatJoin
  <2> QED BY <2>1, <2>3
<1>9. IsList((a \o t) \o Rear(s, u), X)
  BY <1>1, <1>6, ListFacts
<1> QED BY <1>1, <1>3, <1>4, <1>5, <1>7, <1>8, <1>9

LEMMA ListAt ==
    ASSUME NEW X, NEW s, IsList(s, X)
    PROVE  /\ Len(s) \in Nat /\ DOMAIN s = 1..Len(s) /\ \A i \in 1..Len(s) : s[i] \in X
           /\ \A u \in 1..Len(s) : [s EXCEPT ![u] = s[u]] = s
<1>1. s \in Seq(X)
  BY DEF IsList
<1> QED BY <1>1

LEMMA FoldCases ==
    ASSUME NEW S, IsList(S, Shaped), HasUser(S)
    PROVE  \/ Prefix(S) = <<>> /\ FoldSystemIntoUser(S) = S
           \/ /\ Prefix(S) # <<>>
              /\ \E u \in 1..Len(S) :
                    /\ S[u] \in UserMsg(PlainPiece)
                    /\ FoldSystemIntoUser(S) =
                         Flat(NonF, Put(S, u,
                               [S[u] EXCEPT !.content = Prefixed(Prefix(S), S[u].content)]))
<1>0. IsList(S, IR)
  BY ShapedWide
<1>1. FlattenSeq(Map(TextOf, Select(LAMBDA m : m.role = "system", S))) = Prefix(S)
  BY <1>0, PrefixText
<1> DEFINE u == FirstUser(S)
           m == [S[u] EXCEPT !.content = Prefixed(Prefix(S), S[u].content)]
           N == Put(S, u, m)
<1>2. u \in 1..Len(S) /\ S[u].role = "user" /\ u # 0
  <2>1. Len(S) \in Nat
    BY <1>0, ListAt
  <2>2. u \in 1..Len(S) /\ S[u].role = "user"
    BY <2>1, FirstUserFound
  <2> QED BY <2>1, <2>2
<1>3. S[u] \in UserMsg(PlainPiece)
  <2>1. S[u] \in Shaped
    BY <1>2, ListAt
  <2>2. \A x \in SystemMsg \cup ToolMsg \cup AssistantMsg : x.role # "user"
    <3>1. ASSUME NEW x \in ToolMsg PROVE x.role = "tool"
      <4>1. PICK n \in Nat : x = Message("tool", <<TextPart(<<<<"r", n>>>>)>>, <<>>, n)
        BY MessageShape
      <4> QED BY <4>1 DEF Message
    <3> QED BY <3>1, MessageShape, Messages
  <2> QED BY <1>2, <2>1, <2>2 DEF Shaped, Plain
<1>4. FoldSystemIntoUser(S) =
        IF Prefix(S) = <<>> THEN S ELSE Select(LAMBDA x : x.role # "system", N)
  <2>1. SelectInSeq(S, LAMBDA x : x.role = "user") = u
    BY DEF FirstUser
  <2>2. [S EXCEPT ![u].content = Prefixed(Prefix(S), S[u].content)] = N
    BY DEF Put
  <2> QED BY <1>1, <1>2, <2>1, <2>2 DEF FoldSystemIntoUser, Prefixed
<1>5. Select(LAMBDA x : x.role # "system", N) = Flat(NonF, N)
  <2>1. m \in UserMsg(Piece)
    <3>1. IsList(Prefix(S), Piece)
      BY <1>0, PrefixText
    <3> QED BY <1>3, <3>1, PrefixedFacts
  <2>2. IsList(N, IR)
    <3> HIDE DEF u, m
    <3>1. m \in IR
      BY <2>1, Messages
    <3> QED BY <1>0, <1>2, <3>1, ShapedGives, FlatAround
  <2> HIDE DEF N
  <2> QED BY <2>2, SelectSystem
<1> QED BY <1>2, <1>3, <1>4, <1>5

\* m between f and r, with a in front of it.
Stack(f, a, m, r) == (f \o (a \o m)) \o r

Spread(g, f, a, m, r) ==
    Flat(g, Stack(f, a, m, r)) = Stack(Flat(g, f), Flat(g, a), Flat(g, m), Flat(g, r))

LEMMA StackType ==
    ASSUME NEW X, NEW f, NEW a, NEW m, NEW r,
           IsList(f, X), IsList(a, X), IsList(m, X), IsList(r, X)
    PROVE  IsList(Stack(f, a, m, r), X)
<1>1. IsList(a \o m, X)
  BY ListFacts
<1>2. IsList(f \o (a \o m), X)
  BY <1>1, ListFacts
<1> QED BY <1>2, ListFacts DEF Stack

LEMMA Stacked ==
    ASSUME NEW X, NEW f, NEW a, NEW m, NEW r,
           IsList(f, X), IsList(a, X), IsList(m, X), IsList(r, X),
           NEW Y, NEW g, Gives(g, X, Y)
    PROVE  Spread(g, f, a, m, r)
<1>1. PICK b : b = a \o m
  OBVIOUS
<1>2. PICK c : c = f \o b
  OBVIOUS
<1>3. IsList(b, X)
  BY <1>1, ListFacts
<1>4. IsList(c, X)
  BY <1>2, <1>3, ListFacts
<1>5. Flat(g, a \o m) = Flat(g, a) \o Flat(g, m)
  BY FlatJoin
<1>6. Flat(g, f \o b) = Flat(g, f) \o Flat(g, b)
  BY <1>3, FlatJoin
<1>7. Flat(g, c \o r) = Flat(g, c) \o Flat(g, r)
  BY <1>4, FlatJoin
<1> QED BY <1>1, <1>2, <1>5, <1>6, <1>7 DEF Stack, Spread

\* What an upstream is told when the instructions are folded.
LEMMA ToldFolded ==
    ASSUME NEW S, IsList(S, Shaped), HasUser(S), NEW c, NEW to \in Upstreams
    PROVE  LET told == Told(to, Serialize(to, FoldSystemIntoUser(S), c))
           IN /\ IsList(told, FactOf("user"))
              /\ Others(told) = Flat(OtherM, S) /\ Instructions(told) = Flat(NumM, S)
<1> DEFINE T == FoldSystemIntoUser(S)
           told == Told(to, Serialize(to, T, c))
<1>0. IsList(S, IR)
  BY ShapedWide
<1>1. CASE Prefix(S) = <<>> /\ T = S
  <2>1. IsList(S, Rest)
    BY <1>1, NoPrefix, Messages, Wider
  <2>2. told = Flat(IRF, S)
    BY <1>1, <2>1, ToldRest
  <2>3. IsList(Flat(IRF, S), FactOf("user"))
    BY <2>1, ShapedGives, FlatGives
  <2> QED BY <2>2, <2>3, StoryParts
<1>2. ASSUME NEW u \in 1..Len(S), S[u] \in UserMsg(PlainPiece),
             T = Flat(NonF, Put(S, u,
                       [S[u] EXCEPT !.content = Prefixed(Prefix(S), S[u].content)]))
      PROVE  /\ IsList(told, FactOf("user"))
             /\ Others(told) = Flat(OtherM, S) /\ Instructions(told) = Flat(NumM, S)
  <2> DEFINE m == [S[u] EXCEPT !.content = Prefixed(Prefix(S), S[u].content)]
             N == Put(S, u, m)
             A == TextFacts("user", Prefix(S))
             M == OtherM[S[u]]
             F == Flat(OtherM, Fore(S, u))
             R == Flat(OtherM, Rear(S, u))
  <2>1. IsList(Prefix(S), Piece)
    BY <1>0, PrefixText
  <2>2. m \in UserMsg(Piece) /\ IRF[m] = A \o IRF[S[u]]
    BY <1>2, <2>1, PrefixedFacts
  <2>3. OtherM[m] = A \o M
    <3> HIDE DEF m, A
    <3>1. S[u] \in IR /\ S[u] \notin SystemMsg /\ m \in IR /\ m \notin SystemMsg
      BY <1>2, <2>2, UserFacts
    <3> QED BY <2>2, <3>1 DEF OtherM
  <2>4. /\ IsList(A, FactOf("user")) /\ IsList(A, Fact)
        /\ Flat(OtherF, A) = <<>> /\ Flat(NumF, A) = Flat(NumM, S)
    BY SpokenStory, NoIdNat
  <2>5. S[u] \in Shaped /\ Put(S, u, S[u]) = S
    BY ListAt DEF Put
  <2>6. /\ IsList(Fore(S, u), Shaped) /\ IsList(Rear(S, u), Shaped)
        /\ Flat(OtherM, S) = (F \o M) \o R
    <3>1. Gives(OtherM, Shaped, PlainFact)
      BY ShapedParts
    <3>2. /\ IsList(Fore(S, u), Shaped) /\ IsList(Rear(S, u), Shaped)
          /\ Flat(OtherM, Put(S, u, S[u])) = (F \o M) \o R
      <4>1. PICK y : y = S[u]
        OBVIOUS
      <4>2. y \in Shaped
        BY <2>5, <4>1
      <4>3. /\ IsList(Fore(S, u), Shaped) /\ IsList(Rear(S, u), Shaped)
            /\ Flat(OtherM, Put(S, u, y))
                 = (Flat(OtherM, Fore(S, u)) \o OtherM[y]) \o Flat(OtherM, Rear(S, u))
        BY <3>1, <4>2, FlatAround
      <4> QED BY <4>1, <4>3
    <3> QED BY <2>5, <3>2
  <2>7. m \in IR
    BY <2>2, Messages
  <2>8. IsList(N, IR) /\ Flat(OtherM, N) = (F \o OtherM[m]) \o R
    <3> HIDE DEF m
    <3>1. Gives(OtherM, IR, Fact)
      BY ShapedParts
    <3>2. /\ IsList(Put(S, u, m), IR)
          /\ Flat(OtherM, Put(S, u, m))
               = (Flat(OtherM, Fore(S, u)) \o OtherM[m]) \o Flat(OtherM, Rear(S, u))
      BY <1>0, <2>7, <3>1, FlatAround
    <3> QED BY <3>2
  <2>9. /\ IsList(F, PlainFact) /\ IsList(R, PlainFact) /\ IsList(M, PlainFact)
        /\ IsList((F \o M) \o R, PlainFact)
    <3>1. Gives(OtherM, Shaped, PlainFact)
      BY ShapedParts
    <3>2. IsList(F, PlainFact) /\ IsList(R, PlainFact)
      BY <2>6, <3>1, FlatGives
    <3>3. IsList(M, PlainFact)
      BY <2>5, <3>1 DEF Gives
    <3>4. IsList(F \o M, PlainFact)
      BY <3>2, <3>3, ListFacts
    <3> QED BY <3>2, <3>3, <3>4, ListFacts
  <2> DEFINE K == Stack(F, A, M, R)
  <2>10. told = K
    <3>1. T = Flat(NonF, N)
      BY <1>2
    <3> HIDE DEF m, N, A, M, F, R, K, T
    <3>2. IsList(T, Rest)
      BY <2>8, <3>1, SelectSystem
    <3>3. Told(to, Serialize(to, T, c)) = Flat(IRF, T)
      BY <3>2, ToldRest
    <3>4. Flat(IRF, Flat(NonF, N)) = Flat(OtherM, N)
      <4>1. Gives(NonF, IR, Rest) /\ Gives(IRF, Rest, Fact) /\ Fuses(OtherM, IRF, NonF, IR)
        BY ShapedGives, ShapedParts
      <4> QED BY <2>8, <4>1, FlatThen
    <3> QED BY <2>3, <2>8, <3>1, <3>3, <3>4 DEF K, Stack
  <2> HIDE DEF m, N, A, M, F, R, T
  <2>11. /\ IsList(F, FactOf("user")) /\ IsList(R, FactOf("user")) /\ IsList(M, FactOf("user"))
         /\ IsList(F, Fact) /\ IsList(R, Fact) /\ IsList(M, Fact)
    BY <2>9, Speakers, Wider
  <2>12. IsList(K, FactOf("user"))
    BY <2>4, <2>11, StackType
  <2>13. /\ IsList(K, Fact)
         /\ Flat(OtherF, K)
              = Stack(Flat(OtherF, F), Flat(OtherF, A), Flat(OtherF, M), Flat(OtherF, R))
         /\ Flat(NumF, K) = Stack(Flat(NumF, F), Flat(NumF, A), Flat(NumF, M), Flat(NumF, R))
    <3>1. /\ IsList(F, Fact) /\ IsList(A, Fact) /\ IsList(M, Fact) /\ IsList(R, Fact)
          /\ Gives(OtherF, Fact, Fact) /\ Gives(NumF, Fact, Nat)
      BY <2>4, <2>11, ShapedGives
    <3>2. IsList(Stack(F, A, M, R), Fact)
      BY <3>1, StackType
    <3>3. Spread(OtherF, F, A, M, R)
      BY <3>1, Stacked
    <3>4. Spread(NumF, F, A, M, R)
      BY <3>1, Stacked
    <3> QED BY <3>2, <3>3, <3>4 DEF K, Spread
  <2>15. /\ Flat(OtherF, F) = F /\ Flat(OtherF, M) = M /\ Flat(OtherF, R) = R
         /\ Flat(NumF, F) = <<>> /\ Flat(NumF, M) = <<>> /\ Flat(NumF, R) = <<>>
    BY <2>9, OthersPlain
  <2>16. Others(K) = Flat(OtherM, S)
    <3> HIDE DEF K
    <3>1. <<>> \o M = M
      BY <2>11, ListFacts
    <3> QED BY <2>4, <2>6, <2>13, <2>15, <3>1, OthersFlat DEF Stack
  <2>17. Instructions(K) = Flat(NumM, S)
    <3> HIDE DEF K
    <3>1. IsList(Flat(NumM, S), Nat)
      BY <2>4, ShapedGives, FlatGives
    <3>2. (<<>> \o (Flat(NumM, S) \o <<>>)) \o <<>> = Flat(NumM, S)
      BY <3>1, ListFacts
    <3> QED BY <2>4, <2>13, <2>15, <3>2, InstructionsFlat DEF Stack
  <2> QED BY <2>10, <2>12, <2>16, <2>17 DEF T
<1> HIDE DEF told, T
<1> QED BY <1>1, <1>2, FoldCases DEF T, told

LEMMA FoldedIR ==
    ASSUME NEW S, IsList(S, Shaped), HasUser(S)
    PROVE  IsList(FoldSystemIntoUser(S), IR)
<1> DEFINE T == FoldSystemIntoUser(S)
<1>0. IsList(S, IR)
  BY ShapedWide
<1>1. CASE T = S
  BY <1>0, <1>1
<1>2. ASSUME NEW u \in 1..Len(S), S[u] \in UserMsg(PlainPiece),
             T = Flat(NonF, Put(S, u,
                       [S[u] EXCEPT !.content = Prefixed(Prefix(S), S[u].content)]))
      PROVE  IsList(T, IR)
  <2> DEFINE m == [S[u] EXCEPT !.content = Prefixed(Prefix(S), S[u].content)]
             N == Put(S, u, m)
  <2>1. IsList(Prefix(S), Piece)
    BY <1>0, PrefixText
  <2>2. m \in IR
    <3>1. m \in UserMsg(Piece)
      BY <1>2, <2>1, PrefixedFacts
    <3> QED BY <3>1, Messages
  <2>3. IsList(N, IR)
    <3> HIDE DEF m
    <3>1. Gives(OtherM, IR, Fact)
      BY ShapedParts
    <3> QED BY <1>0, <2>2, <3>1, FlatAround
  <2>4. T = Flat(NonF, N)
    BY <1>2
  <2> HIDE DEF m, N, T
  <2>5. IsList(T, Rest)
    BY <2>3, <2>4, SelectSystem
  <2> QED BY <2>5, Messages, Wider
<1> HIDE DEF T
<1> QED BY <1>1, <1>2, FoldCases DEF T

-----------------------------------------------------------------------------
(* The role of results at an Anthropic upstream.                           *)

LEMMA RestUnderTool ==
    ASSUME NEW m \in Rest, NEW i \in DOMAIN AnthropicContent(m)
    PROVE  AnthropicContent(m)[i].type = "tool_result" <=> m.role = "tool"
<1>1. CASE m.role = "tool"
  <2>1. \E t : AnthropicContent(m) = <<ToolResult(m.call_id, t)>>
    BY <1>1 DEF AnthropicContent
  <2>2. PICK b : AnthropicContent(m) = <<b>> /\ b.type = "tool_result"
    BY <2>1 DEF ToolResult
  <2>3. AnthropicContent(m)[i] = b
    BY <2>2
  <2> QED BY <1>1, <2>2, <2>3
<1>2. CASE m.role # "tool"
  <2>1. m \in IR
    BY Messages
  <2>2. IsList(m.content, PartsOf(Piece)) /\ IsList(m.calls, Call)
    BY <2>1, IRShape
  <2> DEFINE A == Map(AnthropicPart, m.content)  B == Map(AnthropicCall, m.calls)
  <2>3. AnthropicContent(m) = A \o B
    BY <1>2 DEF AnthropicContent, AnthropicPart, AnthropicCall, Map
  <2>4. IsList(A, Blocks) /\ IsList(B, Blocks)
    BY <2>2, AnthropicParts, NoIdNat
  <2>5. \A b \in Blocks : b.type # "tool_result"
    <3>1. \A p \in PartsOf(Piece) : AnthropicPart(p).type # "tool_result"
      BY PartCases DEF AnthropicPart
    <3>2. \A c \in Call : AnthropicCall(c).type # "tool_result"
      BY DEF AnthropicCall, ToolUse
    <3> QED BY <3>1, <3>2 DEF Blocks
  <2> HIDE DEF A, B
  <2>6. IsList(A \o B, Blocks)
    BY <2>4, ListFacts
  <2>7. AnthropicContent(m)[i] \in Blocks
    BY <2>3, <2>6, Listed
  <2> QED BY <1>2, <2>5, <2>7
<1> QED BY <1>1, <1>2

LEMMA SerializedUnderTool ==
    ASSUME NEW S, IsList(S, IR), NEW c
    PROVE  ResultsUnderTool(SerializeAnthropicMessagesRequest(S, c))
<1> DEFINE r == SerializeAnthropicMessagesRequest(S, c)
           w(m) == [role |-> m.role, content |-> AnthropicContent(m)]
           N == Flat(NonF, S)
<1>1. r.messages = [i \in DOMAIN N |-> w(N[i])]
  BY SelectSystem DEF SerializeAnthropicMessagesRequest, Map
<1>2. IsList(N, Rest)
  BY SelectSystem
<1> HIDE DEF r, N
<1> SUFFICES ASSUME NEW m \in Range(r.messages), NEW p \in Range(m.content)
             PROVE  p.type = "tool_result" <=> m.role = "tool"
  BY DEF ResultsUnderTool, r
<1>3. PICK i \in DOMAIN N : m = w(N[i])
  BY <1>1 DEF Range
<1>4. PICK n \in Rest : n = N[i]
  BY <1>2, Listed
<1>5. m.role = n.role /\ m.content = AnthropicContent(n)
  BY <1>3, <1>4
<1>6. PICK j \in DOMAIN AnthropicContent(n) : p = AnthropicContent(n)[j]
  BY <1>5 DEF Range
<1> QED BY <1>5, <1>6, RestUnderTool

-----------------------------------------------------------------------------
(* What the gateway reads of what a client wrote.                          *)

\* What one message or item of a client is read as.
ParseMsg(e, m) ==
    IF e = "openai" THEN <<ParseOpenAIMessage(m)>>
    ELSE IF e = "anthropic" THEN ParseAnthropicMessage(m) ELSE ParseResponsesItem(m)

Parsed(e, s) == FlattenSeq(Map(LAMBDA m : ParseMsg(e, m), s))
FactsOf(e, s) == FlattenSeq(Map(LAMBDA m : Facts(e, m), s))

\* A message the gateway reads as it was meant.
Legible(e, m) ==
    IsList(ParseMsg(e, m), Shaped) /\ Facts(e, m) = Flat(IRF, ParseMsg(e, m))
AllLegible(e, X) == \A x \in X : Legible(e, x)
Readable(e, s) == \E X : IsList(s, X) /\ AllLegible(e, X)

LEMMA ParsedFlat ==
    ASSUME NEW e, NEW X, AllLegible(e, X)
    PROVE  \E p, q :
             /\ Gives(p, X, Shaped) /\ Gives(q, X, Fact) /\ Fuses(q, IRF, p, X)
             /\ \A s : IsList(s, X) => Parsed(e, s) = Flat(p, s) /\ FactsOf(e, s) = Flat(q, s)
             /\ \A x \in X : p[x] = ParseMsg(e, x) /\ q[x] = Facts(e, x)
<1> DEFINE p == [x \in X |-> ParseMsg(e, x)]
           q == [x \in X |-> Facts(e, x)]
<1>1. \A x \in X : IsList(ParseMsg(e, x), Shaped) /\ Facts(e, x) = Flat(IRF, ParseMsg(e, x))
  BY DEF AllLegible, Legible
<1>2. Gives(p, X, Shaped)
  BY <1>1 DEF Gives
<1>3. Fuses(q, IRF, p, X)
  BY <1>1 DEF Fuses
<1>4. Gives(q, X, Fact)
  <2>1. \A x \in X : IsList(Flat(IRF, ParseMsg(e, x)), Fact)
    BY <1>1, StoryParts
  <2> QED BY <1>1, <2>1 DEF Gives
<1>5. ASSUME NEW s, IsList(s, X)
      PROVE  Parsed(e, s) = Flat(p, s) /\ FactsOf(e, s) = Flat(q, s)
  BY <1>5, Listed DEF Parsed, FactsOf, Flat, Image, Map
<1>6. \A x \in X : p[x] = ParseMsg(e, x) /\ q[x] = Facts(e, x)
  OBVIOUS
<1> HIDE DEF p, q
<1> QED BY <1>2, <1>3, <1>4, <1>5, <1>6

LEMMA ReadableFacts ==
    ASSUME NEW e, NEW s, Readable(e, s)
    PROVE  /\ IsList(Parsed(e, s), Shaped)
           /\ FactsOf(e, s) = Flat(IRF, Parsed(e, s)) /\ IsList(FactsOf(e, s), Fact)
<1>1. PICK X : IsList(s, X) /\ AllLegible(e, X)
  BY DEF Readable
<1>2. PICK p, q :
        /\ Gives(p, X, Shaped) /\ Gives(q, X, Fact) /\ Fuses(q, IRF, p, X)
        /\ Parsed(e, s) = Flat(p, s) /\ FactsOf(e, s) = Flat(q, s)
  BY <1>1, ParsedFlat
<1>3. IsList(Flat(p, s), Shaped) /\ IsList(Flat(q, s), Fact)
  BY <1>1, <1>2, FlatGives
<1>4. Flat(IRF, Flat(p, s)) = Flat(q, s)
  <2>1. Gives(IRF, Shaped, Fact)
    BY ShapedGives
  <2> QED BY <1>1, <1>2, <2>1, FlatThen
<1> QED BY <1>2, <1>3, <1>4

LEMMA ReadableConcat ==
    ASSUME NEW e, NEW s, NEW t, Readable(e, s), Readable(e, t)
    PROVE  /\ Readable(e, s \o t)
           /\ Parsed(e, s \o t) = Parsed(e, s) \o Parsed(e, t)
           /\ FactsOf(e, s \o t) = FactsOf(e, s) \o FactsOf(e, t)
<1>1. PICK X : IsList(s, X) /\ AllLegible(e, X)
  BY DEF Readable
<1>2. PICK Y : IsList(t, Y) /\ AllLegible(e, Y)
  BY DEF Readable
<1>3. PICK Z : Z = X \cup Y
  OBVIOUS
<1>4. AllLegible(e, Z)
  BY <1>1, <1>2, <1>3 DEF AllLegible
<1>5. IsList(s, Z) /\ IsList(t, Z)
  <2>1. X \subseteq Z /\ Y \subseteq Z
    BY <1>3
  <2> QED BY <1>1, <1>2, <2>1, Wider
<1>6. IsList(s \o t, Z)
  BY <1>5, ListFacts
<1>7. PICK p, q :
        /\ Gives(p, Z, Shaped) /\ Gives(q, Z, Fact)
        /\ \A r : IsList(r, Z) => Parsed(e, r) = Flat(p, r) /\ FactsOf(e, r) = Flat(q, r)
  BY <1>4, ParsedFlat
<1>8. Flat(p, s \o t) = Flat(p, s) \o Flat(p, t)
  <2>1. Gives(p, Z, Shaped)
    BY <1>7
  <2> QED BY <1>5, <2>1, FlatJoin
<1>9. Flat(q, s \o t) = Flat(q, s) \o Flat(q, t)
  <2>1. Gives(q, Z, Fact)
    BY <1>7
  <2> QED BY <1>5, <2>1, FlatJoin
<1>10. Readable(e, s \o t)
  BY <1>4, <1>6 DEF Readable
<1> QED BY <1>5, <1>6, <1>7, <1>8, <1>9, <1>10

LEMMA ReadableEmpty ==
    ASSUME NEW e
    PROVE  /\ Readable(e, <<>>) /\ Parsed(e, <<>>) = <<>> /\ FactsOf(e, <<>>) = <<>>
<1>1. AllLegible(e, {})
  BY DEF AllLegible
<1>2. IsList(<<>>, {})
  BY ListFacts
<1>3. PICK p, q : Parsed(e, <<>>) = Flat(p, <<>>) /\ FactsOf(e, <<>>) = Flat(q, <<>>)
  BY <1>1, <1>2, ParsedFlat
<1> QED BY <1>1, <1>2, <1>3, FlatEmpty DEF Readable

LEMMA ReadableOne ==
    ASSUME NEW e, NEW m, Legible(e, m)
    PROVE  /\ Readable(e, <<m>>)
           /\ Parsed(e, <<m>>) = ParseMsg(e, m) /\ FactsOf(e, <<m>>) = Facts(e, m)
<1>1. AllLegible(e, {m})
  BY DEF AllLegible
<1>2. IsList(<<m>>, {m})
  BY ListFacts
<1>3. PICK p, q :
        /\ Parsed(e, <<m>>) = Flat(p, <<m>>) /\ FactsOf(e, <<m>>) = Flat(q, <<m>>)
        /\ \A x \in {m} : p[x] = ParseMsg(e, x) /\ q[x] = Facts(e, x)
  BY <1>1, <1>2, ParsedFlat
<1>4. Flat(p, <<m>>) = p[m] /\ Flat(q, <<m>>) = q[m]
  BY FlatOne
<1> QED BY <1>1, <1>2, <1>3, <1>4 DEF Readable

\* One message for each element of a list.
Writes(e, f, p, q, X) ==
    \A x \in X : Legible(e, f[x]) /\ p[x] = ParseMsg(e, f[x]) /\ q[x] = Facts(e, f[x])

LEMMA ReadableImage ==
    ASSUME NEW e, NEW X, NEW f, NEW p, NEW q, Writes(e, f, p, q, X), NEW s, IsList(s, X)
    PROVE  /\ Readable(e, Image(f, s))
           /\ Parsed(e, Image(f, s)) = Flat(p, s) /\ FactsOf(e, Image(f, s)) = Flat(q, s)
<1>1. PICK g : g = [x \in X |-> f[x]]
  OBVIOUS
<1>2. PICK Y : Y = {f[x] : x \in X}
  OBVIOUS
<1>3. Maps(g, X, Y) /\ Image(g, s) = Image(f, s)
  BY <1>1, <1>2, Listed DEF Maps, Image
<1>4. IsList(Image(f, s), Y)
  <2>1. IsList(Image(g, s), Y)
    BY <1>3, ImageType
  <2> QED BY <1>3, <2>1
<1>5. AllLegible(e, Y)
  BY <1>2 DEF AllLegible, Writes
<1>6. Map(LAMBDA m : ParseMsg(e, m), Image(f, s)) = Image(p, s)
  <2>1. \A i \in DOMAIN s : ParseMsg(e, f[s[i]]) = p[s[i]]
    BY Listed DEF Writes
  <2> QED BY <2>1 DEF Map, Image
<1>7. Map(LAMBDA m : Facts(e, m), Image(f, s)) = Image(q, s)
  <2>1. \A i \in DOMAIN s : Facts(e, f[s[i]]) = q[s[i]]
    BY Listed DEF Writes
  <2> QED BY <2>1 DEF Map, Image
<1> QED BY <1>4, <1>5, <1>6, <1>7 DEF Readable, Parsed, FactsOf, Flat

\* The parts clients write, by the protocol.
OpenAIParts(P) ==
    [type : {"text"}, text : Seq(P)] \cup [type : {"image_url"}, image_url : Url]
        \cup {[type |-> "file"]}
ResponsesParts(P) ==
    [type : {"input_text", "output_text"}, text : Seq(P)]
        \cup [type : {"input_image"}, image_url : Url] \cup {[type |-> "file"]}
BlockParts(P) ==
    [type : {"text"}, text : Seq(P)] \cup [type : {"image"}, source : {ImageSource(u) : u \in Url}]
        \cup {[type |-> "file"]}

Within(P) == PartsOf(P) \subseteq PartsOf(Piece)
PartSet(X, P) == X \in {ResponsesParts(P), BlockParts(P)}

\* How a part is read, by Responses and by Anthropic.
ReadPart(p) ==
    IF p.type \in {"text", "input_text", "output_text"} THEN <<TextPart(p.text)>>
    ELSE IF p.type = "input_image" THEN <<ImagePart(p.image_url)>>
    ELSE IF p.type = "image" THEN <<ImagePart(ImageToDataURL(p.source))>>
    ELSE <<>>
ReadF(X) == [p \in X |-> ReadPart(p)]

LEMMA OpenAIRead ==
    ASSUME NEW P, Within(P), NEW content, IsList(content, OpenAIParts(P)),
           NEW who \in Roles
    PROVE  /\ IsList(ParseOpenAIContent(content), PartsOf(P))
           /\ ContentFacts(who, content) = Flat(PartF(who), ParseOpenAIContent(content))
<1> DEFINE conv(p) == IF p.type = "image_url" THEN ImagePart(p.image_url) ELSE p
<1>1. ASSUME NEW p \in OpenAIParts(P)
      PROVE  conv(p) \in PartsOf(P) /\ PartFacts(who, p) = PartF(who)[conv(p)]
  <2>1. CASE p \in [type : {"text"}, text : Seq(P)]
    <3>1. p.type = "text" /\ conv(p) = p /\ p \in PartsOf(P)
      BY <2>1 DEF PartsOf
    <3> HIDE DEF conv
    <3>2. p \in PartsOf(Piece)
      BY <3>1 DEF Within
    <3> QED BY <3>1, <3>2 DEF PartFacts, PartF, IRPartFacts
  <2>2. CASE p \in [type : {"image_url"}, image_url : Url]
    <3>1. p.type = "image_url" /\ conv(p) = ImagePart(p.image_url) /\ p.image_url \in Url
      BY <2>2
    <3>2. ImagePart(p.image_url) \in PartsOf(P)
      BY <3>1 DEF PartsOf, ImagePart
    <3>3. ImagePart(p.image_url) \in PartsOf(Piece)
      BY <3>2 DEF Within
    <3>4. PartF(who)[ImagePart(p.image_url)] = <<ImageFact(who, p.image_url)>>
      BY <3>3 DEF PartF, IRPartFacts, ImagePart
    <3>5. PartFacts(who, p) = <<ImageFact(who, p.image_url)>>
      BY <3>1 DEF PartFacts
    <3> QED BY <3>1, <3>2, <3>4, <3>5
  <2>3. CASE p = [type |-> "file"]
    <3>1. p.type = "file" /\ conv(p) = p /\ p \in PartsOf(P) /\ p \in PartsOf(Piece)
      BY <2>3 DEF PartsOf
    <3> HIDE DEF conv
    <3> QED BY <3>1 DEF PartFacts, PartF, IRPartFacts
  <2> QED BY <2>1, <2>2, <2>3 DEF OpenAIParts
<1>2. ParseOpenAIContent(content) = [i \in DOMAIN content |-> conv(content[i])]
  BY DEF ParseOpenAIContent, Map
<1> HIDE DEF conv
<1>3. \A i \in DOMAIN content :
        conv(content[i]) \in PartsOf(P) /\ PartFacts(who, content[i]) = PartF(who)[conv(content[i])]
  BY <1>1, Listed
<1>4. IsList(ParseOpenAIContent(content), PartsOf(P))
  BY <1>2, <1>3 DEF IsList
<1>5. Map(LAMBDA p : PartFacts(who, p), content) = Image(PartF(who), ParseOpenAIContent(content))
  BY <1>2, <1>3 DEF Map, Image
<1> QED BY <1>4, <1>5 DEF ContentFacts, Flat

LEMMA ReadPartType ==
    ASSUME NEW P, Within(P), NEW who \in Roles,
           NEW X, PartSet(X, P)
    PROVE  /\ Gives(ReadF(X), X, PartsOf(P))
           /\ \A p \in X : PartFacts(who, p) = Flat(PartF(who), ReadPart(p))
<1>1. ASSUME NEW p \in X
      PROVE  /\ IsList(ReadPart(p), PartsOf(P))
             /\ PartFacts(who, p) = Flat(PartF(who), ReadPart(p))
  <2>1. ASSUME NEW q \in PartsOf(P), ReadPart(p) = <<q>>
        PROVE  /\ IsList(ReadPart(p), PartsOf(P))
               /\ Flat(PartF(who), ReadPart(p)) = IRPartFacts(who, q)
    <3>1. q \in PartsOf(Piece)
      BY DEF Within
    <3>2. IsList(<<q>>, PartsOf(P))
      BY ListFacts
    <3>3. Flat(PartF(who), <<q>>) = PartF(who)[q]
      BY FlatOne
    <3> QED BY <2>1, <3>1, <3>2, <3>3 DEF PartF
  <2>2. CASE p.type \in {"text", "input_text", "output_text"} /\ p.text \in Seq(P)
    <3>1. ReadPart(p) = <<TextPart(p.text)>>
      BY <2>2 DEF ReadPart
    <3>2. TextPart(p.text) \in PartsOf(P) /\ IRPartFacts(who, TextPart(p.text)) = TextFacts(who, p.text)
      BY <2>2 DEF PartsOf, TextPart, IRPartFacts
    <3>3. PartFacts(who, p) = TextFacts(who, p.text)
      BY <2>2 DEF PartFacts
    <3> QED BY <2>1, <3>1, <3>2, <3>3
  <2>3. CASE p.type = "input_image" /\ p.image_url \in Url
    <3>1. ReadPart(p) = <<ImagePart(p.image_url)>>
      BY <2>3 DEF ReadPart
    <3>2. /\ ImagePart(p.image_url) \in PartsOf(P)
          /\ IRPartFacts(who, ImagePart(p.image_url)) = <<ImageFact(who, p.image_url)>>
      BY <2>3 DEF PartsOf, ImagePart, IRPartFacts
    <3>3. PartFacts(who, p) = <<ImageFact(who, p.image_url)>>
      BY <2>3 DEF PartFacts
    <3> QED BY <2>1, <3>1, <3>2, <3>3
  <2>4. CASE p.type = "image" /\ ImageToDataURL(p.source) \in Url
    <3>1. PICK u : u = ImageToDataURL(p.source)
      OBVIOUS
    <3>2. ReadPart(p) = <<ImagePart(u)>>
      BY <2>4, <3>1 DEF ReadPart
    <3>3. /\ ImagePart(u) \in PartsOf(P)
          /\ IRPartFacts(who, ImagePart(u)) = <<ImageFact(who, u)>>
      BY <2>4, <3>1 DEF PartsOf, ImagePart, IRPartFacts
    <3>4. PartFacts(who, p) = <<ImageFact(who, u)>>
      BY <2>4, <3>1 DEF PartFacts
    <3> QED BY <2>1, <3>2, <3>3, <3>4
  <2>5. CASE p.type = "file"
    <3>1. ReadPart(p) = <<>>
      BY <2>5 DEF ReadPart
    <3>2. PartFacts(who, p) = <<>>
      BY <2>5 DEF PartFacts
    <3> QED BY <3>1, <3>2, FlatEmpty, ListFacts
  <2>6. CASE p \in [type : {"image"}, source : {ImageSource(u) : u \in Url}]
    <3>1. p.type = "image" /\ p.source \in {ImageSource(u) : u \in Url}
      BY <2>6
    <3>2. PICK u \in Url : p.source = ImageSource(u)
      BY <3>1
    <3> QED BY <3>1, <3>2, <2>4, UrlRound
  <2> QED BY <2>2, <2>3, <2>5, <2>6 DEF ResponsesParts, BlockParts, PartSet
<1> QED BY <1>1 DEF Gives, ReadF

LEMMA ReadContent ==
    ASSUME NEW P, Within(P), NEW who \in Roles,
           NEW X, PartSet(X, P), NEW content, IsList(content, X)
    PROVE  /\ IsList(Flat(ReadF(X), content), PartsOf(P))
           /\ ContentFacts(who, content) = Flat(PartF(who), Flat(ReadF(X), content))
<1> DEFINE f == [p \in X |-> PartFacts(who, p)]
<1>1. Gives(ReadF(X), X, PartsOf(P)) /\ \A p \in X : PartFacts(who, p) = Flat(PartF(who), ReadPart(p))
  BY ReadPartType
<1>2. IsList(Flat(ReadF(X), content), PartsOf(P))
  BY <1>1, FlatGives
<1>3. ContentFacts(who, content) = Flat(f, content)
  BY Listed DEF ContentFacts, Map, Flat, Image
<1>4. Fuses(f, PartF(who), ReadF(X), X)
  BY <1>1 DEF Fuses, ReadF
<1>5. Gives(PartF(who), PartsOf(P), Fact)
  <2>1. Gives(PartF(who), PartsOf(Piece), Fact)
    BY PartFType, GivesLists
  <2> QED BY <2>1 DEF Gives, Within
<1> HIDE DEF f
<1>6. Flat(PartF(who), Flat(ReadF(X), content)) = Flat(f, content)
  BY <1>1, <1>4, <1>5, FlatThen
<1> QED BY <1>2, <1>3, <1>6

LEMMA ReadResponses ==
    ASSUME NEW P, Within(P), NEW who \in Roles, NEW content, IsList(content, ResponsesParts(P))
    PROVE  /\ IsList(Flat(ReadF(ResponsesParts(P)), content), PartsOf(P))
           /\ ContentFacts(who, content)
                = Flat(PartF(who), Flat(ReadF(ResponsesParts(P)), content))
<1>1. PICK X : X = ResponsesParts(P)
  OBVIOUS
<1>2. PartSet(X, P) /\ IsList(content, X)
  BY <1>1 DEF PartSet
<1>3. /\ IsList(Flat(ReadF(X), content), PartsOf(P))
      /\ ContentFacts(who, content) = Flat(PartF(who), Flat(ReadF(X), content))
  BY <1>2, ReadContent
<1> QED BY <1>1, <1>3

LEMMA ReadBlocks ==
    ASSUME NEW P, Within(P), NEW who \in Roles, NEW content, IsList(content, BlockParts(P))
    PROVE  /\ IsList(Flat(ReadF(BlockParts(P)), content), PartsOf(P))
           /\ ContentFacts(who, content)
                = Flat(PartF(who), Flat(ReadF(BlockParts(P)), content))
<1>1. PICK X : X = BlockParts(P)
  OBVIOUS
<1>2. PartSet(X, P) /\ IsList(content, X)
  BY <1>1 DEF PartSet
<1>3. /\ IsList(Flat(ReadF(X), content), PartsOf(P))
      /\ ContentFacts(who, content) = Flat(PartF(who), Flat(ReadF(X), content))
  BY <1>2, ReadContent
<1> QED BY <1>1, <1>3

LEMMA PartSets ==
    /\ Within(PlainPiece) /\ Within(Piece)
    /\ "openai" \in Entries /\ "anthropic" \in Entries /\ "responses" \in Entries
BY PartFType, NoIdNat DEF Entries, Within

ToolMessage(id) == Message("tool", <<TextPart(<<<<"r", id>>>>)>>, <<>>, id)
SystemMessage(n) == Message("system", <<TextPart(<<<<"s", n>>>>)>>, <<>>, NoId)
UserMessage(c) == Message("user", c, <<>>, NoId)
AssistantMessage(c, calls) == Message("assistant", c, calls, NoId)

LEMMA MessageSets ==
    /\ \A id \in Nat : ToolMessage(id) \in ToolMsg /\ ToolMessage(id) \in Shaped
    /\ \A n \in Nat : SystemMessage(n) \in SystemMsg /\ SystemMessage(n) \in Shaped
    /\ \A c : IsList(c, PartsOf(PlainPiece)) =>
          UserMessage(c) \in UserMsg(PlainPiece) /\ UserMessage(c) \in Shaped
    /\ \A c, calls : IsList(c, PartsOf(PlainPiece)) /\ IsList(calls, Call) =>
          AssistantMessage(c, calls) \in AssistantMsg /\ AssistantMessage(c, calls) \in Shaped
<1>1. \A id \in Nat : ToolMessage(id) \in ToolMsg
  BY DEF ToolMsg, ToolMessage
<1>2. \A n \in Nat : SystemMessage(n) \in SystemMsg
  BY DEF SystemMsg, SystemMessage
<1>3. ASSUME NEW c, IsList(c, PartsOf(PlainPiece))
      PROVE  UserMessage(c) \in UserMsg(PlainPiece)
  BY <1>3 DEF UserMsg, UserMessage, Message, IsList
<1>4. ASSUME NEW c, NEW calls, IsList(c, PartsOf(PlainPiece)), IsList(calls, Call)
      PROVE  AssistantMessage(c, calls) \in AssistantMsg
  BY <1>4 DEF AssistantMsg, AssistantMessage, Message, IsList
<1> QED BY <1>1, <1>2, <1>3, <1>4 DEF Shaped, Plain

LEMMA Pair ==
    ASSUME NEW x, NEW y
    PROVE  <<x>> \o <<y>> = <<x, y>>
<1>1. PICK X : X = {x, y}
  OBVIOUS
<1>2. PICK s : s = <<x>>
  OBVIOUS
<1>3. PICK t : t = <<y>>
  OBVIOUS
<1>4. PICK d : d = <<x, y>>
  OBVIOUS
<1>5. IsList(s, X) /\ IsList(t, X) /\ IsList(d, X)
  BY <1>1, <1>2, <1>3, <1>4 DEF IsList
<1>6. Len(s) = 1 /\ s[1] = x /\ Len(t) = 1 /\ t[1] = y /\ Len(d) = 2 /\ d[1] = x /\ d[2] = y
  BY <1>2, <1>3, <1>4
<1>7. PICK c : c = s \o t
  OBVIOUS
<1>8. IsList(c, X) /\ Joined(s, t, c)
  BY <1>5, <1>7, ConcatAt
<1>9. Len(c) = 2 /\ c[1] = x
  BY <1>6, <1>8 DEF Joined
<1>10. c[2] = y
  <2>1. c[Len(s) + 1] = t[1]
    BY <1>6, <1>8 DEF Joined
  <2> QED BY <2>1, <1>6
<1>11. Alike(c, d)
  BY <1>6, <1>9, <1>10 DEF Alike
<1>12. c = d
  BY <1>5, <1>8, <1>11, JoinedSame
<1> QED BY <1>2, <1>3, <1>4, <1>7, <1>12

LEMMA ToolMessageFacts ==
    ASSUME NEW id \in Nat
    PROVE  /\ IRF[ToolMessage(id)] = <<ResultFact(id), <<"tool", "text", "r", id>>>>
           /\ <<ResultFact(id)>> \o TextFacts("tool", <<<<"r", id>>>>)
                = <<ResultFact(id), <<"tool", "text", "r", id>>>>
<1>1. PICK t : t = <<<<"r", id>>>>
  OBVIOUS
<1>2. IsList(t, Piece)
  BY <1>1, SinglePieces
<1>3. TextFacts("tool", t) = <<<<"tool", "text", "r", id>>>>
  BY <1>1, SingleFacts
<1>4. Flat(PartF("tool"), <<TextPart(t)>>) = TextFacts("tool", t)
  BY <1>2, NoIdNat, SingleText
<1> DEFINE m == Message("tool", <<TextPart(t)>>, <<>>, id)
<1>5. m.role = "tool" /\ m.content = <<TextPart(t)>> /\ m.calls = <<>> /\ m.call_id = id
  BY DEF Message
<1> HIDE DEF m
<1>6. IRFacts(m) = (<<ResultFact(id)>> \o TextFacts("tool", t)) \o <<>>
  BY <1>4, <1>5, FlatEmpty DEF IRFacts, Opt
<1>7. <<ResultFact(id)>> \o TextFacts("tool", t) = <<ResultFact(id), <<"tool", "text", "r", id>>>>
  <2>1. PICK x : x = ResultFact(id)
    OBVIOUS
  <2>2. PICK y : y = <<"tool", "text", "r", id>>
    OBVIOUS
  <2>3. <<x>> \o <<y>> = <<x, y>>
    BY Pair
  <2> QED BY <1>3, <2>1, <2>2, <2>3
<1>8. IsList(<<ResultFact(id)>> \o TextFacts("tool", t), Fact)
  <2>1. IsList(<<ResultFact(id)>>, Fact)
    BY FactFields, Speakers, ListFacts
  <2>2. IsList(TextFacts("tool", t), Fact)
    <3>1. IsList(TextFacts("tool", t), FactOf("tool"))
      BY <1>2, NoIdNat, TextFactsType
    <3> QED BY <3>1, Speakers, Wider
  <2> QED BY <2>1, <2>2, ListFacts
<1>9. IRFacts(m) = <<ResultFact(id)>> \o TextFacts("tool", t)
  BY <1>6, <1>8, ListFacts
<1>10. ToolMessage(id) = m /\ ToolMessage(id) \in IR
  BY <1>1, MessageSets, Messages DEF m, ToolMessage
<1> QED BY <1>1, <1>7, <1>9, <1>10, IRFType

LEMMA FlatOfOne ==
    ASSUME NEW m \in IR
    PROVE  Flat(IRF, <<m>>) = IRFacts(m)
BY FlatOne, IRFType

LEMMA OpenAILegible ==
    ASSUME NEW P, Within(P), NEW role \in Roles,
           NEW content, IsList(content, OpenAIParts(P)), NEW calls, IsList(calls, Call), NEW id,
           Message(role, ParseOpenAIContent(content), calls, id) \in Shaped
    PROVE  LET m == OpenAIMessage(role, content, calls, id)
           IN /\ Legible("openai", m)
              /\ ParseMsg("openai", m) = <<Message(role, ParseOpenAIContent(content), calls, id)>>
<1> DEFINE m == OpenAIMessage(role, content, calls, id)
           i == Message(role, ParseOpenAIContent(content), calls, id)
<1>1. m.role = role /\ m.content = content /\ m.tool_calls = calls /\ m.tool_call_id = id
  BY DEF OpenAIMessage
<1>2. i.role = role /\ i.content = ParseOpenAIContent(content) /\ i.calls = calls /\ i.call_id = id
  BY DEF Message
<1>3. ParseMsg("openai", m) = <<i>>
  BY <1>1 DEF ParseMsg, ParseOpenAIMessage
<1>4. i \in IR /\ i \in Shaped
  BY Messages
<1> HIDE DEF m, i
<1>5. ContentFacts(role, content) = Flat(PartF(role), ParseOpenAIContent(content))
  BY OpenAIRead
<1>6. Map(LAMBDA c : CallFact(c.id, c.args), calls) = Flat(CallF, calls)
  BY CallsFlat
<1>7. Facts("openai", m) = (Opt(role = "tool", ResultFact(id))
                              \o Flat(PartF(role), ParseOpenAIContent(content))) \o Flat(CallF, calls)
  BY <1>1, <1>5, <1>6 DEF Facts
<1>8. Facts("openai", m) = IRFacts(i)
  BY <1>2, <1>7 DEF IRFacts
<1>9. IsList(<<i>>, Shaped) /\ Flat(IRF, <<i>>) = IRFacts(i)
  BY <1>4, ListFacts, FlatOfOne
<1>10. Legible("openai", m)
  BY <1>3, <1>8, <1>9 DEF Legible
<1> QED BY <1>3, <1>10 DEF m, i

LEMMA ResponsesContent ==
    ASSUME NEW content, NEW P, IsList(content, ResponsesParts(P))
    PROVE  ParseResponsesContent(content) = Flat(ReadF(ResponsesParts(P)), content)
<1> DEFINE X == ResponsesParts(P)
           Y == {p \in X : p.type \in {"input_text", "output_text", "input_image"}}
           conv(p) == IF p.type = "input_image" THEN ImagePart(p.image_url) ELSE TextPart(p.text)
           sel == [p \in X |-> Opt(p.type \in {"input_text", "output_text", "input_image"}, p)]
           f == [p \in Y |-> conv(p)]
           g == [p \in Y |-> <<conv(p)>>]
           Z == {conv(p) : p \in Y}
           O == OfType({"input_text", "output_text", "input_image"}, content)
<1>1. O = Flat(sel, content)
  BY Listed DEF OfType, Select, Map, Flat, Image
<1>2. Gives(sel, X, Y)
  BY ListFacts DEF Gives, Opt
<1>3. IsList(O, Y)
  <2> HIDE DEF X, Y, sel, O
  <2> QED BY <1>1, <1>2, FlatGives DEF X
<1>4. ParseResponsesContent(content) = Image(f, O)
  BY <1>3, Listed DEF ParseResponsesContent, Map, Image
<1>5. Maps(f, Y, Z) /\ \A p \in Y : g[p] = <<f[p]>>
  BY DEF Maps
<1>6. Gives(g, Y, Z)
  <2>1. \A p \in Y : conv(p) \in Z
    OBVIOUS
  <2> HIDE DEF conv, Z, Y
  <2> QED BY <2>1, ListFacts DEF Gives
<1>7. Fuses(ReadF(X), g, sel, X)
  <2> SUFFICES ASSUME NEW p \in X
               PROVE  ReadF(X)[p] = Flat(g, sel[p])
    BY DEF Fuses
  <2>0. ReadF(X)[p] = ReadPart(p)
    BY DEF ReadF
  <2>1. CASE p \in Y
    <3>1. sel[p] = <<p>>
      BY <2>1 DEF Opt
    <3>2. g[p] = ReadPart(p)
      BY <2>1 DEF ReadPart
    <3> HIDE DEF sel, g, X, Y
    <3> QED BY <2>0, <3>1, <3>2, FlatOne
  <2>2. CASE p \notin Y
    <3>1. sel[p] = <<>>
      BY <2>2 DEF Opt
    <3>2. ReadPart(p) = <<>>
      BY <2>2 DEF ReadPart, ResponsesParts
    <3> HIDE DEF sel, g, X, Y
    <3> QED BY <2>0, <3>1, <3>2, FlatEmpty
  <2> QED BY <2>1, <2>2
<1> HIDE DEF X, Y, sel, f, g, Z, O
<1>8. IsList(content, X)
  BY DEF X
<1>9. Flat(g, O) = Image(f, O)
  BY <1>3, <1>5, FlatSingles
<1>10. Flat(g, Flat(sel, content)) = Flat(ReadF(X), content)
  BY <1>2, <1>6, <1>7, <1>8, FlatThen
<1> QED BY <1>1, <1>4, <1>9, <1>10 DEF X

-----------------------------------------------------------------------------
(* Items of the Responses protocol.                                        *)

\* The type an item is written with; who writes messages without results.
Marked(type) == {"", type}
OwnRoles == {"user", "assistant", "system"}

LEMMA OwnRole == "user" \in OwnRoles /\ "assistant" \in OwnRoles /\ "system" \in OwnRoles
BY DEF OwnRoles

LEMMA OwnFacts ==
    ASSUME NEW role \in OwnRoles, NEW c, IsList(c, PartsOf(Piece)),
           NEW calls, IsList(calls, Call)
    PROVE  IRFacts(Message(role, c, calls, NoId)) = Flat(PartF(role), c) \o Flat(CallF, calls)
<1> DEFINE m == Message(role, c, calls, NoId)
<1>1. m.role = role /\ m.content = c /\ m.calls = calls /\ m.call_id = NoId
  BY DEF Message
<1> HIDE DEF m
<1>2. IRFacts(m) = (<<>> \o Flat(PartF(role), c)) \o Flat(CallF, calls)
  BY <1>1 DEF IRFacts, Opt, OwnRoles
<1>3. <<>> \o Flat(PartF(role), c) = Flat(PartF(role), c)
  <2>1. IsList(Flat(PartF(role), c), Fact)
    BY NoIdNat, ContentType DEF OwnRoles
  <2> QED BY <2>1, ListFacts
<1> QED BY <1>2, <1>3 DEF m

LEMMA NoCallFacts ==
    ASSUME NEW role \in OwnRoles, NEW c, IsList(c, PartsOf(Piece))
    PROVE  IRFacts(Message(role, c, <<>>, NoId)) = Flat(PartF(role), c)
<1>1. IRFacts(Message(role, c, <<>>, NoId)) = Flat(PartF(role), c) \o <<>>
  <2>1. PICK e : e = <<>>
    OBVIOUS
  <2>2. IsList(e, Call)
    BY <2>1, ListFacts
  <2>3. IRFacts(Message(role, c, e, NoId)) = Flat(PartF(role), c) \o Flat(CallF, e)
    BY <2>2, OwnFacts, OwnRole
  <2> QED BY <2>1, <2>3, FlatEmpty
<1>2. IsList(Flat(PartF(role), c), Fact)
  BY NoIdNat, ContentType DEF OwnRoles
<1> QED BY <1>1, <1>2, ListFacts

LEMMA ResponsesMessage ==
    ASSUME NEW w \in Marked("message"), NEW role \in OwnRoles,
           NEW P, Within(P),
           NEW content, IsList(content, ResponsesParts(P)),
           Message(role, Flat(ReadF(ResponsesParts(P)), content), <<>>, NoId) \in Shaped
    PROVE  LET m == [type |-> w, role |-> role, content |-> content]
           IN /\ Legible("responses", m)
              /\ ParseMsg("responses", m)
                   = <<Message(role, Flat(ReadF(ResponsesParts(P)), content), <<>>, NoId)>>
              /\ Facts("responses", m) = ContentFacts(role, content)
<1> DEFINE m == [type |-> w, role |-> role, content |-> content]
           c == Flat(ReadF(ResponsesParts(P)), content)
           i == Message(role, c, <<>>, NoId)
<1>1. ItemType(m) = "message"
  BY DEF ItemType, Marked
<1>2. m.role = role /\ m.content = content
  OBVIOUS
<1>3. IsList(c, PartsOf(P)) /\ ContentFacts(role, content) = Flat(PartF(role), c)
  <2>1. role \in Roles
    BY NoIdNat DEF OwnRoles
  <2> HIDE DEF m, i
  <2> QED BY <2>1, ReadResponses
<1>4. ParseResponsesContent(content) = c
  BY ResponsesContent
<1> HIDE DEF m, c
<1>5. ParseResponsesItem(m) = <<i>>
  BY <1>1, <1>2, <1>4 DEF ParseResponsesItem, OwnRoles
<1>6. ParseMsg("responses", m) = <<i>>
  BY <1>5 DEF ParseMsg
<1>7. Facts("responses", m) = ContentFacts(role, content)
  BY <1>1, <1>2 DEF Facts
<1>8. IRFacts(i) = Flat(PartF(role), c)
  <2>1. IsList(c, PartsOf(Piece))
    BY <1>3, Wider DEF Within
  <2> QED BY <2>1, NoCallFacts
<1>9. i \in Shaped /\ i \in IR
  BY Messages DEF c
<1> HIDE DEF i
<1>10. IsList(<<i>>, Shaped) /\ Flat(IRF, <<i>>) = IRFacts(i)
  BY <1>9, ListFacts, FlatOfOne
<1>11. Legible("responses", m)
  BY <1>3, <1>6, <1>7, <1>8, <1>10 DEF Legible
<1> QED BY <1>6, <1>7, <1>11 DEF m, i, c

LEMMA ResponsesOutput ==
    ASSUME NEW w \in Marked("function_call_output"), NEW id \in Nat
    PROVE  LET m == [type |-> w, call_id |-> id, output |-> <<<<"r", id>>>>]
           IN /\ Legible("responses", m) /\ ParseMsg("responses", m) = <<ToolMessage(id)>>
              /\ Facts("responses", m) = <<ResultFact(id), <<"tool", "text", "r", id>>>>
<1> DEFINE m == [type |-> w, call_id |-> id, output |-> <<<<"r", id>>>>]
<1>1. ItemType(m) = "function_call_output"
  BY DEF ItemType, Marked
<1>2. m.call_id = id /\ m.output = <<<<"r", id>>>>
  OBVIOUS
<1> HIDE DEF m
<1>3. ParseMsg("responses", m) = <<ToolMessage(id)>>
  BY <1>1, <1>2 DEF ParseMsg, ParseResponsesItem, ToolMessage
<1>4. Facts("responses", m) = <<ResultFact(id)>> \o TextFacts("tool", <<<<"r", id>>>>)
  BY <1>1, <1>2 DEF Facts
<1>5. Facts("responses", m) = <<ResultFact(id), <<"tool", "text", "r", id>>>>
  BY <1>4, ToolMessageFacts
<1>6. ToolMessage(id) \in Shaped /\ ToolMessage(id) \in IR
  BY MessageSets, Messages
<1>7. IsList(<<ToolMessage(id)>>, Shaped) /\ Flat(IRF, <<ToolMessage(id)>>) = IRF[ToolMessage(id)]
  BY <1>6, ListFacts, FlatOne
<1>8. Legible("responses", m)
  BY <1>3, <1>5, <1>7, ToolMessageFacts DEF Legible
<1> QED BY <1>3, <1>5, <1>8 DEF m

LEMMA ResponsesCall ==
    ASSUME NEW w \in Marked("function_call"), NEW c \in Call
    PROVE  LET m == [type |-> w, call_id |-> c.id, arguments |-> c.args]
           IN /\ Legible("responses", m)
              /\ ParseMsg("responses", m) = <<AssistantMessage(<<>>, <<c>>)>>
              /\ Facts("responses", m) = <<CallFact(c.id, c.args)>>
<1> DEFINE m == [type |-> w, call_id |-> c.id, arguments |-> c.args]
           i == AssistantMessage(<<>>, <<c>>)
<1>1. ItemType(m) = "function_call"
  BY DEF ItemType, Marked
<1>2. m.call_id = c.id /\ m.arguments = c.args
  OBVIOUS
<1> HIDE DEF m
<1>3. [id |-> c.id, args |-> c.args] = c
  BY DEF Call
<1>4. ParseMsg("responses", m) = <<i>>
  BY <1>1, <1>2, <1>3 DEF ParseMsg, ParseResponsesItem, AssistantMessage
<1>5. Facts("responses", m) = <<CallFact(c.id, c.args)>>
  BY <1>1, <1>2 DEF Facts
<1>6. IsList(<<>>, PartsOf(PlainPiece)) /\ IsList(<<>>, PartsOf(Piece)) /\ IsList(<<c>>, Call)
  BY ListFacts
<1>7. i \in Shaped /\ i \in IR
  BY <1>6, MessageSets, Messages
<1>8. IRFacts(i) = <<>> \o Flat(CallF, <<c>>)
  <2>1. PICK e : e = <<>>
    OBVIOUS
  <2>2. PICK s : s = <<c>>
    OBVIOUS
  <2>3. IsList(e, PartsOf(Piece)) /\ IsList(s, Call)
    BY <1>6, <2>1, <2>2
  <2>4. IRFacts(Message("assistant", e, s, NoId)) = Flat(PartF("assistant"), e) \o Flat(CallF, s)
    BY <2>3, OwnFacts, OwnRole
  <2> QED BY <2>1, <2>2, <2>4, FlatEmpty DEF AssistantMessage
<1>9. Flat(CallF, <<c>>) = <<CallFact(c.id, c.args)>>
  <2>1. Flat(CallF, <<c>>) = CallF[c]
    BY FlatOne
  <2> QED BY <2>1 DEF CallF
<1>10. <<>> \o Flat(CallF, <<c>>) = Flat(CallF, <<c>>)
  <2>1. IsList(Flat(CallF, <<c>>), Fact)
    BY <1>6, CallFType, FlatType
  <2> QED BY <2>1, ListFacts
<1> HIDE DEF i
<1>11. IsList(<<i>>, Shaped) /\ Flat(IRF, <<i>>) = IRFacts(i)
  BY <1>7, ListFacts, FlatOfOne
<1>12. Legible("responses", m)
  BY <1>4, <1>5, <1>8, <1>9, <1>10, <1>11 DEF Legible
<1> QED BY <1>4, <1>5, <1>12 DEF m, i

-----------------------------------------------------------------------------
(* Blocks of the Anthropic protocol.                                       *)

\* A list, the elements of some kind, and what is made of each of them.
Picks(g, X, Y) == \A x \in X : g[x] = IF x \in Y THEN <<x>> ELSE <<>>
PicksOf(h, f, X, Y) == \A x \in X : h[x] = IF x \in Y THEN <<f[x]>> ELSE <<>>

LEMMA Picked ==
    ASSUME NEW X, NEW Y, NEW Z, NEW g, Picks(g, X, Y), NEW f, Maps(f, Y, Z),
           NEW h, PicksOf(h, f, X, Y), NEW s, IsList(s, X)
    PROVE  /\ IsList(Flat(g, s), Y) /\ Gives(h, X, Z)
           /\ Image(f, Flat(g, s)) = Flat(h, s)
<1>1. Gives(g, X, Y)
  <2> SUFFICES ASSUME NEW x \in X PROVE IsList(g[x], Y)
    BY DEF Gives
  <2>1. CASE x \in Y
    <3>1. IsList(<<x>>, Y)
      BY <2>1, ListFacts
    <3> QED BY <3>1, <2>1 DEF Picks
  <2>2. CASE x \notin Y
    <3>1. IsList(<<>>, Y)
      BY ListFacts
    <3> QED BY <3>1, <2>2 DEF Picks
  <2> QED BY <2>1, <2>2
<1>2. IsList(Flat(g, s), Y)
  BY <1>1, FlatGives
<1>3. PICK k : k = [y \in Y |-> <<f[y]>>]
  OBVIOUS
<1>4. \A y \in Y : k[y] = <<f[y]>>
  BY <1>3
<1>5. Flat(k, Flat(g, s)) = Image(f, Flat(g, s))
  BY <1>2, <1>4, FlatSingles
<1>6. Gives(k, Y, Z)
  <2>1. \A y \in Y : f[y] \in Z
    BY DEF Maps
  <2>2. \A y \in Y : IsList(<<f[y]>>, Z)
    BY <2>1, ListFacts
  <2> QED BY <2>2, <1>4 DEF Gives
<1>7. Fuses(h, k, g, X)
  <2> SUFFICES ASSUME NEW x \in X PROVE h[x] = Flat(k, g[x])
    BY DEF Fuses
  <2>1. CASE x \in Y
    <3>1. g[x] = <<x>>
      BY <2>1 DEF Picks
    <3>2. h[x] = <<f[x]>>
      BY <2>1 DEF PicksOf
    <3>3. k[x] = <<f[x]>>
      BY <2>1, <1>4
    <3>4. Flat(k, <<x>>) = k[x]
      BY FlatOne
    <3> QED BY <3>1, <3>2, <3>3, <3>4
  <2>2. CASE x \notin Y
    <3>1. g[x] = <<>>
      BY <2>2 DEF Picks
    <3>2. h[x] = <<>>
      BY <2>2 DEF PicksOf
    <3>3. Flat(k, <<>>) = <<>>
      BY FlatEmpty
    <3> QED BY <3>1, <3>2, <3>3
  <2> QED BY <2>1, <2>2
<1>8. Flat(k, Flat(g, s)) = Flat(h, s)
  BY <1>1, <1>6, <1>7, FlatThen
<1>9. Gives(h, X, Z)
  <2> SUFFICES ASSUME NEW x \in X PROVE IsList(h[x], Z)
    BY DEF Gives
  <2>1. CASE x \in Y
    <3>1. f[x] \in Z
      BY <2>1 DEF Maps
    <3>2. IsList(<<f[x]>>, Z)
      BY <3>1, ListFacts
    <3> QED BY <3>2, <2>1 DEF PicksOf
  <2>2. CASE x \notin Y
    <3>1. IsList(<<>>, Z)
      BY ListFacts
    <3> QED BY <3>1, <2>2 DEF PicksOf
  <2> QED BY <2>1, <2>2
<1> QED BY <1>2, <1>5, <1>8, <1>9

LEMMA FlatImage ==
    ASSUME NEW X, NEW s, IsList(s, X), NEW f, NEW g, NEW h, \A x \in X : h[x] = g[f[x]]
    PROVE  Flat(g, Image(f, s)) = Flat(h, s)
<1>1. \A i \in DOMAIN s : g[f[s[i]]] = h[s[i]]
  BY Listed
<1>2. Image(g, Image(f, s)) = Image(h, s)
  BY <1>1 DEF Image
<1> QED BY <1>2 DEF Flat

ResultBlock(n) == ToolResult(n, <<<<"r", n>>>>)
ClientBlocks ==
    BlockParts(PlainPiece) \cup {ResultBlock(n) : n \in Nat}
        \cup {ToolUse(n, a) : n \in Nat, a \in Arguments}

BlockResultF ==
    [b \in ClientBlocks |->
        IF b.type = "tool_result" THEN <<Message("tool", <<TextPart(b.text)>>, <<>>, b.id)>>
        ELSE <<>>]
BlockOwnF ==
    [b \in ClientBlocks |-> IF b.type \in {"text", "image"} THEN ReadPart(b) ELSE <<>>]
BlockUseF ==
    [b \in ClientBlocks |->
        IF b.type = "tool_use" THEN <<[id |-> b.id, args |-> b.input]>> ELSE <<>>]

LEMMA BlockCases ==
    ASSUME NEW b \in ClientBlocks
    PROVE  \/ b \in BlockParts(PlainPiece) /\ b.type \in {"text", "image", "file"}
           \/ b.type = "tool_result" /\ b.id \in Nat /\ b = ResultBlock(b.id)
           \/ b.type = "tool_use" /\ b.id \in Nat /\ b.input \in Arguments
<1>1. CASE b \in BlockParts(PlainPiece)
  BY <1>1 DEF BlockParts
<1>2. CASE b \in {ResultBlock(n) : n \in Nat}
  BY <1>2 DEF ResultBlock, ToolResult
<1>3. CASE b \in {ToolUse(n, a) : n \in Nat, a \in Arguments}
  BY <1>3 DEF ToolUse
<1> QED BY <1>1, <1>2, <1>3 DEF ClientBlocks

LEMMA OfTypePicks ==
    ASSUME NEW s, IsList(s, ClientBlocks), NEW types
    PROVE  \E g : /\ Picks(g, ClientBlocks, {b \in ClientBlocks : b.type \in types})
                  /\ OfType(types, s) = Flat(g, s)
<1> DEFINE g == [b \in ClientBlocks |-> Opt(b.type \in types, b)]
<1>1. Picks(g, ClientBlocks, {b \in ClientBlocks : b.type \in types})
  BY DEF Picks, Opt
<1>2. OfType(types, s) = Flat(g, s)
  BY Listed DEF OfType, Select, Map, Flat, Image
<1> QED BY <1>1, <1>2

LEMMA ReadToolMessages ==
    ASSUME NEW m, IsList(m.content, ClientBlocks)
    PROVE  ToolMessages(m) = Flat(BlockResultF, m.content)
<1> DEFINE Y == {b \in ClientBlocks : b.type \in {"tool_result"}}
           f == [b \in Y |-> Message("tool", <<TextPart(b.text)>>, <<>>, b.id)]
           Z == {f[b] : b \in Y}
<1>1. PICK g : Picks(g, ClientBlocks, Y) /\ OfType({"tool_result"}, m.content) = Flat(g, m.content)
  BY OfTypePicks
<1>2. Maps(f, Y, Z)
  BY DEF Maps
<1>3. PicksOf(BlockResultF, f, ClientBlocks, Y)
  BY DEF PicksOf, BlockResultF
<1>4. /\ IsList(Flat(g, m.content), Y)
      /\ Image(f, Flat(g, m.content)) = Flat(BlockResultF, m.content)
  <2> HIDE DEF Y, f, Z
  <2> QED BY <1>1, <1>2, <1>3, Picked
<1>5. ToolMessages(m) = Image(f, Flat(g, m.content))
  BY <1>1, <1>4, Listed DEF ToolMessages, Map, Image
<1> QED BY <1>4, <1>5

LEMMA ReadOwnParts ==
    ASSUME NEW s, IsList(s, ClientBlocks)
    PROVE  /\ Map(LAMBDA b : IF b.type = "image" THEN ImagePart(ImageToDataURL(b.source))
                             ELSE TextPart(b.text), OfType({"text", "image"}, s))
                = Flat(BlockOwnF, s)
           /\ Map(LAMBDA b : [id |-> b.id, args |-> b.input], OfType({"tool_use"}, s))
                = Flat(BlockUseF, s)
<1>1. Map(LAMBDA b : IF b.type = "image" THEN ImagePart(ImageToDataURL(b.source))
                     ELSE TextPart(b.text), OfType({"text", "image"}, s)) = Flat(BlockOwnF, s)
  <2> DEFINE Y == {b \in ClientBlocks : b.type \in {"text", "image"}}
             f == [b \in Y |-> IF b.type = "image" THEN ImagePart(ImageToDataURL(b.source))
                               ELSE TextPart(b.text)]
             Z == {f[b] : b \in Y}
  <2>1. PICK g : Picks(g, ClientBlocks, Y) /\ OfType({"text", "image"}, s) = Flat(g, s)
    BY OfTypePicks
  <2>2. Maps(f, Y, Z)
    BY DEF Maps
  <2>3. PicksOf(BlockOwnF, f, ClientBlocks, Y)
    BY DEF PicksOf, BlockOwnF, ReadPart
  <2>4. IsList(Flat(g, s), Y) /\ Image(f, Flat(g, s)) = Flat(BlockOwnF, s)
    <3> HIDE DEF Y, f, Z
    <3> QED BY <2>1, <2>2, <2>3, Picked
  <2> QED BY <2>1, <2>4, Listed DEF Map, Image
<1>2. Map(LAMBDA b : [id |-> b.id, args |-> b.input], OfType({"tool_use"}, s)) = Flat(BlockUseF, s)
  <2> DEFINE Y == {b \in ClientBlocks : b.type \in {"tool_use"}}
             f == [b \in Y |-> [id |-> b.id, args |-> b.input]]
             Z == {f[b] : b \in Y}
  <2>1. PICK g : Picks(g, ClientBlocks, Y) /\ OfType({"tool_use"}, s) = Flat(g, s)
    BY OfTypePicks
  <2>2. Maps(f, Y, Z)
    BY DEF Maps
  <2>3. PicksOf(BlockUseF, f, ClientBlocks, Y)
    BY DEF PicksOf, BlockUseF
  <2>4. IsList(Flat(g, s), Y) /\ Image(f, Flat(g, s)) = Flat(BlockUseF, s)
    <3> HIDE DEF Y, f, Z
    <3> QED BY <2>1, <2>2, <2>3, Picked
  <2> QED BY <2>1, <2>4, Listed DEF Map, Image
<1> QED BY <1>1, <1>2

LEMMA BlockTypes ==
    /\ Gives(BlockResultF, ClientBlocks, Shaped)
    /\ Gives(BlockOwnF, ClientBlocks, PartsOf(PlainPiece))
    /\ Gives(BlockUseF, ClientBlocks, Call)
<1>1. ASSUME NEW b \in ClientBlocks PROVE IsList(BlockResultF[b], Shaped)
  <2>1. CASE b.type = "tool_result"
    <3>1. b.id \in Nat /\ b = ResultBlock(b.id)
      BY <2>1, BlockCases
    <3>2. b.text = <<<<"r", b.id>>>>
      BY <3>1 DEF ResultBlock, ToolResult
    <3>3. BlockResultF[b] = <<ToolMessage(b.id)>>
      BY <2>1, <3>2 DEF BlockResultF, ToolMessage
    <3>4. IsList(<<ToolMessage(b.id)>>, Shaped)
      BY <3>1, MessageSets, ListFacts
    <3> QED BY <3>3, <3>4
  <2>2. CASE b.type # "tool_result"
    BY <2>2, ListFacts DEF BlockResultF
  <2> QED BY <2>1, <2>2
<1>2. ASSUME NEW b \in ClientBlocks PROVE IsList(BlockOwnF[b], PartsOf(PlainPiece))
  <2>1. CASE b.type \in {"text", "image"}
    <3>1. b \in BlockParts(PlainPiece)
      BY <2>1, BlockCases
    <3>2. Gives(ReadF(BlockParts(PlainPiece)), BlockParts(PlainPiece), PartsOf(PlainPiece))
      <4>1. PICK X : X = BlockParts(PlainPiece)
        OBVIOUS
      <4>2. PartSet(X, PlainPiece) /\ Within(PlainPiece) /\ "user" \in Roles
        BY <4>1, PartSets, NoIdNat DEF PartSet
      <4>3. Gives(ReadF(X), X, PartsOf(PlainPiece))
        BY <4>2, ReadPartType
      <4> QED BY <4>1, <4>3
    <3>3. IsList(ReadPart(b), PartsOf(PlainPiece))
      BY <3>1, <3>2 DEF Gives, ReadF
    <3> QED BY <2>1, <3>3 DEF BlockOwnF
  <2>2. CASE b.type \notin {"text", "image"}
    BY <2>2, ListFacts DEF BlockOwnF
  <2> QED BY <2>1, <2>2
<1>3. ASSUME NEW b \in ClientBlocks PROVE IsList(BlockUseF[b], Call)
  <2>1. CASE b.type = "tool_use"
    <3>1. b.id \in Nat /\ b.input \in Arguments
      BY <2>1, BlockCases
    <3>2. [id |-> b.id, args |-> b.input] \in Call
      BY <3>1 DEF Call
    <3>3. IsList(<<[id |-> b.id, args |-> b.input]>>, Call)
      BY <3>2, ListFacts
    <3> QED BY <2>1, <3>3 DEF BlockUseF
  <2>2. CASE b.type # "tool_use"
    BY <2>2, ListFacts DEF BlockUseF
  <2> QED BY <2>1, <2>2
<1> QED BY <1>1, <1>2, <1>3 DEF Gives

ToolF == [n \in Nat |-> <<ToolMessage(n)>>]
ResultFactsF == [n \in Nat |-> <<ResultFact(n), <<"tool", "text", "r", n>>>>]
ResultF == [n \in Nat |-> ResultBlock(n)]
UseF == [c \in Call |-> AnthropicCall(c)]
Decoded(c) == [id |-> c.id, args |-> Input(c.args)]
DecodedF == [c \in Call |-> <<Decoded(c)>>]

LEMMA SplitBlocks ==
    ASSUME NEW m, NEW s, m.content = s, IsList(s, ClientBlocks),
           NEW calls, calls = IF m.role # "assistant" THEN <<>> ELSE Flat(BlockUseF, s)
    PROVE  ParseAnthropicMessage(m) =
             Flat(BlockResultF, s)
               \o Opt(Flat(BlockOwnF, s) # <<>> \/ calls # <<>>,
                      Message(m.role, Flat(BlockOwnF, s), calls, NoId))
<1>1. ToolMessages(m) = Flat(BlockResultF, s)
  BY ReadToolMessages
<1>2. OwnMessage(m) = Opt(Flat(BlockOwnF, s) # <<>> \/ calls # <<>>,
                          Message(m.role, Flat(BlockOwnF, s), calls, NoId))
  BY ReadOwnParts DEF OwnMessage
<1> QED BY <1>1, <1>2 DEF ParseAnthropicMessage

LEMMA ResultBlocks ==
    ASSUME NEW n \in Nat
    PROVE  /\ ResultBlock(n) \in ClientBlocks /\ ResultF[n] = ResultBlock(n)
           /\ BlockResultF[ResultBlock(n)] = <<ToolMessage(n)>>
           /\ BlockOwnF[ResultBlock(n)] = <<>> /\ BlockUseF[ResultBlock(n)] = <<>>
           /\ \A who \in {"user", "tool"} : PartFacts(who, ResultBlock(n)) = ResultFactsF[n]
           /\ \A who : who \notin {"user", "tool"} => PartFacts(who, ResultBlock(n)) = <<>>
<1> DEFINE b == ResultBlock(n)
<1>1. b \in ClientBlocks /\ ResultF[n] = b
  BY DEF ClientBlocks, ResultF
<1>2. b.type = "tool_result" /\ b.id = n /\ b.text = <<<<"r", n>>>>
  BY DEF ResultBlock, ToolResult
<1> HIDE DEF b
<1>3. BlockResultF[b] = <<ToolMessage(n)>>
  BY <1>1, <1>2 DEF BlockResultF, ToolMessage
<1>4. BlockOwnF[b] = <<>> /\ BlockUseF[b] = <<>>
  BY <1>1, <1>2 DEF BlockOwnF, BlockUseF
<1>5. ASSUME NEW who \in {"user", "tool"} PROVE PartFacts(who, b) = ResultFactsF[n]
  <2>1. PartFacts(who, b) = <<ResultFact(n)>> \o TextFacts("tool", <<<<"r", n>>>>)
    BY <1>2 DEF PartFacts
  <2> QED BY <2>1, ToolMessageFacts DEF ResultFactsF
<1>6. ASSUME NEW who, who \notin {"user", "tool"} PROVE PartFacts(who, b) = <<>>
  BY <1>2, <1>6 DEF PartFacts
<1> QED BY <1>1, <1>3, <1>4, <1>5, <1>6 DEF b

LEMMA PlainBlocks ==
    ASSUME NEW b \in BlockParts(PlainPiece)
    PROVE  /\ b \in ClientBlocks
           /\ BlockResultF[b] = <<>> /\ BlockUseF[b] = <<>>
           /\ BlockOwnF[b] = ReadF(BlockParts(PlainPiece))[b]
<1>1. b \in ClientBlocks
  BY DEF ClientBlocks
<1>2. b.type \in {"text", "image", "file"}
  BY DEF BlockParts
<1>3. BlockResultF[b] = <<>> /\ BlockUseF[b] = <<>>
  BY <1>1, <1>2 DEF BlockResultF, BlockUseF
<1>4. BlockOwnF[b] = ReadPart(b)
  <2>1. CASE b.type \in {"text", "image"}
    BY <2>1, <1>1 DEF BlockOwnF
  <2>2. CASE b.type = "file"
    BY <2>2, <1>1 DEF BlockOwnF, ReadPart
  <2> QED BY <2>1, <2>2, <1>2
<1> QED BY <1>1, <1>3, <1>4 DEF ReadF

LEMMA UseBlocks ==
    ASSUME NEW c \in Call
    PROVE  /\ UseF[c] = AnthropicCall(c) /\ AnthropicCall(c) \in ClientBlocks
           /\ BlockResultF[AnthropicCall(c)] = <<>> /\ BlockOwnF[AnthropicCall(c)] = <<>>
           /\ BlockUseF[AnthropicCall(c)] = DecodedF[c]
           /\ Decoded(c) \in Call /\ CallF[Decoded(c)] = CallF[c]
<1> DEFINE b == AnthropicCall(c)
<1>0. c.id \in Nat /\ c.args \in Arguments /\ Input(c.args) \in Arguments
  BY DEF Call, Arguments, Input
<1>1. b \in ClientBlocks
  BY <1>0 DEF ClientBlocks, AnthropicCall
<1>2. b.type = "tool_use" /\ b.id = c.id /\ b.input = Input(c.args)
  BY DEF AnthropicCall, ToolUse
<1>3. UseF[c] = b
  BY DEF UseF
<1> HIDE DEF b
<1>4. BlockResultF[b] = <<>> /\ BlockOwnF[b] = <<>>
  BY <1>1, <1>2 DEF BlockResultF, BlockOwnF
<1>5. BlockUseF[b] = DecodedF[c]
  BY <1>1, <1>2 DEF BlockUseF, DecodedF, Decoded
<1>6. Decoded(c) \in Call
  BY <1>0 DEF Decoded, Call
<1>7. CallF[Decoded(c)] = CallF[c]
  <2>1. Decoded(c).id = c.id /\ Decoded(c).args = Input(c.args)
    BY DEF Decoded
  <2>2. CallFact(Decoded(c).id, Decoded(c).args) = CallFact(c.id, c.args)
    BY <2>1, InputTwice DEF CallFact
  <2> QED BY <1>6, <2>2 DEF CallF
<1> QED BY <1>1, <1>3, <1>4, <1>5, <1>6, <1>7 DEF b

\* The results of a user's turn and the rest of it, read by their kind.
LEMMA ReadResults ==
    ASSUME NEW ids, IsList(ids, Nat)
    PROVE  /\ IsList(Image(ResultF, ids), ClientBlocks)
           /\ Flat(BlockResultF, Image(ResultF, ids)) = Flat(ToolF, ids)
           /\ Flat(BlockOwnF, Image(ResultF, ids)) = <<>>
           /\ ContentFacts("user", Image(ResultF, ids)) = Flat(ResultFactsF, ids)
<1>1. Maps(ResultF, Nat, ClientBlocks)
  BY ResultBlocks DEF Maps, ResultF
<1>2. IsList(Image(ResultF, ids), ClientBlocks)
  BY <1>1, ImageType
<1>3. \A n \in Nat : ToolF[n] = BlockResultF[ResultF[n]]
  BY ResultBlocks DEF ToolF
<1>4. Flat(BlockResultF, Image(ResultF, ids)) = Flat(ToolF, ids)
  BY <1>3, FlatImage
<1>5. Flat(BlockOwnF, Image(ResultF, ids)) = <<>>
  <2>1. PICK k : k = [n \in Nat |-> <<>>]
    OBVIOUS
  <2>2. \A n \in Nat : k[n] = <<>> /\ k[n] = BlockOwnF[ResultF[n]]
    BY <2>1, ResultBlocks
  <2>3. Flat(BlockOwnF, Image(ResultF, ids)) = Flat(k, ids)
    BY <2>2, FlatImage
  <2>4. Flat(k, ids) = <<>>
    BY <2>2, FlatNone
  <2> QED BY <2>3, <2>4
<1>6. ContentFacts("user", Image(ResultF, ids)) = Flat(ResultFactsF, ids)
  <2>1. \A i \in DOMAIN ids : PartFacts("user", ResultF[ids[i]]) = ResultFactsF[ids[i]]
    BY Listed, ResultBlocks
  <2>2. Map(LAMBDA p : PartFacts("user", p), Image(ResultF, ids)) = Image(ResultFactsF, ids)
    BY <2>1 DEF Map, Image
  <2> QED BY <2>2 DEF ContentFacts, Flat
<1> QED BY <1>2, <1>4, <1>5, <1>6

LEMMA ReadPlain ==
    ASSUME NEW C, IsList(C, BlockParts(PlainPiece))
    PROVE  /\ IsList(C, ClientBlocks)
           /\ Flat(BlockResultF, C) = <<>> /\ Flat(BlockUseF, C) = <<>>
           /\ Flat(BlockOwnF, C) = Flat(ReadF(BlockParts(PlainPiece)), C)
<1>1. IsList(C, ClientBlocks)
  <2>1. BlockParts(PlainPiece) \subseteq ClientBlocks
    BY PlainBlocks
  <2> QED BY <2>1, Wider
<1>2. Flat(BlockResultF, C) = <<>>
  <2>1. \A b \in BlockParts(PlainPiece) : BlockResultF[b] = <<>>
    BY PlainBlocks
  <2> QED BY <2>1, FlatNone
<1>3. Flat(BlockUseF, C) = <<>>
  <2>1. \A b \in BlockParts(PlainPiece) : BlockUseF[b] = <<>>
    BY PlainBlocks
  <2> QED BY <2>1, FlatNone
<1>4. Flat(BlockOwnF, C) = Flat(ReadF(BlockParts(PlainPiece)), C)
  <2>1. \A b \in BlockParts(PlainPiece) : BlockOwnF[b] = ReadF(BlockParts(PlainPiece))[b]
    BY PlainBlocks
  <2> QED BY <2>1, FlatSame
<1> QED BY <1>1, <1>2, <1>3, <1>4

LEMMA ReadUses ==
    ASSUME NEW calls, IsList(calls, Call)
    PROVE  /\ IsList(Image(UseF, calls), ClientBlocks)
           /\ Flat(BlockResultF, Image(UseF, calls)) = <<>>
           /\ Flat(BlockOwnF, Image(UseF, calls)) = <<>>
           /\ Flat(BlockUseF, Image(UseF, calls)) = Flat(DecodedF, calls)
           /\ IsList(Flat(DecodedF, calls), Call)
           /\ Flat(CallF, Flat(DecodedF, calls)) = Flat(CallF, calls)
<1>1. Maps(UseF, Call, ClientBlocks)
  BY UseBlocks DEF Maps, UseF
<1>2. IsList(Image(UseF, calls), ClientBlocks)
  BY <1>1, ImageType
<1>3. PICK k : k = [c \in Call |-> <<>>]
  OBVIOUS
<1>4. \A c \in Call : /\ k[c] = <<>> /\ k[c] = BlockResultF[UseF[c]]
                      /\ k[c] = BlockOwnF[UseF[c]]
  BY <1>3, UseBlocks
<1>5. Flat(k, calls) = <<>>
  BY <1>4, FlatNone
<1>6. Flat(BlockResultF, Image(UseF, calls)) = Flat(k, calls)
  BY <1>4, FlatImage
<1>7. Flat(BlockOwnF, Image(UseF, calls)) = Flat(k, calls)
  BY <1>4, FlatImage
<1>8. Flat(BlockUseF, Image(UseF, calls)) = Flat(DecodedF, calls)
  <2>1. \A c \in Call : DecodedF[c] = BlockUseF[UseF[c]]
    BY UseBlocks
  <2> QED BY <2>1, FlatImage
<1>9. Gives(DecodedF, Call, Call)
  <2>1. \A c \in Call : IsList(<<Decoded(c)>>, Call)
    BY UseBlocks, ListFacts
  <2> QED BY <2>1 DEF Gives, DecodedF
<1>10. IsList(Flat(DecodedF, calls), Call)
  BY <1>9, FlatGives
<1>11. Fuses(CallF, CallF, DecodedF, Call)
  <2> SUFFICES ASSUME NEW c \in Call PROVE CallF[c] = Flat(CallF, DecodedF[c])
    BY DEF Fuses
  <2>1. DecodedF[c] = <<Decoded(c)>>
    BY DEF DecodedF
  <2>2. Flat(CallF, <<Decoded(c)>>) = CallF[Decoded(c)]
    BY FlatOne
  <2> QED BY <2>1, <2>2, UseBlocks
<1>12. Flat(CallF, Flat(DecodedF, calls)) = Flat(CallF, calls)
  <2>1. Gives(CallF, Call, Fact)
    BY CallFType, GivesLists
  <2> QED BY <1>9, <1>11, <2>1, FlatThen
<1> QED BY <1>2, <1>5, <1>6, <1>7, <1>8, <1>10, <1>12

LEMMA BlocksSay ==
    ASSUME NEW who \in Roles
    PROVE  Says(who, ClientBlocks)
<1> SUFFICES ASSUME NEW b \in ClientBlocks PROVE IsList(PartFacts(who, b), Fact)
  BY DEF Says
<1>1. CASE b \in BlockParts(PlainPiece)
  <2>1. PICK s : s = <<b>>
    OBVIOUS
  <2>2. IsList(s, BlockParts(PlainPiece))
    BY <1>1, <2>1, ListFacts
  <2>3. IsList(ContentFacts(who, s), Fact)
    <3>1. PICK c : IsList(c, PartsOf(PlainPiece)) /\ ContentFacts(who, s) = Flat(PartF(who), c)
      BY <2>2, ReadBlocks, PartSets
    <3>2. IsList(c, PartsOf(Piece))
      BY <3>1, ContentType
    <3> QED BY <3>1, <3>2, ContentType
  <2> QED BY <2>1, <2>3, ContentOne
<1>2. CASE b.type = "tool_result" /\ b.id \in Nat /\ b = ResultBlock(b.id)
  <2>1. PICK n \in Nat : b = ResultBlock(n)
    BY <1>2
  <2>2. \/ PartFacts(who, b) = <<ResultFact(n)>> \o TextFacts("tool", <<<<"r", n>>>>)
        \/ PartFacts(who, b) = <<>>
    BY <2>1, ResultBlocks, ToolMessageFacts DEF ResultFactsF
  <2>3. IsList(<<ResultFact(n)>>, Fact)
    BY FactFields, Speakers, ListFacts
  <2>4. IsList(TextFacts("tool", <<<<"r", n>>>>), Fact)
    <3>1. PICK t : t = <<<<"r", n>>>>
      OBVIOUS
    <3>2. IsList(t, Piece)
      BY <3>1, SinglePieces
    <3>3. IsList(TextFacts("tool", t), FactOf("tool"))
      BY <3>2, NoIdNat, TextFactsType
    <3> QED BY <3>1, <3>3, Speakers, Wider
  <2>5. IsList(<<ResultFact(n)>> \o TextFacts("tool", <<<<"r", n>>>>), Fact)
    BY <2>3, <2>4, ListFacts
  <2>6. IsList(<<>>, Fact)
    BY ListFacts
  <2> QED BY <2>2, <2>5, <2>6
<1>3. CASE b.type = "tool_use" /\ b.id \in Nat /\ b.input \in Arguments
  <2>1. PartFacts(who, b) = <<CallFact(b.id, b.input)>>
    BY <1>3 DEF PartFacts
  <2>2. [id |-> b.id, args |-> b.input] \in Call
    BY <1>3 DEF Call
  <2>3. CallFact(b.id, b.input) \in Fact
    BY <2>2, FactFields, Speakers
  <2>4. IsList(<<CallFact(b.id, b.input)>>, Fact)
    BY <2>3, ListFacts
  <2> QED BY <2>1, <2>4
<1> QED BY <1>1, <1>2, <1>3, BlockCases

PlainRead(C) == Flat(ReadF(BlockParts(PlainPiece)), C)
UserOf(c) == Opt(c # <<>>, UserMessage(c))

LEMMA UserOfFacts ==
    ASSUME NEW c, IsList(c, PartsOf(PlainPiece))
    PROVE  /\ IsList(UserOf(c), Shaped) /\ Flat(IRF, UserOf(c)) = Flat(PartF("user"), c)
           /\ IsList(Flat(PartF("user"), c), Fact)
<1>0. IsList(c, PartsOf(Piece)) /\ IsList(Flat(PartF("user"), c), Fact)
  <2>1. IsList(c, PartsOf(Piece))
    BY NoIdNat, ContentType
  <2> QED BY <2>1, NoIdNat, ContentType
<1>1. CASE c = <<>>
  <2>1. UserOf(c) = <<>>
    BY <1>1 DEF UserOf, Opt
  <2>2. Flat(PartF("user"), c) = <<>>
    BY <1>1, FlatEmpty
  <2>3. IsList(<<>>, Shaped) /\ Flat(IRF, <<>>) = <<>>
    BY ListFacts, FlatEmpty
  <2> QED BY <1>0, <2>1, <2>2, <2>3
<1>2. CASE c # <<>>
  <2>1. UserOf(c) = <<UserMessage(c)>>
    BY <1>2 DEF UserOf, Opt
  <2>2. UserMessage(c) \in Shaped /\ UserMessage(c) \in IR
    BY MessageSets, Messages
  <2>3. IRFacts(UserMessage(c)) = Flat(PartF("user"), c)
    BY <1>0, NoCallFacts, OwnRole DEF UserMessage
  <2>4. IsList(<<UserMessage(c)>>, Shaped)
    BY <2>2, ListFacts
  <2>5. Flat(IRF, <<UserMessage(c)>>) = IRFacts(UserMessage(c))
    BY <2>2, FlatOfOne
  <2> QED BY <1>0, <2>1, <2>3, <2>4, <2>5
<1> QED BY <1>1, <1>2

LEMMA ToolFacts ==
    ASSUME NEW ids, IsList(ids, Nat)
    PROVE  /\ IsList(Flat(ToolF, ids), Shaped)
           /\ Flat(IRF, Flat(ToolF, ids)) = Flat(ResultFactsF, ids)
           /\ IsList(Flat(ResultFactsF, ids), Fact)
<1>1. Gives(ToolF, Nat, Shaped)
  <2>1. \A n \in Nat : IsList(<<ToolMessage(n)>>, Shaped)
    BY MessageSets, ListFacts
  <2> QED BY <2>1 DEF Gives, ToolF
<1>2. IsList(Flat(ToolF, ids), Shaped)
  BY <1>1, FlatGives
<1>3. Fuses(ResultFactsF, IRF, ToolF, Nat)
  <2> SUFFICES ASSUME NEW n \in Nat PROVE ResultFactsF[n] = Flat(IRF, ToolF[n])
    BY DEF Fuses
  <2>1. ToolF[n] = <<ToolMessage(n)>>
    BY DEF ToolF
  <2>2. Flat(IRF, <<ToolMessage(n)>>) = IRF[ToolMessage(n)]
    BY FlatOne
  <2>3. IRF[ToolMessage(n)] = ResultFactsF[n]
    BY ToolMessageFacts DEF ResultFactsF
  <2> QED BY <2>1, <2>2, <2>3
<1>4. Gives(IRF, Shaped, Fact)
  BY ShapedGives
<1>5. Flat(IRF, Flat(ToolF, ids)) = Flat(ResultFactsF, ids)
  BY <1>1, <1>3, <1>4, FlatThen
<1>6. IsList(Flat(IRF, Flat(ToolF, ids)), Fact)
  BY <1>2, <1>4, FlatGives
<1> QED BY <1>2, <1>5, <1>6

LEMMA AnthropicUser ==
    ASSUME NEW ids, IsList(ids, Nat), NEW C, IsList(C, BlockParts(PlainPiece))
    PROVE  LET m == [role |-> "user", content |-> Image(ResultF, ids) \o C]
           IN /\ Legible("anthropic", m)
              /\ ParseMsg("anthropic", m) = Flat(ToolF, ids) \o UserOf(PlainRead(C))
              /\ Facts("anthropic", m) = Flat(ResultFactsF, ids) \o ContentFacts("user", C)
              /\ IsList(PlainRead(C), PartsOf(PlainPiece))
<1> DEFINE a == Image(ResultF, ids)  s == a \o C  c == PlainRead(C)
           m == [role |-> "user", content |-> s]
<1>0. m.role = "user" /\ m.content = s
  OBVIOUS
<1> HIDE DEF m
<1>1. /\ IsList(a, ClientBlocks) /\ Flat(BlockResultF, a) = Flat(ToolF, ids)
      /\ Flat(BlockOwnF, a) = <<>> /\ ContentFacts("user", a) = Flat(ResultFactsF, ids)
  BY ReadResults
<1>2. /\ IsList(C, ClientBlocks) /\ Flat(BlockResultF, C) = <<>> /\ Flat(BlockOwnF, C) = c
  BY ReadPlain DEF PlainRead
<1>3. IsList(c, PartsOf(PlainPiece)) /\ ContentFacts("user", C) = Flat(PartF("user"), c)
  BY ReadBlocks, PartSets, NoIdNat DEF PlainRead
<1> HIDE DEF a, c
<1>4. IsList(s, ClientBlocks)
  BY <1>1, <1>2, ListFacts
<1>5. Flat(BlockResultF, s) = Flat(BlockResultF, a) \o Flat(BlockResultF, C)
  <2>1. IsList(a, ClientBlocks) /\ IsList(C, ClientBlocks) /\ Gives(BlockResultF, ClientBlocks, Shaped)
    BY <1>1, <1>2, BlockTypes
  <2> QED BY <2>1, FlatJoin
<1>6. Flat(BlockOwnF, s) = Flat(BlockOwnF, a) \o Flat(BlockOwnF, C)
  <2>1. /\ IsList(a, ClientBlocks) /\ IsList(C, ClientBlocks)
        /\ Gives(BlockOwnF, ClientBlocks, PartsOf(PlainPiece))
    BY <1>1, <1>2, BlockTypes
  <2> QED BY <2>1, FlatJoin
<1>7. ContentFacts("user", s) = ContentFacts("user", a) \o ContentFacts("user", C)
  <2>1. IsList(a, ClientBlocks) /\ IsList(C, ClientBlocks) /\ Says("user", ClientBlocks)
    BY <1>1, <1>2, BlocksSay, NoIdNat
  <2> QED BY <2>1, ContentConcat
<1> HIDE DEF s
<1>8. IsList(Flat(ToolF, ids), Shaped) /\ Flat(IRF, Flat(ToolF, ids)) = Flat(ResultFactsF, ids)
  BY ToolFacts
<1>9. Flat(BlockResultF, s) = Flat(ToolF, ids)
  <2>1. Flat(ToolF, ids) \o <<>> = Flat(ToolF, ids)
    BY <1>8, ListFacts
  <2> QED BY <1>1, <1>2, <1>5, <2>1
<1>10. Flat(BlockOwnF, s) = c
  <2>1. <<>> \o c = c
    BY <1>3, ListFacts
  <2> QED BY <1>1, <1>2, <1>6, <2>1
<1>11. ParseMsg("anthropic", m) = Flat(ToolF, ids) \o UserOf(c)
  <2>1. PICK e : e = <<>>
    OBVIOUS
  <2>2. e = IF m.role # "assistant" THEN <<>> ELSE Flat(BlockUseF, s)
    BY <1>0, <2>1
  <2>3. ParseAnthropicMessage(m) =
             Flat(BlockResultF, s)
               \o Opt(Flat(BlockOwnF, s) # <<>> \/ e # <<>>,
                      Message(m.role, Flat(BlockOwnF, s), e, NoId))
    BY <1>0, <1>4, <2>2, SplitBlocks
  <2>4. ParseMsg("anthropic", m) = ParseAnthropicMessage(m)
    BY DEF ParseMsg
  <2> QED BY <1>0, <1>9, <1>10, <2>1, <2>3, <2>4 DEF UserOf, UserMessage, Opt
<1>12. Facts("anthropic", m) = Flat(ResultFactsF, ids) \o ContentFacts("user", C)
  BY <1>0, <1>1, <1>7 DEF Facts
<1>13. IsList(UserOf(c), Shaped) /\ Flat(IRF, UserOf(c)) = Flat(PartF("user"), c)
  BY <1>3, UserOfFacts
<1>14. IsList(Flat(ToolF, ids) \o UserOf(c), Shaped)
  BY <1>8, <1>13, ListFacts
<1>15. Flat(IRF, Flat(ToolF, ids) \o UserOf(c)) = Flat(IRF, Flat(ToolF, ids)) \o Flat(IRF, UserOf(c))
  <2>1. IsList(Flat(ToolF, ids), Shaped) /\ IsList(UserOf(c), Shaped) /\ Gives(IRF, Shaped, Fact)
    BY <1>8, <1>13, ShapedGives
  <2> QED BY <2>1, FlatJoin
<1>16. Legible("anthropic", m)
  BY <1>3, <1>8, <1>11, <1>12, <1>13, <1>14, <1>15 DEF Legible
<1> QED BY <1>3, <1>11, <1>12, <1>16 DEF m, s, a, c

TextParts == [type : {"text"}, text : Seq(PlainPiece)]

LEMMA TextOwn ==
    ASSUME NEW texts, IsList(texts, TextParts)
    PROVE  /\ IsList(texts, BlockParts(PlainPiece)) /\ IsList(texts, PartsOf(PlainPiece))
           /\ IsList(texts, PartsOf(Piece)) /\ PlainRead(texts) = texts
<1>1. TextParts \subseteq BlockParts(PlainPiece) /\ TextParts \subseteq PartsOf(PlainPiece)
  BY DEF TextParts, BlockParts, PartsOf
<1>2. IsList(texts, BlockParts(PlainPiece)) /\ IsList(texts, PartsOf(PlainPiece))
  BY <1>1, Wider
<1>3. IsList(texts, PartsOf(Piece))
  BY <1>2, NoIdNat, ContentType
<1>4. \A p \in TextParts : ReadF(BlockParts(PlainPiece))[p] = <<p>>
  <2> SUFFICES ASSUME NEW p \in TextParts PROVE ReadF(BlockParts(PlainPiece))[p] = <<p>>
    OBVIOUS
  <2>1. p.type = "text" /\ p = TextPart(p.text)
    BY DEF TextParts, TextPart
  <2>2. ReadF(BlockParts(PlainPiece))[p] = ReadPart(p)
    BY <1>1 DEF ReadF
  <2> QED BY <2>1, <2>2 DEF ReadPart
<1>5. PlainRead(texts) = texts
  <2>1. Flat(ReadF(BlockParts(PlainPiece)), texts) = texts
    BY <1>4, FlatAll
  <2> QED BY <2>1 DEF PlainRead
<1> QED BY <1>2, <1>3, <1>5

LEMMA AnthropicAssistant ==
    ASSUME NEW texts, IsList(texts, TextParts), NEW calls, IsList(calls, Call),
           texts # <<>> \/ Flat(DecodedF, calls) # <<>>
    PROVE  LET m == [role |-> "assistant", content |-> texts \o Image(UseF, calls)]
           IN /\ Legible("anthropic", m)
              /\ ParseMsg("anthropic", m) = <<AssistantMessage(texts, Flat(DecodedF, calls))>>
              /\ Facts("anthropic", m) = ContentFacts("assistant", texts) \o Flat(CallF, calls)
<1> DEFINE a == Image(UseF, calls)  s == texts \o a
           m == [role |-> "assistant", content |-> s]
           d == Flat(DecodedF, calls)
<1>0. m.role = "assistant" /\ m.content = s
  OBVIOUS
<1> HIDE DEF m
<1>1. /\ IsList(a, ClientBlocks) /\ Flat(BlockResultF, a) = <<>> /\ Flat(BlockOwnF, a) = <<>>
      /\ Flat(BlockUseF, a) = d /\ IsList(d, Call) /\ Flat(CallF, d) = Flat(CallF, calls)
  BY ReadUses
<1>2. /\ IsList(texts, BlockParts(PlainPiece)) /\ IsList(texts, PartsOf(PlainPiece))
      /\ IsList(texts, PartsOf(Piece)) /\ PlainRead(texts) = texts
  BY TextOwn
<1>3. /\ IsList(texts, ClientBlocks) /\ Flat(BlockResultF, texts) = <<>>
      /\ Flat(BlockUseF, texts) = <<>> /\ Flat(BlockOwnF, texts) = texts
  BY <1>2, ReadPlain DEF PlainRead
<1>4. ContentFacts("assistant", texts) = Flat(PartF("assistant"), texts)
  BY <1>2, ReadBlocks, PartSets, NoIdNat DEF PlainRead
<1>5. ContentFacts("assistant", a) = Flat(CallF, calls)
  <2>1. \A i \in DOMAIN calls : PartFacts("assistant", UseF[calls[i]]) = CallF[calls[i]]
    BY Listed, UseBlocks, BlockFacts, NoIdNat
  <2>2. Map(LAMBDA p : PartFacts("assistant", p), a) = Image(CallF, calls)
    BY <2>1 DEF Map, Image
  <2> QED BY <2>2 DEF ContentFacts, Flat
<1>14. d # <<>> \/ texts # <<>>
  OBVIOUS
<1> HIDE DEF a, d
<1>6. IsList(s, ClientBlocks)
  BY <1>1, <1>3, ListFacts
<1>7. /\ Flat(BlockResultF, s) = Flat(BlockResultF, texts) \o Flat(BlockResultF, a)
      /\ Flat(BlockOwnF, s) = Flat(BlockOwnF, texts) \o Flat(BlockOwnF, a)
      /\ Flat(BlockUseF, s) = Flat(BlockUseF, texts) \o Flat(BlockUseF, a)
      /\ ContentFacts("assistant", s)
           = ContentFacts("assistant", texts) \o ContentFacts("assistant", a)
  <2>1. IsList(a, ClientBlocks) /\ IsList(texts, ClientBlocks)
    BY <1>1, <1>3
  <2>2. Gives(BlockResultF, ClientBlocks, Shaped)
    BY BlockTypes
  <2>3. Flat(BlockResultF, s) = Flat(BlockResultF, texts) \o Flat(BlockResultF, a)
    BY <2>1, <2>2, FlatJoin
  <2>4. Gives(BlockOwnF, ClientBlocks, PartsOf(PlainPiece))
    BY BlockTypes
  <2>5. Flat(BlockOwnF, s) = Flat(BlockOwnF, texts) \o Flat(BlockOwnF, a)
    BY <2>1, <2>4, FlatJoin
  <2>6. Gives(BlockUseF, ClientBlocks, Call)
    BY BlockTypes
  <2>7. Flat(BlockUseF, s) = Flat(BlockUseF, texts) \o Flat(BlockUseF, a)
    BY <2>1, <2>6, FlatJoin
  <2>8. Says("assistant", ClientBlocks)
    BY BlocksSay, NoIdNat
  <2>9. ContentFacts("assistant", s)
           = ContentFacts("assistant", texts) \o ContentFacts("assistant", a)
    BY <2>1, <2>8, ContentConcat
  <2> QED BY <2>3, <2>5, <2>7, <2>9
<1> HIDE DEF s
<1>8. <<>> \o <<>> = <<>> /\ texts \o <<>> = texts /\ <<>> \o d = d
  <2>1. IsList(<<>>, Call)
    BY ListFacts
  <2> QED BY <1>1, <1>3, <2>1, ListFacts
<1>9. Flat(BlockResultF, s) = <<>> /\ Flat(BlockOwnF, s) = texts /\ Flat(BlockUseF, s) = d
  BY <1>1, <1>3, <1>7, <1>8
<1>10. ParseMsg("anthropic", m) = <<AssistantMessage(texts, d)>>
  <2>1. d = IF m.role # "assistant" THEN <<>> ELSE Flat(BlockUseF, s)
    BY <1>0, <1>9
  <2>2. ParseAnthropicMessage(m) =
             Flat(BlockResultF, s)
               \o Opt(Flat(BlockOwnF, s) # <<>> \/ d # <<>>,
                      Message(m.role, Flat(BlockOwnF, s), d, NoId))
    BY <1>0, <1>6, <2>1, SplitBlocks
  <2>3. ParseMsg("anthropic", m) = ParseAnthropicMessage(m)
    BY DEF ParseMsg
  <2>4. ParseMsg("anthropic", m) = <<>> \o <<AssistantMessage(texts, d)>>
    BY <1>0, <1>9, <1>14, <2>2, <2>3 DEF Opt, AssistantMessage
  <2>5. PICK z : z = <<AssistantMessage(texts, d)>>
    OBVIOUS
  <2>6. AssistantMessage(texts, d) \in Shaped
    BY <1>1, <1>2, MessageSets
  <2>7. IsList(z, Shaped)
    BY <2>5, <2>6, ListFacts
  <2>8. <<>> \o z = z
    BY <2>7, ListFacts
  <2> QED BY <2>4, <2>5, <2>8
<1>11. Facts("anthropic", m) = ContentFacts("assistant", texts) \o Flat(CallF, calls)
  BY <1>0, <1>5, <1>7 DEF Facts
<1>12. AssistantMessage(texts, d) \in Shaped /\ AssistantMessage(texts, d) \in IR
  BY <1>1, <1>2, MessageSets, Messages
<1>13. IRFacts(AssistantMessage(texts, d)) = Flat(PartF("assistant"), texts) \o Flat(CallF, d)
  BY <1>1, <1>2, OwnFacts, OwnRole DEF AssistantMessage
<1>15. /\ IsList(<<AssistantMessage(texts, d)>>, Shaped)
       /\ Flat(IRF, <<AssistantMessage(texts, d)>>) = IRFacts(AssistantMessage(texts, d))
  BY <1>12, ListFacts, FlatOfOne
<1>16. Legible("anthropic", m)
  BY <1>1, <1>4, <1>10, <1>11, <1>13, <1>15 DEF Legible
<1> QED BY <1>10, <1>11, <1>16 DEF m, s, a, d

-----------------------------------------------------------------------------
(* Messages and items of a turn.                                           *)

SystemFact(n) == <<"system", "text", "s", n>>

LEMMA SystemMessageFacts ==
    ASSUME NEW n \in Nat
    PROVE  /\ IRFacts(SystemMessage(n)) = <<SystemFact(n)>>
           /\ Flat(IRF, <<SystemMessage(n)>>) = <<SystemFact(n)>>
           /\ SystemMessage(n) \in Shaped
<1>1. IRFacts(SystemMessage(n)) = <<SystemFact(n)>>
  BY SystemFacts DEF SystemMessage, SystemFact
<1>2. SystemMessage(n) \in Shaped /\ SystemMessage(n) \in IR
  BY MessageSets, Messages
<1>3. Flat(IRF, <<SystemMessage(n)>>) = IRFacts(SystemMessage(n))
  BY <1>2, FlatOfOne
<1> QED BY <1>1, <1>2, <1>3

LEMMA TextPartsOf ==
    ASSUME NEW P, NEW t, IsList(t, P)
    PROVE  /\ IsList(<<TextPart(t)>>, OpenAIParts(P))
           /\ IsList(<<[type |-> "input_text", text |-> t]>>, ResponsesParts(P))
           /\ ParseOpenAIContent(<<TextPart(t)>>) = <<TextPart(t)>>
           /\ Flat(ReadF(ResponsesParts(P)), <<[type |-> "input_text", text |-> t]>>)
                = <<TextPart(t)>>
<1>1. TextPart(t) \in OpenAIParts(P)
  BY DEF TextPart, OpenAIParts, IsList
<1>2. PICK p : p = [type |-> "input_text", text |-> t]
  OBVIOUS
<1>3. p \in ResponsesParts(P) /\ p.type = "input_text" /\ p.text = t
  BY <1>2 DEF ResponsesParts, IsList
<1>4. IsList(<<TextPart(t)>>, OpenAIParts(P))
  BY <1>1, ListFacts
<1>5. IsList(<<p>>, ResponsesParts(P))
  BY <1>3, ListFacts
<1>6. ParseOpenAIContent(<<TextPart(t)>>) = <<TextPart(t)>>
  <2>1. TextPart(t).type = "text"
    BY DEF TextPart
  <2>2. PICK q : q = TextPart(t)
    OBVIOUS
  <2> QED BY <2>1, <2>2 DEF ParseOpenAIContent, Map
<1>7. Flat(ReadF(ResponsesParts(P)), <<p>>) = <<TextPart(t)>>
  <2>1. Flat(ReadF(ResponsesParts(P)), <<p>>) = ReadF(ResponsesParts(P))[p]
    BY FlatOne
  <2>2. ReadF(ResponsesParts(P))[p] = ReadPart(p)
    BY <1>3 DEF ReadF
  <2>3. ReadPart(p) = <<TextPart(t)>>
    BY <1>3 DEF ReadPart
  <2> QED BY <2>1, <2>2, <2>3
<1> QED BY <1>2, <1>4, <1>5, <1>6, <1>7

LEMMA OpenAINote ==
    ASSUME NEW n \in Nat
    PROVE  LET m == OpenAIMessage("system", <<TextPart(<<<<"s", n>>>>)>>, <<>>, NoId)
           IN /\ Legible("openai", m) /\ ParseMsg("openai", m) = <<SystemMessage(n)>>
              /\ Facts("openai", m) = <<SystemFact(n)>>
<1>1. PICK t : t = <<<<"s", n>>>>
  OBVIOUS
<1>2. IsList(t, Piece)
  BY <1>1, SinglePieces
<1>3. PICK c : c = <<TextPart(t)>>
  OBVIOUS
<1>4. IsList(c, OpenAIParts(Piece)) /\ ParseOpenAIContent(c) = c
  BY <1>2, <1>3, TextPartsOf
<1>5. PICK e : e = <<>>
  OBVIOUS
<1>6. IsList(e, Call)
  BY <1>5, ListFacts
<1>7. Message("system", c, e, NoId) = SystemMessage(n)
  BY <1>1, <1>3, <1>5 DEF SystemMessage
<1>8. Message("system", ParseOpenAIContent(c), e, NoId) \in Shaped
  BY <1>4, <1>7, MessageSets
<1> DEFINE m == OpenAIMessage("system", c, e, NoId)
<1>9. /\ Legible("openai", m)
      /\ ParseMsg("openai", m) = <<Message("system", ParseOpenAIContent(c), e, NoId)>>
  BY <1>4, <1>6, <1>8, PartSets, NoIdNat, OpenAILegible
<1> HIDE DEF m
<1>10. Facts("openai", m) = <<SystemFact(n)>>
  BY <1>4, <1>7, <1>9, SystemMessageFacts DEF Legible
<1> QED BY <1>1, <1>3, <1>4, <1>5, <1>7, <1>9, <1>10 DEF m

LEMMA OpenAIResult ==
    ASSUME NEW n \in Nat
    PROVE  LET m == OpenAIMessage("tool", <<TextPart(<<<<"r", n>>>>)>>, <<>>, n)
           IN /\ Legible("openai", m) /\ ParseMsg("openai", m) = ToolF[n]
              /\ Facts("openai", m) = ResultFactsF[n]
<1>1. PICK t : t = <<<<"r", n>>>>
  OBVIOUS
<1>2. IsList(t, PlainPiece)
  BY <1>1, SinglePieces
<1>3. PICK c : c = <<TextPart(t)>>
  OBVIOUS
<1>4. IsList(c, OpenAIParts(PlainPiece)) /\ ParseOpenAIContent(c) = c
  BY <1>2, <1>3, TextPartsOf
<1>5. PICK e : e = <<>>
  OBVIOUS
<1>6. IsList(e, Call)
  BY <1>5, ListFacts
<1>7. Message("tool", c, e, n) = ToolMessage(n)
  BY <1>1, <1>3, <1>5 DEF ToolMessage
<1>8. Message("tool", ParseOpenAIContent(c), e, n) \in Shaped
  BY <1>4, <1>7, MessageSets
<1> DEFINE m == OpenAIMessage("tool", c, e, n)
<1>9. /\ Legible("openai", m)
      /\ ParseMsg("openai", m) = <<Message("tool", ParseOpenAIContent(c), e, n)>>
  BY <1>4, <1>6, <1>8, PartSets, NoIdNat, OpenAILegible
<1> HIDE DEF m
<1>10. ParseMsg("openai", m) = ToolF[n]
  BY <1>4, <1>7, <1>9 DEF ToolF
<1>11. Flat(IRF, <<ToolMessage(n)>>) = ResultFactsF[n]
  <2>1. Flat(IRF, <<ToolMessage(n)>>) = IRF[ToolMessage(n)]
    BY FlatOne
  <2> QED BY <2>1, ToolMessageFacts DEF ResultFactsF
<1>12. Facts("openai", m) = ResultFactsF[n]
  BY <1>4, <1>7, <1>9, <1>11 DEF Legible
<1> QED BY <1>1, <1>3, <1>4, <1>5, <1>9, <1>10, <1>12 DEF m

LEMMA OpenAIUser ==
    ASSUME NEW content, IsList(content, OpenAIParts(PlainPiece))
    PROVE  LET m == OpenAIMessage("user", content, <<>>, NoId)
               c == ParseOpenAIContent(content)
           IN /\ Legible("openai", m) /\ ParseMsg("openai", m) = <<UserMessage(c)>>
              /\ Facts("openai", m) = ContentFacts("user", content)
              /\ IsList(c, PartsOf(PlainPiece))
<1>1. PICK c : c = ParseOpenAIContent(content)
  OBVIOUS
<1>2. IsList(c, PartsOf(PlainPiece)) /\ ContentFacts("user", content) = Flat(PartF("user"), c)
  BY <1>1, PartSets, NoIdNat, OpenAIRead
<1>3. PICK e : e = <<>>
  OBVIOUS
<1>4. IsList(e, Call)
  BY <1>3, ListFacts
<1>5. Message("user", c, e, NoId) = UserMessage(c)
  BY <1>3 DEF UserMessage
<1>6. UserMessage(c) \in Shaped /\ UserMessage(c) \in IR
  BY <1>2, MessageSets, Messages
<1>7. Message("user", ParseOpenAIContent(content), e, NoId) \in Shaped
  BY <1>1, <1>5, <1>6
<1> DEFINE m == OpenAIMessage("user", content, e, NoId)
<1>8. /\ Legible("openai", m)
      /\ ParseMsg("openai", m) = <<Message("user", ParseOpenAIContent(content), e, NoId)>>
  BY <1>4, <1>7, PartSets, NoIdNat, OpenAILegible
<1> HIDE DEF m
<1>9. Flat(IRF, <<UserMessage(c)>>) = IRFacts(UserMessage(c))
  BY <1>6, FlatOfOne
<1>10. IRFacts(UserMessage(c)) = Flat(PartF("user"), c)
  <2>1. IsList(c, PartsOf(Piece))
    BY <1>2, NoIdNat, ContentType
  <2> QED BY <2>1, NoCallFacts, OwnRole DEF UserMessage
<1>11. Facts("openai", m) = ContentFacts("user", content)
  BY <1>1, <1>2, <1>5, <1>8, <1>9, <1>10 DEF Legible
<1> QED BY <1>1, <1>2, <1>3, <1>5, <1>8, <1>11 DEF m

LEMMA ResponsesNote ==
    ASSUME NEW w \in Marked("message"), NEW n \in Nat
    PROVE  LET m == [type |-> w, role |-> "system",
                     content |-> <<[type |-> "input_text", text |-> <<<<"s", n>>>>]>>]
           IN /\ Legible("responses", m) /\ ParseMsg("responses", m) = <<SystemMessage(n)>>
              /\ Facts("responses", m) = <<SystemFact(n)>>
<1>1. PICK t : t = <<<<"s", n>>>>
  OBVIOUS
<1>2. IsList(t, Piece)
  BY <1>1, SinglePieces
<1>3. PICK s : s = <<[type |-> "input_text", text |-> t]>>
  OBVIOUS
<1>4. IsList(s, ResponsesParts(Piece)) /\ Flat(ReadF(ResponsesParts(Piece)), s) = <<TextPart(t)>>
  BY <1>2, <1>3, TextPartsOf
<1>5. Message("system", Flat(ReadF(ResponsesParts(Piece)), s), <<>>, NoId) = SystemMessage(n)
  BY <1>1, <1>4 DEF SystemMessage
<1>6. Message("system", Flat(ReadF(ResponsesParts(Piece)), s), <<>>, NoId) \in Shaped
  BY <1>5, MessageSets
<1> DEFINE m == [type |-> w, role |-> "system", content |-> s]
<1>7. /\ Legible("responses", m)
      /\ ParseMsg("responses", m)
           = <<Message("system", Flat(ReadF(ResponsesParts(Piece)), s), <<>>, NoId)>>
  <2>1. PICK role \in OwnRoles : role = "system"
    BY OwnRole
  <2>2. Message(role, Flat(ReadF(ResponsesParts(Piece)), s), <<>>, NoId) \in Shaped
    BY <1>6, <2>1
  <2>3. LET x == [type |-> w, role |-> role, content |-> s]
        IN /\ Legible("responses", x)
           /\ ParseMsg("responses", x)
                = <<Message(role, Flat(ReadF(ResponsesParts(Piece)), s), <<>>, NoId)>>
    BY <1>4, <2>2, PartSets, ResponsesMessage
  <2> QED BY <2>1, <2>3
<1> HIDE DEF m
<1>8. Facts("responses", m) = <<SystemFact(n)>>
  BY <1>5, <1>7, SystemMessageFacts DEF Legible
<1> QED BY <1>1, <1>3, <1>5, <1>7, <1>8 DEF m

LEMMA ResponsesUser ==
    ASSUME NEW w \in Marked("message"), NEW content, IsList(content, ResponsesParts(PlainPiece))
    PROVE  LET m == [type |-> w, role |-> "user", content |-> content]
               c == Flat(ReadF(ResponsesParts(PlainPiece)), content)
           IN /\ Legible("responses", m) /\ ParseMsg("responses", m) = <<UserMessage(c)>>
              /\ Facts("responses", m) = ContentFacts("user", content)
              /\ IsList(c, PartsOf(PlainPiece))
<1>1. PICK c : c = Flat(ReadF(ResponsesParts(PlainPiece)), content)
  OBVIOUS
<1>2. IsList(c, PartsOf(PlainPiece))
  BY <1>1, PartSets, NoIdNat, ReadResponses
<1>3. Message("user", c, <<>>, NoId) = UserMessage(c)
  BY DEF UserMessage
<1>4. Message("user", Flat(ReadF(ResponsesParts(PlainPiece)), content), <<>>, NoId) \in Shaped
  BY <1>1, <1>2, <1>3, MessageSets
<1> DEFINE m == [type |-> w, role |-> "user", content |-> content]
<1>5. /\ Legible("responses", m)
      /\ ParseMsg("responses", m)
           = <<Message("user", Flat(ReadF(ResponsesParts(PlainPiece)), content), <<>>, NoId)>>
      /\ Facts("responses", m) = ContentFacts("user", content)
  <2>1. PICK role \in OwnRoles : role = "user"
    BY OwnRole
  <2>2. Message(role, Flat(ReadF(ResponsesParts(PlainPiece)), content), <<>>, NoId) \in Shaped
    BY <1>4, <2>1
  <2>3. LET x == [type |-> w, role |-> role, content |-> content]
        IN /\ Legible("responses", x)
           /\ ParseMsg("responses", x)
                = <<Message(role, Flat(ReadF(ResponsesParts(PlainPiece)), content), <<>>, NoId)>>
           /\ Facts("responses", x) = ContentFacts(role, content)
    BY <2>2, PartSets, ResponsesMessage
  <2> QED BY <2>1, <2>3
<1> HIDE DEF m
<1> QED BY <1>1, <1>2, <1>3, <1>5 DEF m

\* The parts a client of an entry writes.
PartsFor(e) ==
    IF e = "openai" THEN OpenAIParts(PlainPiece)
    ELSE IF e = "responses" THEN ResponsesParts(PlainPiece) ELSE BlockParts(PlainPiece)

LEMMA ClientParts ==
    ASSUME NEW kinds, IsList(kinds, PartKinds), NEW n \in Nat, entry \in Entries
    PROVE  IsList([i \in DOMAIN kinds |-> ClientPart(kinds[i], n + i)], PartsFor(entry))
<1>1. ASSUME NEW kind \in PartKinds, NEW k \in Nat
      PROVE  ClientPart(kind, k) \in PartsFor(entry)
  <2> DEFINE url == [scheme |-> IF kind = "inline" THEN "data" ELSE "http", ref |-> k]
  <2>1. url \in Url
    BY DEF Url
  <2>2. <<<<"u", k>>>> \in Seq(PlainPiece)
    BY SinglePieces DEF IsList
  <2> HIDE DEF url
  <2>3. CASE kind = "file"
    <3>1. ClientPart(kind, k) = [type |-> "file"]
      BY <2>3 DEF ClientPart
    <3> QED BY <3>1 DEF PartsFor, OpenAIParts, ResponsesParts, BlockParts
  <2>4. CASE kind = "text"
    <3>1. ClientPart(kind, k) = ClientText(<<<<"u", k>>>>)
      BY <2>4 DEF ClientPart
    <3>2. PICK t : t = <<<<"u", k>>>>
      OBVIOUS
    <3>3. ClientText(t) \in PartsFor(entry)
      BY <2>2, <3>2 DEF ClientText, PartsFor, OpenAIParts, ResponsesParts, BlockParts, Entries
    <3> QED BY <3>1, <3>2, <3>3
  <2>5. CASE kind \in {"link", "inline"}
    <3>1. ClientPart(kind, k) =
            IF entry = "openai" THEN [type |-> "image_url", image_url |-> url]
            ELSE IF entry = "responses" THEN [type |-> "input_image", image_url |-> url]
            ELSE [type |-> "image", source |-> ImageSource(url)]
      BY <2>5 DEF ClientPart, url
    <3>2. ImageSource(url) \in {ImageSource(u) : u \in Url}
      BY <2>1
    <3> HIDE DEF Url
    <3> QED BY <2>1, <3>1, <3>2 DEF PartsFor, OpenAIParts, ResponsesParts, BlockParts, Entries
  <2> QED BY <2>3, <2>4, <2>5 DEF PartKinds
<1>2. \A i \in DOMAIN kinds : kinds[i] \in PartKinds /\ i \in Nat /\ n + i \in Nat
  BY DEF IsList
<1>3. \A i \in DOMAIN kinds : ClientPart(kinds[i], n + i) \in PartsFor(entry)
  BY <1>1, <1>2
<1>4. kinds \in Seq(PartKinds)
  BY DEF IsList
<1>5. PICK k \in Nat : DOMAIN kinds = 1..k
  BY <1>4
<1>6. PICK d : d = [i \in 1..k |-> ClientPart(kinds[i], n + i)]
  OBVIOUS
<1>7. \A i \in 1..k : d[i] \in PartsFor(entry)
  BY <1>3, <1>5, <1>6
<1>8. d \in Seq(PartsFor(entry))
  BY <1>6, <1>7
<1> QED BY <1>5, <1>6, <1>8 DEF IsList

LEMMA WrittenType ==
    ASSUME terse \in BOOLEAN, NEW type
    PROVE  ItemTypeWritten(type) \in Marked(type)
BY DEF ItemTypeWritten, Marked

LEMMA ResultsRead ==
    ASSUME entry \in {"openai", "responses"}, terse \in BOOLEAN, IsList(open, Nat)
    PROVE  /\ Readable(entry, Results) /\ Parsed(entry, Results) = Flat(ToolF, open)
           /\ FactsOf(entry, Results) = Flat(ResultFactsF, open)
<1>1. CASE entry = "openai"
  <2>1. PICK f : f = [n \in Nat |-> OpenAIMessage("tool", <<TextPart(<<<<"r", n>>>>)>>, <<>>, n)]
    OBVIOUS
  <2>2. Writes(entry, f, ToolF, ResultFactsF, Nat)
    BY <1>1, <2>1, OpenAIResult DEF Writes
  <2>3. Results = Image(f, open)
    <3>1. Results = Map(LAMBDA id : OpenAIMessage("tool", <<TextPart(<<<<"r", id>>>>)>>, <<>>, id),
                        open)
      BY <1>1 DEF Results
    <3>2. \A i \in DOMAIN open :
             f[open[i]] = OpenAIMessage("tool", <<TextPart(<<<<"r", open[i]>>>>)>>, <<>>, open[i])
      BY <2>1, Listed
    <3> QED BY <3>1, <3>2 DEF Map, Image
  <2> QED BY <2>2, <2>3, ReadableImage
<1>2. CASE entry = "responses"
  <2>1. PICK w \in Marked("function_call_output") : w = ItemTypeWritten("function_call_output")
    BY WrittenType
  <2>2. PICK f : f = [n \in Nat |-> [type |-> w, call_id |-> n, output |-> <<<<"r", n>>>>]]
    OBVIOUS
  <2>3. Writes(entry, f, ToolF, ResultFactsF, Nat)
    <3> SUFFICES ASSUME NEW n \in Nat
                 PROVE  /\ Legible(entry, f[n]) /\ ToolF[n] = ParseMsg(entry, f[n])
                        /\ ResultFactsF[n] = Facts(entry, f[n])
      BY DEF Writes
    <3>1. f[n] = [type |-> w, call_id |-> n, output |-> <<<<"r", n>>>>]
      BY <2>2
    <3>2. /\ Legible("responses", f[n]) /\ ParseMsg("responses", f[n]) = <<ToolMessage(n)>>
          /\ Facts("responses", f[n]) = <<ResultFact(n), <<"tool", "text", "r", n>>>>
      BY <3>1, ResponsesOutput
    <3> QED BY <1>2, <3>2 DEF ToolF, ResultFactsF
  <2>4. Results = Image(f, open)
    <3>2. \A i \in DOMAIN open :
             f[open[i]] = [type |-> w, call_id |-> open[i], output |-> <<<<"r", open[i]>>>>]
      BY <2>2, Listed
    <3>3. Results = [i \in DOMAIN open |->
                       [type |-> ItemTypeWritten("function_call_output"), call_id |-> open[i],
                        output |-> <<<<"r", open[i]>>>>]]
      BY <1>2 DEF Results, Map
    <3> QED BY <2>1, <3>2, <3>3 DEF Image
  <2> QED BY <2>3, <2>4, ReadableImage
<1> QED BY <1>1, <1>2

LEMMA FlattenOpt ==
    ASSUME NEW x
    PROVE  /\ FlattenSeq(Opt(TRUE, <<x>>)) = <<x>> /\ FlattenSeq(Opt(FALSE, <<x>>)) = <<>>
           /\ \A y : Opt(TRUE, y) = <<y>> /\ Opt(FALSE, y) = <<>>
<1>1. \A y : Opt(TRUE, y) = <<y>> /\ Opt(FALSE, y) = <<>>
  BY DEF Opt
<1>2. PICK s : s = <<x>>
  OBVIOUS
<1>3. FlattenSeq(<<s>>) = s
  BY FlattenOne
<1>4. FlattenSeq(<<>>) = <<>>
  BY FlattenEmpty
<1> QED BY <1>1, <1>2, <1>3, <1>4

NoteItem == Written("system", <<ClientText(<<<<"s", Turn>>>>)>>)

LEMMA NoteRead ==
    ASSUME entry \in {"openai", "responses"}, terse \in BOOLEAN, Turn \in Nat, NEW note \in BOOLEAN
    PROVE  LET s == FlattenSeq(Opt(note, NoteItem))
           IN /\ Readable(entry, s) /\ Parsed(entry, s) = Opt(note, SystemMessage(Turn))
              /\ FactsOf(entry, s) = Opt(note, SystemFact(Turn))
<1> DEFINE n == Turn
<1> HIDE DEF n
<1>1. PICK m : /\ NoteItem = <<m>> /\ Legible(entry, m)
               /\ ParseMsg(entry, m) = <<SystemMessage(n)>> /\ Facts(entry, m) = <<SystemFact(n)>>
  <2>0. n \in Nat
    BY DEF n
  <2>1. CASE entry = "openai"
    <3>1. PICK m : m = OpenAIMessage("system", <<TextPart(<<<<"s", n>>>>)>>, <<>>, NoId)
      OBVIOUS
    <3>2. /\ Legible(entry, m)
          /\ ParseMsg(entry, m) = <<SystemMessage(n)>> /\ Facts(entry, m) = <<SystemFact(n)>>
      BY <2>0, <2>1, <3>1, OpenAINote
    <3>3. NoteItem = <<m>>
      BY <2>1, <3>1 DEF NoteItem, Written, ClientText, TextPart, n
    <3> QED BY <3>2, <3>3
  <2>2. CASE entry = "responses"
    <3>0. PICK w \in Marked("message") : w = ItemTypeWritten("message")
      BY WrittenType
    <3>1. PICK m : m = [type |-> w, role |-> "system",
                        content |-> <<[type |-> "input_text", text |-> <<<<"s", n>>>>]>>]
      OBVIOUS
    <3>2. /\ Legible(entry, m)
          /\ ParseMsg(entry, m) = <<SystemMessage(n)>> /\ Facts(entry, m) = <<SystemFact(n)>>
      BY <2>0, <2>2, <3>1, ResponsesNote
    <3>3. NoteItem = <<m>>
      BY <2>2, <3>0, <3>1 DEF NoteItem, Written, MessageItem, ClientText, n
    <3> QED BY <3>2, <3>3
  <2> QED BY <2>1, <2>2
<1>2. CASE note = TRUE
  <2>1. FlattenSeq(Opt(note, NoteItem)) = <<m>>
    BY <1>1, <1>2, FlattenOpt
  <2>2. /\ Readable(entry, <<m>>)
        /\ Parsed(entry, <<m>>) = ParseMsg(entry, m) /\ FactsOf(entry, <<m>>) = Facts(entry, m)
    BY <1>1, ReadableOne
  <2>3. Opt(note, SystemMessage(n)) = <<SystemMessage(n)>> /\ Opt(note, SystemFact(n)) = <<SystemFact(n)>>
    BY <1>2, FlattenOpt
  <2> QED BY <1>1, <2>1, <2>2, <2>3 DEF n
<1>3. CASE note = FALSE
  <2>1. FlattenSeq(Opt(note, NoteItem)) = <<>>
    BY <1>1, <1>3, FlattenOpt
  <2>2. Opt(note, SystemMessage(n)) = <<>> /\ Opt(note, SystemFact(n)) = <<>>
    BY <1>3, FlattenOpt
  <2> QED BY <2>1, <2>2, ReadableEmpty DEF n
<1> QED BY <1>2, <1>3

LEMMA ContentRead ==
    ASSUME entry \in {"openai", "responses"}, terse \in BOOLEAN,
           NEW content, IsList(content, PartsFor(entry))
    PROVE  LET s == FlattenSeq(Opt(content # <<>>, Written("user", content)))
           IN /\ Readable(entry, s) /\ FactsOf(entry, s) = ContentFacts("user", content)
              /\ \E c : /\ IsList(c, PartsOf(PlainPiece))
                        /\ Parsed(entry, s) = Opt(content # <<>>, UserMessage(c))
<1>1. PICK m, c : /\ Written("user", content) = <<m>> /\ Legible(entry, m)
                  /\ ParseMsg(entry, m) = <<UserMessage(c)>> /\ IsList(c, PartsOf(PlainPiece))
                  /\ Facts(entry, m) = ContentFacts("user", content)
  <2>1. CASE entry = "openai"
    <3>1. PICK m : m = OpenAIMessage("user", content, <<>>, NoId)
      OBVIOUS
    <3>2. PICK c : c = ParseOpenAIContent(content)
      OBVIOUS
    <3>3. IsList(content, OpenAIParts(PlainPiece))
      BY <2>1 DEF PartsFor
    <3>4. /\ Legible(entry, m) /\ ParseMsg(entry, m) = <<UserMessage(c)>>
          /\ IsList(c, PartsOf(PlainPiece)) /\ Facts(entry, m) = ContentFacts("user", content)
      BY <2>1, <3>1, <3>2, <3>3, OpenAIUser
    <3>5. Written("user", content) = <<m>>
      BY <2>1, <3>1 DEF Written
    <3> QED BY <3>4, <3>5
  <2>2. CASE entry = "responses"
    <3>0. PICK w \in Marked("message") : w = ItemTypeWritten("message")
      BY WrittenType
    <3>1. PICK m : m = [type |-> w, role |-> "user", content |-> content]
      OBVIOUS
    <3>2. PICK c : c = Flat(ReadF(ResponsesParts(PlainPiece)), content)
      OBVIOUS
    <3>3. IsList(content, ResponsesParts(PlainPiece))
      BY <2>2 DEF PartsFor
    <3>4. /\ Legible(entry, m) /\ ParseMsg(entry, m) = <<UserMessage(c)>>
          /\ IsList(c, PartsOf(PlainPiece)) /\ Facts(entry, m) = ContentFacts("user", content)
      BY <2>2, <3>1, <3>2, <3>3, ResponsesUser
    <3>5. Written("user", content) = <<m>>
      BY <2>2, <3>0, <3>1 DEF Written, MessageItem
    <3> QED BY <3>4, <3>5
  <2> QED BY <2>1, <2>2
<1>2. CASE content # <<>>
  <2>1. FlattenSeq(Opt(content # <<>>, Written("user", content))) = <<m>>
    <3>1. Opt(content # <<>>, Written("user", content)) = <<Written("user", content)>>
      BY <1>2 DEF Opt
    <3> QED BY <1>1, <3>1, FlattenOne
  <2>2. /\ Readable(entry, <<m>>)
        /\ Parsed(entry, <<m>>) = ParseMsg(entry, m) /\ FactsOf(entry, <<m>>) = Facts(entry, m)
    BY <1>1, ReadableOne
  <2>3. Opt(content # <<>>, UserMessage(c)) = <<UserMessage(c)>>
    BY <1>2 DEF Opt
  <2> QED BY <1>1, <2>1, <2>2, <2>3
<1>3. CASE content = <<>>
  <2>1. FlattenSeq(Opt(content # <<>>, Written("user", content))) = <<>>
    BY <1>3, FlattenEmpty DEF Opt
  <2>2. Opt(content # <<>>, UserMessage(c)) = <<>>
    BY <1>3 DEF Opt
  <2>3. ContentFacts("user", content) = <<>>
    BY <1>3, ContentNone
  <2> QED BY <1>1, <2>1, <2>2, <2>3, ReadableEmpty
<1> QED BY <1>2, <1>3

-----------------------------------------------------------------------------
(* A turn of the client.                                                   *)

\* What the gateway reads of a turn, and what the turn says.
TurnRead(ids, note, n, w) == (Flat(ToolF, ids) \o Opt(note, SystemMessage(n))) \o w
TurnFacts(ids, note, n, content) ==
    (Flat(ResultFactsF, ids) \o Opt(note, SystemFact(n))) \o ContentFacts("user", content)
\* The user's own message, which may be missing.
UserTail(w) == w = <<>> \/ \E c : IsList(c, PartsOf(PlainPiece)) /\ w = <<UserMessage(c)>>
WithFile(content) == \E i \in DOMAIN content : content[i].type = "file"

LEMMA NoFile ==
    ASSUME NEW C, IsList(C, BlockParts(PlainPiece)), C # <<>>, ~WithFile(C)
    PROVE  PlainRead(C) # <<>>
<1>1. Lists(ReadF(BlockParts(PlainPiece)), BlockParts(PlainPiece), PartsOf(PlainPiece))
  <2>1. PICK Y : Y = BlockParts(PlainPiece)
    OBVIOUS
  <2>2. PartSet(Y, PlainPiece) /\ Within(PlainPiece) /\ "user" \in Roles
    BY <2>1, PartSets, NoIdNat DEF PartSet
  <2>3. Gives(ReadF(Y), Y, PartsOf(PlainPiece))
    BY <2>2, ReadPartType
  <2> QED BY <2>1, <2>3 DEF Gives, Lists, ReadF, IsList
<1>2. ASSUME PlainRead(C) = <<>> PROVE FALSE
  <2>1. \A i \in DOMAIN C : ReadF(BlockParts(PlainPiece))[C[i]] = <<>>
    BY <1>1, <1>2, FlatEmptyParts DEF PlainRead
  <2>2. 1 \in DOMAIN C
    BY DEF IsList
  <2>3. C[1] \in BlockParts(PlainPiece)
    BY <2>2, Listed
  <2>4. C[1].type \in {"text", "image"}
    BY <2>2, <2>3 DEF WithFile, BlockParts
  <2>5. ReadPart(C[1]) = <<>>
    BY <2>1, <2>2, <2>3 DEF ReadF
  <2> QED BY <2>4, <2>5 DEF ReadPart
<1> QED BY <1>2

LEMMA AnthropicTurn ==
    ASSUME entry = "anthropic", IsList(open, Nat), NEW content, IsList(content, PartsFor(entry))
    PROVE  LET turn == UserTurn(FALSE, content)
           IN /\ Readable(entry, turn)
              /\ FactsOf(entry, turn) = TurnFacts(open, FALSE, Turn, content)
              /\ \E w : /\ UserTail(w) /\ Parsed(entry, turn) = TurnRead(open, FALSE, Turn, w)
                        /\ content # <<>> => w # <<>> \/ WithFile(content)
<1>1. IsList(content, BlockParts(PlainPiece))
  BY DEF PartsFor
<1>2. PICK s : s = Image(ResultF, open) \o content
  OBVIOUS
<1>3. PICK m : m = [role |-> "user", content |-> s]
  OBVIOUS
<1>4. UserTurn(FALSE, content) = <<m>>
  <2>1. Results = Image(ResultF, open)
    <3>1. Results = [i \in DOMAIN open |-> ToolResult(open[i], <<<<"r", open[i]>>>>)]
      BY DEF Results, Map
    <3>2. \A i \in DOMAIN open : ResultF[open[i]] = ToolResult(open[i], <<<<"r", open[i]>>>>)
      BY Listed DEF ResultF, ResultBlock
    <3> QED BY <3>1, <3>2 DEF Image
  <2> QED BY <1>2, <1>3, <2>1 DEF UserTurn, Written
<1>5. PICK c : c = PlainRead(content)
  OBVIOUS
<1>6. /\ Legible(entry, m) /\ ParseMsg(entry, m) = Flat(ToolF, open) \o UserOf(c)
      /\ Facts(entry, m) = Flat(ResultFactsF, open) \o ContentFacts("user", content)
      /\ IsList(c, PartsOf(PlainPiece))
  BY <1>1, <1>2, <1>3, <1>5, AnthropicUser
<1>7. /\ Readable(entry, <<m>>)
      /\ Parsed(entry, <<m>>) = ParseMsg(entry, m) /\ FactsOf(entry, <<m>>) = Facts(entry, m)
  BY <1>6, ReadableOne
<1>8. /\ Flat(ToolF, open) \o <<>> = Flat(ToolF, open)
      /\ Flat(ResultFactsF, open) \o <<>> = Flat(ResultFactsF, open)
  <2>1. IsList(Flat(ToolF, open), Shaped) /\ IsList(Flat(ResultFactsF, open), Fact)
    BY ToolFacts
  <2> QED BY <2>1, ListFacts
<1>9. PICK w : w = UserOf(c)
  OBVIOUS
<1>10. UserTail(w)
  BY <1>6, <1>9 DEF UserTail, UserOf, Opt
<1>11. content # <<>> => w # <<>> \/ WithFile(content)
  <2>1. ASSUME content # <<>>, ~WithFile(content) PROVE w # <<>>
    <3>1. c # <<>>
      BY <1>1, <1>5, <2>1, NoFile
    <3> QED BY <3>1, <1>9 DEF UserOf, Opt
  <2> QED BY <2>1
<1>12. \A y : Opt(FALSE, y) = <<>>
  BY FlattenOpt
<1>13. Parsed(entry, <<m>>) = TurnRead(open, FALSE, Turn, w)
  BY <1>6, <1>7, <1>8, <1>9, <1>12 DEF TurnRead
<1>14. FactsOf(entry, <<m>>) = TurnFacts(open, FALSE, Turn, content)
  BY <1>6, <1>7, <1>8, <1>12 DEF TurnFacts
<1> QED BY <1>4, <1>7, <1>10, <1>11, <1>13, <1>14

LEMMA ItemsTurn ==
    ASSUME entry \in {"openai", "responses"}, terse \in BOOLEAN, IsList(open, Nat), Turn \in Nat,
           NEW content, IsList(content, PartsFor(entry)), NEW note \in BOOLEAN
    PROVE  LET turn == UserTurn(note, content)
           IN /\ Readable(entry, turn)
              /\ FactsOf(entry, turn) = TurnFacts(open, note, Turn, content)
              /\ \E w : /\ UserTail(w) /\ Parsed(entry, turn) = TurnRead(open, note, Turn, w)
                        /\ content # <<>> => w # <<>>
<1>1. PICK a : a = Results
  OBVIOUS
<1>2. /\ Readable(entry, a) /\ Parsed(entry, a) = Flat(ToolF, open)
      /\ FactsOf(entry, a) = Flat(ResultFactsF, open)
  BY <1>1, ResultsRead
<1>3. PICK b : b = FlattenSeq(Opt(note, NoteItem))
  OBVIOUS
<1>4. /\ Readable(entry, b) /\ Parsed(entry, b) = Opt(note, SystemMessage(Turn))
      /\ FactsOf(entry, b) = Opt(note, SystemFact(Turn))
  BY <1>3, NoteRead
<1>5. PICK d : d = FlattenSeq(Opt(content # <<>>, Written("user", content)))
  OBVIOUS
<1>6. Readable(entry, d) /\ FactsOf(entry, d) = ContentFacts("user", content)
  BY <1>5, ContentRead
<1>7. PICK c : /\ IsList(c, PartsOf(PlainPiece))
               /\ Parsed(entry, d) = Opt(content # <<>>, UserMessage(c))
  BY <1>5, ContentRead
<1>8. PICK w : w = Opt(content # <<>>, UserMessage(c))
  OBVIOUS
<1>9. UserTail(w)
  BY <1>7, <1>8 DEF UserTail, Opt
<1>10. content # <<>> => w # <<>>
  BY <1>8 DEF Opt
<1>11. UserTurn(note, content) = (a \o b) \o d
  BY <1>1, <1>3, <1>5 DEF UserTurn, NoteItem
<1>12. /\ Readable(entry, a \o b)
       /\ Parsed(entry, a \o b) = Parsed(entry, a) \o Parsed(entry, b)
       /\ FactsOf(entry, a \o b) = FactsOf(entry, a) \o FactsOf(entry, b)
  BY <1>2, <1>4, ReadableConcat, ZenonT(30)
<1>13. /\ Readable(entry, (a \o b) \o d)
       /\ Parsed(entry, (a \o b) \o d) = Parsed(entry, a \o b) \o Parsed(entry, d)
       /\ FactsOf(entry, (a \o b) \o d) = FactsOf(entry, a \o b) \o FactsOf(entry, d)
  <2>1. PICK h : h = a \o b
    OBVIOUS
  <2>2. Readable(entry, h) /\ Readable(entry, d)
    BY <1>6, <1>12, <2>1
  <2>3. /\ Readable(entry, h \o d)
        /\ Parsed(entry, h \o d) = Parsed(entry, h) \o Parsed(entry, d)
        /\ FactsOf(entry, h \o d) = FactsOf(entry, h) \o FactsOf(entry, d)
    BY <2>2, ReadableConcat
  <2> QED BY <2>1, <2>3
<1>14. Parsed(entry, (a \o b) \o d) = TurnRead(open, note, Turn, w)
  BY <1>2, <1>4, <1>7, <1>8, <1>12, <1>13 DEF TurnRead
<1>15. FactsOf(entry, (a \o b) \o d) = TurnFacts(open, note, Turn, content)
  BY <1>2, <1>4, <1>6, <1>12, <1>13 DEF TurnFacts
<1> QED BY <1>9, <1>10, <1>11, <1>13, <1>14, <1>15

-----------------------------------------------------------------------------
(* An answer of the upstream.                                              *)

AnswerTexts == {TextPart(<<<<"a", n>>>>) : n \in Nat}
Reasons == {"stop", "length", "tool_calls"}
Reply(texts, calls, reason) == <<Choice(AssistantMessage(texts, calls), reason)>>
RawUse(c) == ToolUse(c.id, c.args)
RawUses == {RawUse(c) : c \in Call}

LEMMA AnswerTextParts ==
    /\ AnswerTexts \subseteq TextParts /\ AnswerTexts \subseteq OpenAIParts(PlainPiece)
    /\ \A p \in AnswerTexts : p.type = "text" /\ p.text # <<>> /\ IsList(p.text, PlainPiece)
<1> SUFFICES ASSUME NEW p \in AnswerTexts
             PROVE  /\ p \in TextParts /\ p \in OpenAIParts(PlainPiece)
                    /\ p.type = "text" /\ p.text # <<>> /\ IsList(p.text, PlainPiece)
  OBVIOUS
<1>1. PICK n \in Nat : p = TextPart(<<<<"a", n>>>>)
  BY DEF AnswerTexts
<1>2. PICK t : t = <<<<"a", n>>>>
  OBVIOUS
<1>3. IsList(t, PlainPiece) /\ t # <<>>
  BY <1>2, SinglePieces
<1> QED BY <1>1, <1>2, <1>3 DEF TextPart, TextParts, OpenAIParts, IsList

LEMMA SameTexts ==
    ASSUME NEW texts, IsList(texts, AnswerTexts)
    PROVE  /\ ParseOpenAIContent(texts) = texts /\ ContentPartsToAny(texts) = texts
           /\ IsList(texts, TextParts) /\ IsList(texts, OpenAIParts(PlainPiece))
<1>1. \A i \in DOMAIN texts : texts[i].type = "text"
  BY Listed, AnswerTextParts
<1>2. texts = [i \in DOMAIN texts |-> texts[i]]
  BY DEF IsList
<1>3. ParseOpenAIContent(texts) = texts
  BY <1>1, <1>2 DEF ParseOpenAIContent, Map
<1>4. ContentPartsToAny(texts) = texts
  BY <1>1, <1>2 DEF ContentPartsToAny, Map
<1>5. IsList(texts, TextParts) /\ IsList(texts, OpenAIParts(PlainPiece))
  BY AnswerTextParts, Wider
<1> QED BY <1>3, <1>4, <1>5

LEMMA MapOne ==
    ASSUME NEW x, NEW f
    PROVE  Image(f, <<x>>) = <<f[x]>>
BY DEF Image

\* The blocks of one type, where a list has those of two.
LEMMA OfTypeSplit ==
    ASSUME NEW s, NEW t, IsList(s, ClientBlocks), IsList(t, ClientBlocks),
           NEW types, NEW X, NEW Y, IsList(s, X), IsList(t, Y),
           \A b \in X : b.type \in types, \A b \in Y : b.type \notin types
    PROVE  OfType(types, s \o t) = s /\ OfType(types, t \o s) = s
<1>1. IsList(s \o t, ClientBlocks) /\ IsList(t \o s, ClientBlocks)
  BY ListFacts
<1> DEFINE Z == {b \in ClientBlocks : b.type \in types}
           g == [b \in ClientBlocks |-> Opt(b.type \in types, b)]
<1>2. \A r : IsList(r, ClientBlocks) => OfType(types, r) = Flat(g, r)
  BY Listed DEF OfType, Select, Map, Flat, Image
<1>3. Gives(g, ClientBlocks, ClientBlocks)
  <2>1. \A b \in ClientBlocks : IsList(<<b>>, ClientBlocks) /\ IsList(<<>>, ClientBlocks)
    BY ListFacts
  <2> QED BY <2>1 DEF Gives, Opt
<1>4. \A b \in ClientBlocks : b.type \in types => g[b] = <<b>>
  BY DEF Opt
<1>5. \A b \in ClientBlocks : b.type \notin types => g[b] = <<>>
  BY DEF Opt
<1> HIDE DEF Z, g
<1>6. PICK U : U = X \cap ClientBlocks
  OBVIOUS
<1>7. PICK V : V = Y \cap ClientBlocks
  OBVIOUS
<1>8. IsList(s, U) /\ IsList(t, V)
  BY <1>6, <1>7 DEF IsList
<1>9. Flat(g, s) = s
  <2>1. \A b \in U : g[b] = <<b>>
    BY <1>4, <1>6
  <2> QED BY <1>8, <2>1, FlatAll
<1>10. Flat(g, t) = <<>>
  <2>1. \A b \in V : g[b] = <<>>
    BY <1>5, <1>7
  <2> QED BY <1>8, <2>1, FlatNone
<1>11. Flat(g, s \o t) = Flat(g, s) \o Flat(g, t) /\ Flat(g, t \o s) = Flat(g, t) \o Flat(g, s)
  BY <1>3, FlatJoin
<1>12. s \o <<>> = s /\ <<>> \o s = s
  BY ListFacts
<1> QED BY <1>1, <1>2, <1>9, <1>10, <1>11, <1>12

LEMMA AnthropicReply ==
    ASSUME NEW texts, IsList(texts, AnswerTexts), NEW calls, IsList(calls, Call),
           NEW reason \in Reasons
    PROVE  ParseAnthropicMessagesResponse(
             [content |-> texts \o Map(LAMBDA c : ToolUse(c.id, c.args), calls),
              stop_reason |-> AnthropicStopReason(reason)]) = Reply(texts, calls, reason)
<1>1. PICK u : u = Map(LAMBDA c : ToolUse(c.id, c.args), calls)
  OBVIOUS
<1>2. DOMAIN u = DOMAIN calls /\ \A i \in DOMAIN calls : u[i] = RawUse(calls[i])
  BY <1>1 DEF Map, RawUse
<1>3. IsList(u, RawUses)
  <2>1. PICK f : f = [c \in Call |-> RawUse(c)]
    OBVIOUS
  <2>2. Maps(f, Call, RawUses)
    BY <2>1 DEF Maps, RawUses
  <2>3. u = Image(f, calls)
    <3>1. \A i \in DOMAIN calls : u[i] = f[calls[i]]
      BY <1>2, <2>1, Listed
    <3>2. u = [i \in DOMAIN calls |-> u[i]]
      BY <1>1, <1>2 DEF Map
    <3> QED BY <3>1, <3>2 DEF Image
  <2> QED BY <2>2, <2>3, ImageType
<1>4. \A b \in RawUses : b.type = "tool_use" /\ b \in ClientBlocks
  BY DEF RawUses, RawUse, ToolUse, ClientBlocks, Call
<1>5. \A b \in TextParts : b.type = "text" /\ b \in ClientBlocks
  BY DEF TextParts, ClientBlocks, BlockParts
<1>6. IsList(texts, TextParts)
  BY SameTexts
<1>7. IsList(texts, ClientBlocks) /\ IsList(u, ClientBlocks)
  <2>1. TextParts \subseteq ClientBlocks /\ RawUses \subseteq ClientBlocks
    BY <1>4, <1>5
  <2> QED BY <1>3, <1>6, <2>1, Wider
<1>8. OfType({"text"}, texts \o u) = texts
  <2>1. PICK y : y = {"text"}
    OBVIOUS
  <2>2. \A b \in TextParts : b.type \in y
    BY <1>5, <2>1
  <2>3. \A b \in RawUses : b.type \notin y
    BY <1>4, <2>1
  <2>4. OfType(y, texts \o u) = texts
    BY <1>3, <1>6, <1>7, <2>2, <2>3, OfTypeSplit
  <2> QED BY <2>1, <2>4
<1>9. OfType({"tool_use"}, texts \o u) = u
  <2>1. PICK y : y = {"tool_use"}
    OBVIOUS
  <2>2. \A b \in RawUses : b.type \in y
    BY <1>4, <2>1
  <2>3. \A b \in TextParts : b.type \notin y
    BY <1>5, <2>1
  <2>4. OfType(y, texts \o u) = u
    BY <1>3, <1>6, <1>7, <2>2, <2>3, OfTypeSplit
  <2> QED BY <2>1, <2>4
<1>10. Map(LAMBDA b : [id |-> b.id, args |-> b.input], u) = calls
  <2>1. \A i \in DOMAIN calls : [id |-> u[i].id, args |-> u[i].input] = calls[i]
    <3> SUFFICES ASSUME NEW i \in DOMAIN calls
                 PROVE  [id |-> u[i].id, args |-> u[i].input] = calls[i]
      OBVIOUS
    <3>1. u[i].id = calls[i].id /\ u[i].input = calls[i].args
      BY <1>2 DEF RawUse, ToolUse
    <3>2. calls[i] \in Call
      BY Listed
    <3>3. calls[i] = [id |-> calls[i].id, args |-> calls[i].args]
      BY <3>2 DEF Call
    <3> QED BY <3>1, <3>3
  <2>2. calls = [i \in DOMAIN calls |-> calls[i]]
    BY DEF IsList
  <2> QED BY <1>2, <2>1, <2>2 DEF Map
<1>11. IRFinishReason(AnthropicStopReason(reason)) = reason
  BY DEF IRFinishReason, AnthropicStopReason, Reasons
<1> QED BY <1>1, <1>8, <1>9, <1>10, <1>11 DEF ParseAnthropicMessagesResponse, Reply, AssistantMessage

LEMMA OpenAIReply ==
    ASSUME NEW texts, IsList(texts, AnswerTexts), NEW calls, NEW reason
    PROVE  ParseOpenAIChatResponse(
             <<Choice(OpenAIMessage("assistant", texts, calls, NoId), reason)>>)
               = Reply(texts, calls, reason)
<1>1. PICK x : x = Choice(OpenAIMessage("assistant", texts, calls, NoId), reason)
  OBVIOUS
<1>2. ParseOpenAIChatResponse(<<x>>) = <<Choice(ParseOpenAIMessage(x.message), x.finish)>>
  BY DEF ParseOpenAIChatResponse, Map
<1>3. x.message = OpenAIMessage("assistant", texts, calls, NoId) /\ x.finish = reason
  BY <1>1 DEF Choice
<1>4. ParseOpenAIMessage(OpenAIMessage("assistant", texts, calls, NoId))
        = AssistantMessage(texts, calls)
  BY SameTexts DEF ParseOpenAIMessage, OpenAIMessage, AssistantMessage
<1> QED BY <1>1, <1>2, <1>3, <1>4 DEF Reply

\* Whatever the upstream speaks, the gateway reads the same reply.
LEMMA AnswerRead ==
    ASSUME NEW texts, IsList(texts, AnswerTexts), NEW calls, IsList(calls, Call),
           NEW reason \in Reasons
    PROVE  UpstreamAnswer(texts, calls, reason) = Reply(texts, calls, reason)
BY AnthropicReply, OpenAIReply DEF UpstreamAnswer

-----------------------------------------------------------------------------
(* An answer in the history of the client.                                 *)

AnswerFacts(texts, calls) == ContentFacts("assistant", texts) \o Flat(CallF, calls)
PieceOfF == [p \in AnswerTexts |-> p.text]
WholeText(texts) == Flat(PieceOfF, texts)
LoneCallF == [c \in Call |-> <<AssistantMessage(<<>>, <<c>>)>>]

\* What the gateway reads of an answer in a client's history.
AnswerMsgs(e, texts, calls) ==
    IF e = "openai" THEN <<AssistantMessage(texts, calls)>>
    ELSE IF e = "anthropic" THEN <<AssistantMessage(texts, Flat(DecodedF, calls))>>
    ELSE Opt(WholeText(texts) # <<>>, AssistantMessage(<<TextPart(WholeText(texts))>>, <<>>))
           \o Flat(LoneCallF, calls)

LEMMA ReplyFields ==
    ASSUME NEW texts, NEW calls, NEW reason
    PROVE  /\ \A op : Image(op, Reply(texts, calls, reason))
                        = <<op[Choice(AssistantMessage(texts, calls), reason)]>>
           /\ Choice(AssistantMessage(texts, calls), reason).message = AssistantMessage(texts, calls)
           /\ Choice(AssistantMessage(texts, calls), reason).finish = reason
           /\ AssistantMessage(texts, calls).role = "assistant"
           /\ AssistantMessage(texts, calls).content = texts
           /\ AssistantMessage(texts, calls).calls = calls
           /\ AssistantMessage(texts, calls).call_id = NoId
<1>1. PICK x : x = Choice(AssistantMessage(texts, calls), reason)
  OBVIOUS
<1>2. Reply(texts, calls, reason) = <<x>>
  BY <1>1 DEF Reply
<1>3. \A op : Image(op, <<x>>) = <<op[x]>>
  BY MapOne
<1>4. x.message = AssistantMessage(texts, calls) /\ x.finish = reason
  BY <1>1 DEF Choice
<1>5. /\ AssistantMessage(texts, calls).role = "assistant"
      /\ AssistantMessage(texts, calls).content = texts
      /\ AssistantMessage(texts, calls).calls = calls
      /\ AssistantMessage(texts, calls).call_id = NoId
  BY DEF AssistantMessage, Message
<1> QED BY <1>1, <1>2, <1>3, <1>4, <1>5

LEMMA OpenAIFiled ==
    ASSUME entry = "openai", NEW texts, IsList(texts, AnswerTexts),
           NEW calls, IsList(calls, Call), NEW reason
    PROVE  LET s == Filed(Reply(texts, calls, reason))
           IN /\ Readable(entry, s) /\ Parsed(entry, s) = AnswerMsgs(entry, texts, calls)
              /\ FactsOf(entry, s) = AnswerFacts(texts, calls)
              /\ ClientReason(Reply(texts, calls, reason)) = reason
<1>1. PICK m : m = OpenAIMessage("assistant", texts, calls, NoId)
  OBVIOUS
<1>2. PICK i : i = AssistantMessage(texts, calls)
  OBVIOUS
<1>3. PICK x : x = Choice(i, reason)
  OBVIOUS
<1>4. Reply(texts, calls, reason) = <<x>> /\ x.message = i /\ x.finish = reason
  BY <1>2, <1>3 DEF Reply, Choice
<1>5. MessageOutToOpenAI(i) = m
  <2>1. i.role = "assistant" /\ i.content = texts /\ i.calls = calls /\ i.call_id = NoId
    BY <1>2, ReplyFields
  <2>2. ContentPartsToAny(texts) = texts
    BY SameTexts
  <2> QED BY <1>1, <2>1, <2>2 DEF MessageOutToOpenAI
<1>6. PICK y : y = Choice(m, reason)
  OBVIOUS
<1>7. SerializeOpenAIChatResponse(<<x>>) = <<y>>
  BY <1>4, <1>5, <1>6 DEF SerializeOpenAIChatResponse, Map
<1>8. y.message = m /\ y.finish = reason
  BY <1>6 DEF Choice
<1>9. Filed(<<x>>) = <<m>>
  <2>1. Map(LAMBDA c : c.message, <<y>>) = <<y.message>>
    BY DEF Map
  <2> QED BY <1>7, <1>8, <2>1 DEF Filed
<1>10. ClientReason(<<x>>) = reason
  <2>1. FirstFinishReason(<<y>>) = y.finish
    BY DEF FirstFinishReason
  <2> QED BY <1>7, <1>8, <2>1 DEF ClientReason
<1>11. /\ IsList(texts, OpenAIParts(PlainPiece)) /\ ParseOpenAIContent(texts) = texts
       /\ IsList(texts, TextParts) /\ IsList(texts, PartsOf(PlainPiece))
       /\ IsList(texts, PartsOf(Piece))
  BY SameTexts, TextOwn
<1>12. i \in Shaped /\ i \in IR /\ i = Message("assistant", texts, calls, NoId)
  BY <1>2, <1>11, MessageSets, Messages DEF AssistantMessage
<1>13. /\ Legible("openai", m) /\ ParseMsg("openai", m) = <<i>>
  <2>1. Message("assistant", ParseOpenAIContent(texts), calls, NoId) \in Shaped
    BY <1>11, <1>12
  <2>2. /\ Legible("openai", m)
        /\ ParseMsg("openai", m) = <<Message("assistant", ParseOpenAIContent(texts), calls, NoId)>>
    BY <1>1, <1>11, <2>1, PartSets, NoIdNat, OpenAILegible
  <2> QED BY <1>11, <1>12, <2>2
<1>14. Facts("openai", m) = AnswerFacts(texts, calls)
  <2>1. Flat(IRF, <<i>>) = IRFacts(i)
    BY <1>12, FlatOfOne
  <2>2. IRFacts(i) = Flat(PartF("assistant"), texts) \o Flat(CallF, calls)
    BY <1>2, <1>11, OwnFacts, OwnRole DEF AssistantMessage
  <2>3. ContentFacts("assistant", texts) = Flat(PartF("assistant"), texts)
    BY <1>11, PartSets, NoIdNat, OpenAIRead
  <2> QED BY <1>13, <2>1, <2>2, <2>3 DEF Legible, AnswerFacts
<1>15. /\ Readable(entry, <<m>>)
       /\ Parsed(entry, <<m>>) = ParseMsg(entry, m) /\ FactsOf(entry, <<m>>) = Facts(entry, m)
  BY <1>13, ReadableOne
<1> QED BY <1>2, <1>4, <1>9, <1>10, <1>13, <1>14, <1>15 DEF AnswerMsgs

LEMMA NotEmptyDecoded ==
    ASSUME NEW calls, IsList(calls, Call), calls # <<>>
    PROVE  Flat(DecodedF, calls) # <<>>
<1>1. Lists(DecodedF, Call, Call)
  <2>1. \A c \in Call : IsList(<<Decoded(c)>>, Call)
    BY UseBlocks, ListFacts
  <2> QED BY <2>1 DEF Lists, DecodedF, IsList
<1>2. ASSUME Flat(DecodedF, calls) = <<>> PROVE FALSE
  <2>1. \A i \in DOMAIN calls : DecodedF[calls[i]] = <<>>
    BY <1>1, <1>2, FlatEmptyParts
  <2>2. 1 \in DOMAIN calls
    BY DEF IsList
  <2>3. calls[1] \in Call
    BY <2>2, Listed
  <2>4. DecodedF[calls[1]] = <<Decoded(calls[1])>>
    BY <2>3 DEF DecodedF
  <2> QED BY <2>1, <2>2, <2>4
<1> QED BY <1>2

LEMMA AnthropicFiled ==
    ASSUME entry = "anthropic", NEW texts, IsList(texts, AnswerTexts),
           NEW calls, IsList(calls, Call), texts # <<>> \/ calls # <<>>, NEW reason
    PROVE  LET s == Filed(Reply(texts, calls, reason))
           IN /\ Readable(entry, s) /\ Parsed(entry, s) = AnswerMsgs(entry, texts, calls)
              /\ FactsOf(entry, s) = AnswerFacts(texts, calls)
              /\ ClientReason(Reply(texts, calls, reason)) = AnthropicStopReason(reason)
<1>1. PICK i : i = AssistantMessage(texts, calls)
  OBVIOUS
<1>2. PICK x : x = Choice(i, reason)
  OBVIOUS
<1>3. Reply(texts, calls, reason) = <<x>> /\ x.message = i /\ x.finish = reason
  BY <1>1, <1>2 DEF Reply, Choice
<1>4. i.content = texts /\ i.calls = calls
  BY <1>1, ReplyFields
<1>5. PICK s : s = texts \o Image(UseF, calls)
  OBVIOUS
<1>6. Select(LAMBDA p : p.type = "text" /\ p.text # <<>>, texts) = texts
  <2>1. PICK f : f = [p \in AnswerTexts |-> Opt(p.type = "text" /\ p.text # <<>>, p)]
    OBVIOUS
  <2>2. \A p \in AnswerTexts : f[p] = <<p>>
    BY <2>1, AnswerTextParts DEF Opt
  <2>3. Select(LAMBDA p : p.type = "text" /\ p.text # <<>>, texts) = Flat(f, texts)
    BY <2>1, Listed DEF Select, Map, Flat, Image
  <2>4. Flat(f, texts) = texts
    BY <2>2, FlatAll
  <2> QED BY <2>3, <2>4
<1>7. Map(LAMBDA t : ToolUse(t.id, Input(t.args)), calls) = Image(UseF, calls)
  <2>1. \A k \in DOMAIN calls : UseF[calls[k]] = ToolUse(calls[k].id, Input(calls[k].args))
    BY Listed DEF UseF, AnthropicCall
  <2> QED BY <2>1 DEF Map, Image
<1>8. PICK r : r = SerializeAnthropicMessagesResponse(<<x>>)
  OBVIOUS
<1>9. r.content = s /\ r.stop_reason = AnthropicStopReason(reason)
  <2> DEFINE Bs(c) == Select(LAMBDA p : p.type = "text" /\ p.text # <<>>, c.message.content)
                       \o Map(LAMBDA t : ToolUse(t.id, Input(t.args)), c.message.calls)
  <2>1. Bs(x) = s
    BY <1>3, <1>4, <1>5, <1>6, <1>7
  <2>2. r = [content |-> FlattenSeq(Map(Bs, <<x>>)),
             stop_reason |-> AnthropicStopReason(FirstFinishReason(<<x>>))]
    BY <1>8 DEF SerializeAnthropicMessagesResponse
  <2> HIDE DEF Bs
  <2>3. Map(Bs, <<x>>) = <<Bs(x)>>
    BY DEF Map
  <2>4. FlattenSeq(<<s>>) = s
    BY FlattenOne
  <2>5. FirstFinishReason(<<x>>) = reason
    BY <1>3 DEF FirstFinishReason
  <2> QED BY <2>1, <2>2, <2>3, <2>4, <2>5
<1>10. PICK m : m = [role |-> "assistant", content |-> s]
  OBVIOUS
<1>11. Filed(<<x>>) = <<m>> /\ ClientReason(<<x>>) = AnthropicStopReason(reason)
  BY <1>8, <1>9, <1>10 DEF Filed, ClientReason
<1>12. IsList(texts, TextParts) /\ (texts # <<>> \/ Flat(DecodedF, calls) # <<>>)
  BY SameTexts, NotEmptyDecoded
<1>13. /\ Legible("anthropic", m)
       /\ ParseMsg("anthropic", m) = <<AssistantMessage(texts, Flat(DecodedF, calls))>>
       /\ Facts("anthropic", m) = ContentFacts("assistant", texts) \o Flat(CallF, calls)
  BY <1>5, <1>10, <1>12, AnthropicAssistant
<1>14. /\ Readable(entry, <<m>>)
       /\ Parsed(entry, <<m>>) = ParseMsg(entry, m) /\ FactsOf(entry, <<m>>) = Facts(entry, m)
  BY <1>13, ReadableOne
<1> QED BY <1>3, <1>11, <1>13, <1>14 DEF AnswerMsgs, AnswerFacts

LEMMA WholeTextFacts ==
    ASSUME NEW texts, IsList(texts, AnswerTexts)
    PROVE  /\ IsList(WholeText(texts), PlainPiece)
           /\ TextFacts("assistant", WholeText(texts)) = ContentFacts("assistant", texts)
           /\ FlattenSeq(Map(LAMBDA p : p.text, texts)) = WholeText(texts)
<1>1. Gives(PieceOfF, AnswerTexts, PlainPiece) /\ Gives(PieceOfF, AnswerTexts, Piece)
  <2>1. \A p \in AnswerTexts : IsList(p.text, PlainPiece) /\ IsList(p.text, Piece)
    BY AnswerTextParts, PieceFields, Wider
  <2> QED BY <2>1 DEF Gives, PieceOfF
<1>2. IsList(WholeText(texts), PlainPiece) /\ IsList(WholeText(texts), Piece)
  BY <1>1, FlatGives DEF WholeText
<1>3. PICK k : k = [p \in AnswerTexts |-> TextFacts("assistant", p.text)]
  OBVIOUS
<1>4. Fuses(k, TextF("assistant"), PieceOfF, AnswerTexts)
  <2>1. \A p \in AnswerTexts : TextFacts("assistant", p.text) = Flat(TextF("assistant"), p.text)
    <3>1. \A p \in AnswerTexts : IsList(p.text, Piece)
      BY AnswerTextParts, PieceFields, Wider
    <3> QED BY <3>1, TextFactsFlat
  <2> QED BY <1>3, <2>1 DEF Fuses, PieceOfF
<1>5. Gives(TextF("assistant"), Piece, Fact)
  BY TextFType, GivesLists, NoIdNat
<1>6. Flat(TextF("assistant"), Flat(PieceOfF, texts)) = Flat(k, texts)
  BY <1>1, <1>4, <1>5, FlatThen
<1>7. ContentFacts("assistant", texts) = Flat(k, texts)
  <2>1. \A i \in DOMAIN texts : PartFacts("assistant", texts[i]) = k[texts[i]]
    <3> SUFFICES ASSUME NEW p \in AnswerTexts PROVE PartFacts("assistant", p) = k[p]
      BY Listed
    <3>1. p.type = "text"
      BY AnswerTextParts
    <3> QED BY <1>3, <3>1 DEF PartFacts
  <2>2. Map(LAMBDA p : PartFacts("assistant", p), texts) = Image(k, texts)
    BY <2>1 DEF Map, Image
  <2> QED BY <2>2 DEF ContentFacts, Flat
<1>8. TextFacts("assistant", WholeText(texts)) = Flat(TextF("assistant"), WholeText(texts))
  BY <1>2, TextFactsFlat
<1>9. FlattenSeq(Map(LAMBDA p : p.text, texts)) = WholeText(texts)
  BY Listed DEF Map, WholeText, Flat, Image, PieceOfF
<1> QED BY <1>2, <1>6, <1>7, <1>8, <1>9 DEF WholeText

LEMMA WholeTextOf ==
    ASSUME NEW texts, IsList(texts, AnswerTexts), NEW m, m.content = texts
    PROVE  TextOf(m) = WholeText(texts)
<1>1. OfType({"text"}, texts) = texts
  <2>1. PICK f : f = [p \in AnswerTexts |-> Opt(p.type \in {"text"}, p)]
    OBVIOUS
  <2>2. \A p \in AnswerTexts : f[p] = <<p>>
    BY <2>1, AnswerTextParts DEF Opt
  <2>3. OfType({"text"}, texts) = Flat(f, texts)
    BY <2>1, Listed DEF OfType, Select, Map, Flat, Image
  <2> QED BY <2>2, <2>3, FlatAll
<1> QED BY <1>1, WholeTextFacts DEF TextOf

\* The items of an answer in the history of a Responses client.
Retyped(i) == [i EXCEPT !.type = ItemTypeWritten(i.type)]
TextOutput(t) == [type |-> "message", role |-> "assistant",
                  content |-> <<[type |-> "output_text", text |-> t]>>]
CallOutput(c) == [type |-> "function_call", call_id |-> c.id, arguments |-> c.args]
CallWritten(c) ==
    [type |-> ItemTypeWritten("function_call"), call_id |-> c.id, arguments |-> c.args]
TextWritten(t) == [type |-> ItemTypeWritten("message"), role |-> "assistant",
                   content |-> <<[type |-> "output_text", text |-> t]>>]

LEMMA RetypedItems ==
    /\ \A t : Retyped(TextOutput(t)) = TextWritten(t)
    /\ \A c : Retyped(CallOutput(c)) = CallWritten(c)
<1>1. ASSUME NEW t PROVE Retyped(TextOutput(t)) = TextWritten(t)
  <2>1. TextOutput(t).type = "message"
    BY DEF TextOutput
  <2>2. PICK w : w = ItemTypeWritten("message")
    OBVIOUS
  <2>3. Retyped(TextOutput(t)) = [TextOutput(t) EXCEPT !.type = w]
    BY <2>1, <2>2 DEF Retyped
  <2> QED BY <2>2, <2>3 DEF TextOutput, TextWritten
<1>2. ASSUME NEW c PROVE Retyped(CallOutput(c)) = CallWritten(c)
  <2>1. CallOutput(c).type = "function_call"
    BY DEF CallOutput
  <2>2. PICK w : w = ItemTypeWritten("function_call")
    OBVIOUS
  <2>3. Retyped(CallOutput(c)) = [CallOutput(c) EXCEPT !.type = w]
    BY <2>1, <2>2 DEF Retyped
  <2> QED BY <2>2, <2>3 DEF CallOutput, CallWritten
<1> QED BY <1>1, <1>2

LEMMA CallsWritten ==
    ASSUME entry = "responses", terse \in BOOLEAN, NEW calls, IsList(calls, Call)
    PROVE  LET f == [c \in Call |-> CallWritten(c)]
           IN /\ Readable(entry, Image(f, calls))
              /\ Parsed(entry, Image(f, calls)) = Flat(LoneCallF, calls)
              /\ FactsOf(entry, Image(f, calls)) = Flat(CallF, calls)
<1>1. PICK f : f = [c \in Call |-> CallWritten(c)]
  OBVIOUS
<1>2. Writes(entry, f, LoneCallF, CallF, Call)
  <2> SUFFICES ASSUME NEW c \in Call
               PROVE  /\ Legible(entry, f[c]) /\ LoneCallF[c] = ParseMsg(entry, f[c])
                      /\ CallF[c] = Facts(entry, f[c])
    BY DEF Writes
  <2>1. PICK w \in Marked("function_call") : w = ItemTypeWritten("function_call")
    BY WrittenType
  <2>2. f[c] = [type |-> w, call_id |-> c.id, arguments |-> c.args]
    BY <1>1, <2>1 DEF CallWritten
  <2>3. /\ Legible("responses", f[c]) /\ ParseMsg("responses", f[c]) = <<AssistantMessage(<<>>, <<c>>)>>
        /\ Facts("responses", f[c]) = <<CallFact(c.id, c.args)>>
    BY <2>2, ResponsesCall
  <2> QED BY <2>3 DEF LoneCallF, CallF
<1> QED BY <1>1, <1>2, ReadableImage

LEMMA TextsWritten ==
    ASSUME entry = "responses", terse \in BOOLEAN, NEW t, IsList(t, PlainPiece)
    PROVE  /\ Readable(entry, <<TextWritten(t)>>)
           /\ Parsed(entry, <<TextWritten(t)>>) = <<AssistantMessage(<<TextPart(t)>>, <<>>)>>
           /\ FactsOf(entry, <<TextWritten(t)>>) = TextFacts("assistant", t)
<1>1. PICK p : p = [type |-> "output_text", text |-> t]
  OBVIOUS
<1>2. p \in ResponsesParts(PlainPiece) /\ p.type = "output_text" /\ p.text = t
  BY <1>1 DEF ResponsesParts, IsList
<1>3. PICK s : s = <<p>>
  OBVIOUS
<1>4. IsList(s, ResponsesParts(PlainPiece))
  BY <1>2, <1>3, ListFacts
<1>5. Flat(ReadF(ResponsesParts(PlainPiece)), s) = <<TextPart(t)>>
  <2>1. Flat(ReadF(ResponsesParts(PlainPiece)), <<p>>) = ReadF(ResponsesParts(PlainPiece))[p]
    BY FlatOne
  <2>2. ReadF(ResponsesParts(PlainPiece))[p] = ReadPart(p)
    BY <1>2 DEF ReadF
  <2>3. ReadPart(p) = <<TextPart(t)>>
    BY <1>2 DEF ReadPart
  <2> QED BY <1>3, <2>1, <2>2, <2>3
<1>6. ContentFacts("assistant", s) = TextFacts("assistant", t)
  <2>1. ContentFacts("assistant", <<p>>) = PartFacts("assistant", p)
    BY ContentOne
  <2> QED BY <1>2, <1>3, <2>1 DEF PartFacts
<1>7. PICK c : c = <<TextPart(t)>>
  OBVIOUS
<1>8. IsList(c, PartsOf(PlainPiece))
  <2>1. TextPart(t) \in PartsOf(PlainPiece)
    BY DEF TextPart, PartsOf, IsList
  <2> QED BY <1>7, <2>1, ListFacts
<1>9. PICK e : e = <<>>
  OBVIOUS
<1>10. IsList(e, Call)
  BY <1>9, ListFacts
<1>11. AssistantMessage(c, e) \in Shaped
  BY <1>8, <1>10, MessageSets
<1>12. Message("assistant", Flat(ReadF(ResponsesParts(PlainPiece)), s), <<>>, NoId)
         = AssistantMessage(c, e)
  BY <1>5, <1>7, <1>9 DEF AssistantMessage
<1>13. PICK w \in Marked("message") : w = ItemTypeWritten("message")
  BY WrittenType
<1>14. PICK m : m = [type |-> w, role |-> "assistant", content |-> s]
  OBVIOUS
<1>15. /\ Legible("responses", m) /\ ParseMsg("responses", m) = <<AssistantMessage(c, e)>>
       /\ Facts("responses", m) = ContentFacts("assistant", s)
  <2>1. PICK role \in OwnRoles : role = "assistant"
    BY OwnRole
  <2>2. Message(role, Flat(ReadF(ResponsesParts(PlainPiece)), s), <<>>, NoId) \in Shaped
    BY <1>11, <1>12, <2>1
  <2>3. LET x == [type |-> w, role |-> role, content |-> s]
        IN /\ Legible("responses", x)
           /\ ParseMsg("responses", x)
                = <<Message(role, Flat(ReadF(ResponsesParts(PlainPiece)), s), <<>>, NoId)>>
           /\ Facts("responses", x) = ContentFacts(role, s)
    BY <1>4, <2>2, PartSets, ResponsesMessage
  <2> QED BY <1>12, <1>14, <2>1, <2>3
<1>16. TextWritten(t) = m
  BY <1>1, <1>3, <1>13, <1>14 DEF TextWritten
<1>17. /\ Readable(entry, <<m>>)
       /\ Parsed(entry, <<m>>) = ParseMsg(entry, m) /\ FactsOf(entry, <<m>>) = Facts(entry, m)
  BY <1>15, ReadableOne
<1> QED BY <1>6, <1>7, <1>9, <1>15, <1>16, <1>17

OutputItems == {TextOutput(t) : t \in Seq(PlainPiece)} \cup {CallOutput(c) : c \in Call}
RetypedF == [i \in OutputItems |-> Retyped(i)]
CallWrittenF == [c \in Call |-> CallWritten(c)]

LEMMA RetypedAll ==
    ASSUME NEW t, IsList(t, PlainPiece), NEW calls, IsList(calls, Call)
    PROVE  LET a == Opt(t # <<>>, TextOutput(t))
               b == Map(LAMBDA c : [type |-> "function_call", call_id |-> c.id,
                                    arguments |-> c.args], calls)
           IN Map(LAMBDA i : [i EXCEPT !.type = ItemTypeWritten(i.type)], a \o b)
                = Opt(t # <<>>, TextWritten(t)) \o Image(CallWrittenF, calls)
<1>1. PICK a : a = Opt(t # <<>>, TextOutput(t))
  OBVIOUS
<1>2. PICK b : b = Map(LAMBDA c : [type |-> "function_call", call_id |-> c.id,
                                    arguments |-> c.args], calls)
  OBVIOUS
<1>3. DOMAIN b = DOMAIN calls /\ \A k \in DOMAIN calls : b[k] = CallOutput(calls[k])
  BY <1>2 DEF Map, CallOutput
<1>4. IsList(a, OutputItems)
  <2>1. TextOutput(t) \in OutputItems
    BY DEF OutputItems, IsList
  <2>2. IsList(<<TextOutput(t)>>, OutputItems) /\ IsList(<<>>, OutputItems)
    BY <2>1, ListFacts
  <2> QED BY <1>1, <2>2 DEF Opt
<1>5. IsList(b, OutputItems)
  <2>1. PICK f : f = [c \in Call |-> CallOutput(c)]
    OBVIOUS
  <2>2. Maps(f, Call, OutputItems)
    BY <2>1 DEF Maps, OutputItems
  <2>3. b = Image(f, calls)
    <3>1. \A k \in DOMAIN calls : b[k] = f[calls[k]]
      BY <1>3, <2>1, Listed
    <3>2. b = [k \in DOMAIN calls |-> b[k]]
      BY <1>2, <1>3 DEF Map
    <3> QED BY <3>1, <3>2 DEF Image
  <2> QED BY <2>2, <2>3, ImageType
<1>6. PICK Y : Y = {Retyped(i) : i \in OutputItems}
  OBVIOUS
<1>7. Maps(RetypedF, OutputItems, Y)
  BY <1>6 DEF Maps, RetypedF
<1>8. Image(RetypedF, a \o b) = Image(RetypedF, a) \o Image(RetypedF, b)
  BY <1>4, <1>5, <1>7, ImageConcat
<1>9. IsList(a \o b, OutputItems)
  BY <1>4, <1>5, ListFacts
<1>10. Map(LAMBDA i : [i EXCEPT !.type = ItemTypeWritten(i.type)], a \o b) = Image(RetypedF, a \o b)
  <2>1. PICK s : s = a \o b
    OBVIOUS
  <2>2. \A k \in DOMAIN s : RetypedF[s[k]] = [s[k] EXCEPT !.type = ItemTypeWritten(s[k].type)]
    BY <1>9, <2>1, Listed DEF RetypedF, Retyped
  <2>3. Map(LAMBDA i : [i EXCEPT !.type = ItemTypeWritten(i.type)], s) = Image(RetypedF, s)
    BY <2>2 DEF Map, Image
  <2> QED BY <2>1, <2>3
<1>11. Image(RetypedF, a) = Opt(t # <<>>, TextWritten(t))
  <2>1. CASE t # <<>>
    <3>1. PICK x : x = TextOutput(t)
      OBVIOUS
    <3>2. x \in OutputItems
      BY <3>1 DEF OutputItems, IsList
    <3>3. Image(RetypedF, <<x>>) = <<RetypedF[x]>>
      BY MapOne
    <3>4. RetypedF[x] = TextWritten(t)
      BY <3>1, <3>2, RetypedItems DEF RetypedF
    <3> QED BY <1>1, <2>1, <3>1, <3>3, <3>4 DEF Opt
  <2>2. CASE t = <<>>
    <3>1. DOMAIN <<>> = {}
      OBVIOUS
    <3>2. Image(RetypedF, <<>>) = <<>>
      BY <3>1 DEF Image
    <3> QED BY <1>1, <2>2, <3>2 DEF Opt
  <2> QED BY <2>1, <2>2
<1>12. Image(RetypedF, b) = Image(CallWrittenF, calls)
  <2>1. \A k \in DOMAIN calls : RetypedF[b[k]] = CallWrittenF[calls[k]]
    <3> SUFFICES ASSUME NEW k \in DOMAIN calls PROVE RetypedF[b[k]] = CallWrittenF[calls[k]]
      OBVIOUS
    <3>1. calls[k] \in Call
      BY Listed
    <3>2. b[k] \in OutputItems /\ b[k] = CallOutput(calls[k])
      BY <1>3, <3>1 DEF OutputItems
    <3> QED BY <3>1, <3>2, RetypedItems DEF RetypedF, CallWrittenF
  <2> QED BY <1>3, <2>1 DEF Image
<1> QED BY <1>1, <1>2, <1>8, <1>10, <1>11, <1>12

LEMMA ResponsesFiled ==
    ASSUME entry = "responses", terse \in BOOLEAN, NEW texts, IsList(texts, AnswerTexts),
           NEW calls, IsList(calls, Call), NEW reason
    PROVE  LET s == Filed(Reply(texts, calls, reason))
           IN /\ Readable(entry, s) /\ Parsed(entry, s) = AnswerMsgs(entry, texts, calls)
              /\ FactsOf(entry, s) = AnswerFacts(texts, calls)
<1>1. PICK i : i = AssistantMessage(texts, calls)
  OBVIOUS
<1>2. PICK x : x = Choice(i, reason)
  OBVIOUS
<1>3. Reply(texts, calls, reason) = <<x>> /\ x.message = i /\ i.content = texts /\ i.calls = calls
  <2>1. Reply(texts, calls, reason) = <<x>> /\ x.message = i
    BY <1>1, <1>2 DEF Reply, Choice
  <2>2. i.content = texts /\ i.calls = calls
    BY <1>1, ReplyFields
  <2> QED BY <2>1, <2>2
<1>4. PICK t : t = WholeText(texts)
  OBVIOUS
<1>5. /\ TextOf(i) = t /\ IsList(t, PlainPiece)
      /\ TextFacts("assistant", t) = ContentFacts("assistant", texts)
  <2>1. TextOf(i) = t
    BY <1>3, <1>4, WholeTextOf
  <2> QED BY <1>4, <2>1, WholeTextFacts
<1>6. TextItem(i) = Opt(t # <<>>, TextOutput(t))
  BY <1>5 DEF TextItem, TextOutput
<1>7. PICK b : b = CallItems(i)
  OBVIOUS
<1>8. b = Map(LAMBDA c : [type |-> "function_call", call_id |-> c.id,
                          arguments |-> c.args], calls)
  BY <1>3, <1>7 DEF CallItems
<1>9. PICK a : a = Opt(t # <<>>, TextOutput(t))
  OBVIOUS
<1>10. SerializeResponsesResponse(<<x>>) = a \o b
  <2>1. SerializeResponsesResponse(<<x>>) =
          FlattenSeq(<<TextItem(x.message) \o CallItems(x.message)>>)
    <3> DEFINE It(c) == TextItem(c.message) \o CallItems(c.message)
    <3>1. SerializeResponsesResponse(<<x>>) = FlattenSeq(Map(It, <<x>>))
      BY DEF SerializeResponsesResponse
    <3>2. Map(It, <<x>>) = <<It(x)>>
      <4> HIDE DEF It
      <4> QED BY DEF Map
    <3> QED BY <3>1, <3>2
  <2>2. FlattenSeq(<<TextItem(x.message) \o CallItems(x.message)>>)
          = TextItem(x.message) \o CallItems(x.message)
    BY FlattenOne
  <2> QED BY <1>3, <1>6, <1>7, <1>9, <2>1, <2>2
<1>11. PICK d : d = Image(CallWrittenF, calls)
  OBVIOUS
<1>12. PICK e : e = Opt(t # <<>>, TextWritten(t))
  OBVIOUS
<1>13. Filed(<<x>>) = e \o d
  <2>1. Filed(<<x>>) =
          Map(LAMBDA k : [k EXCEPT !.type = ItemTypeWritten(k.type)], a \o b)
    BY <1>10 DEF Filed
  <2>2. Map(LAMBDA k : [k EXCEPT !.type = ItemTypeWritten(k.type)], a \o b) = e \o d
    BY <1>5, <1>8, <1>9, <1>11, <1>12, RetypedAll
  <2> QED BY <2>1, <2>2
<1>14. /\ Readable(entry, d) /\ Parsed(entry, d) = Flat(LoneCallF, calls)
       /\ FactsOf(entry, d) = Flat(CallF, calls)
  BY <1>11, CallsWritten DEF CallWrittenF
<1>15. /\ Readable(entry, e)
       /\ Parsed(entry, e) = Opt(t # <<>>, AssistantMessage(<<TextPart(t)>>, <<>>))
       /\ FactsOf(entry, e) = ContentFacts("assistant", texts)
  <2>1. CASE t # <<>>
    <3>1. e = <<TextWritten(t)>>
      BY <1>12, <2>1 DEF Opt
    <3> QED BY <1>5, <2>1, <3>1, TextsWritten DEF Opt
  <2>2. CASE t = <<>>
    <3>1. e = <<>>
      BY <1>12, <2>2 DEF Opt
    <3>2. TextFacts("assistant", t) = <<>>
      <4>1. IsList(t, Piece)
        BY <1>5, PieceFields, Wider
      <4>2. TextFacts("assistant", t) = Flat(TextF("assistant"), t)
        BY <4>1, TextFactsFlat
      <4> QED BY <2>2, <4>2, FlatEmpty
    <3> QED BY <1>5, <2>2, <3>1, <3>2, ReadableEmpty DEF Opt
  <2> QED BY <2>1, <2>2
<1>16. /\ Readable(entry, e \o d)
       /\ Parsed(entry, e \o d) = Parsed(entry, e) \o Parsed(entry, d)
       /\ FactsOf(entry, e \o d) = FactsOf(entry, e) \o FactsOf(entry, d)
  BY <1>14, <1>15, ReadableConcat, ZenonT(30)
<1> QED BY <1>3, <1>4, <1>13, <1>14, <1>15, <1>16 DEF AnswerMsgs, AnswerFacts

\* The client files what was said, and is given its protocol's finish reason.
LEMMA AnswerFiled ==
    ASSUME entry \in Entries, terse \in BOOLEAN, NEW texts, IsList(texts, AnswerTexts),
           NEW calls, IsList(calls, Call), texts # <<>> \/ calls # <<>>, NEW reason
    PROVE  LET r == Reply(texts, calls, reason)
           IN /\ Readable(entry, Filed(r)) /\ Parsed(entry, Filed(r)) = AnswerMsgs(entry, texts, calls)
              /\ FactsOf(entry, Filed(r)) = AnswerFacts(texts, calls)
              /\ entry = "openai" => ClientReason(r) = reason
              /\ entry = "anthropic" => ClientReason(r) = AnthropicStopReason(reason)
<1>1. entry \in {"openai", "anthropic", "responses"}
  BY DEF Entries
<1> QED BY <1>1, OpenAIFiled, AnthropicFiled, ResponsesFiled

-----------------------------------------------------------------------------
(* The whole request of a client.                                          *)

HeadOf(system) == Opt(system # <<>>, Message("system", <<TextPart(system)>>, <<>>, NoId))
SystemTexts == {<<>>, <<<<"s", 0>>>>}

LEMMA Heads ==
    ASSUME NEW system \in SystemTexts
    PROVE  /\ IsList(HeadOf(system), Shaped) /\ IsList(TextFacts("system", system), Fact)
           /\ Flat(IRF, HeadOf(system)) = TextFacts("system", system)
<1>1. CASE system = <<>>
  <2>1. HeadOf(system) = <<>>
    BY <1>1 DEF HeadOf, Opt
  <2>2. PICK t : t = <<>>
    OBVIOUS
  <2>3. IsList(t, Piece)
    BY <2>2, ListFacts
  <2>4. TextFacts("system", t) = Flat(TextF("system"), t)
    BY <2>3, TextFactsFlat
  <2>5. TextFacts("system", system) = <<>>
    BY <1>1, <2>2, <2>4, FlatEmpty
  <2>6. IsList(<<>>, Shaped) /\ IsList(<<>>, Fact) /\ Flat(IRF, <<>>) = <<>>
    BY ListFacts, FlatEmpty
  <2> QED BY <2>1, <2>5, <2>6
<1>2. CASE system = <<<<"s", 0>>>>
  <2>1. HeadOf(system) = <<SystemMessage(0)>>
    BY <1>2 DEF HeadOf, Opt, SystemMessage
  <2>2. TextFacts("system", <<<<"s", 0>>>>) = <<<<"system", "text", "s", 0>>>>
    BY SingleFacts
  <2>3. TextFacts("system", system) = <<SystemFact(0)>>
    BY <1>2, <2>2 DEF SystemFact
  <2>4. SystemMessage(0) \in Shaped /\ Flat(IRF, <<SystemMessage(0)>>) = <<SystemFact(0)>>
    BY SystemMessageFacts
  <2>5. IsList(<<SystemMessage(0)>>, Shaped)
    BY <2>4, ListFacts
  <2>6. IsList(Flat(IRF, <<SystemMessage(0)>>), Fact)
    BY <2>5, StoryParts
  <2> QED BY <2>1, <2>3, <2>4, <2>5, <2>6
<1> QED BY <1>1, <1>2 DEF SystemTexts

LEMMA Parses ==
    ASSUME NEW e \in Entries, NEW r, r.system \in SystemTexts, e = "openai" => r.system = <<>>,
           Readable(e, r.messages)
    PROVE  /\ ParseEntry(e, r) = HeadOf(r.system) \o Parsed(e, r.messages)
           /\ IsList(ParseEntry(e, r), Shaped) /\ IsList(Told(e, r), Fact)
           /\ Told(e, r) = TextFacts("system", r.system) \o FactsOf(e, r.messages)
           /\ Flat(IRF, ParseEntry(e, r)) = Told(e, r)
<1>1. PICK h : h = HeadOf(r.system)
  OBVIOUS
<1>2. PICK s : s = Parsed(e, r.messages)
  OBVIOUS
<1>3. /\ IsList(h, Shaped) /\ IsList(TextFacts("system", r.system), Fact)
      /\ Flat(IRF, h) = TextFacts("system", r.system)
  BY <1>1, Heads
<1>4. /\ IsList(s, Shaped) /\ IsList(FactsOf(e, r.messages), Fact)
      /\ FactsOf(e, r.messages) = Flat(IRF, s)
  BY <1>2, ReadableFacts
<1>5. ParseEntry(e, r) = h \o s
  <2>1. CASE e = "openai"
    <3>1. PICK X : IsList(r.messages, X)
      BY DEF Readable
    <3>2. PICK f : f = [x \in X |-> ParseOpenAIMessage(x)]
      OBVIOUS
    <3>3. PICK g : g = [x \in X |-> <<ParseOpenAIMessage(x)>>]
      OBVIOUS
    <3>4. PICK Y : Y = {f[x] : x \in X}
      OBVIOUS
    <3>5. Maps(f, X, Y) /\ \A x \in X : g[x] = <<f[x]>>
      BY <3>2, <3>3, <3>4 DEF Maps
    <3>6. Flat(g, r.messages) = Image(f, r.messages)
      BY <3>1, <3>5, FlatSingles
    <3>7. s = Flat(g, r.messages)
      <4>1. \A i \in DOMAIN r.messages : ParseMsg(e, r.messages[i]) = g[r.messages[i]]
        BY <2>1, <3>1, <3>3, Listed DEF ParseMsg
      <4>2. Map(LAMBDA m : ParseMsg(e, m), r.messages) = Image(g, r.messages)
        BY <4>1 DEF Map, Image
      <4> QED BY <1>2, <4>2 DEF Parsed, Flat
    <3>8. ParseEntry(e, r) = Image(f, r.messages)
      <4>1. \A i \in DOMAIN r.messages : f[r.messages[i]] = ParseOpenAIMessage(r.messages[i])
        BY <3>1, <3>2, Listed
      <4>2. Map(ParseOpenAIMessage, r.messages) = Image(f, r.messages)
        BY <4>1 DEF Map, Image
      <4> QED BY <2>1, <4>2 DEF ParseEntry, ParseOpenAIChatRequest
    <3>9. h = <<>>
      BY <1>1, <2>1 DEF HeadOf, Opt
    <3>10. <<>> \o s = s
      BY <1>4, ListFacts
    <3> QED BY <3>6, <3>7, <3>8, <3>9, <3>10
  <2>2. CASE e = "anthropic"
    <3>1. Map(LAMBDA m : ParseMsg(e, m), r.messages) = Map(ParseAnthropicMessage, r.messages)
      BY <2>2 DEF ParseMsg, Map
    <3> QED BY <1>1, <1>2, <2>2, <3>1
            DEF Parsed, ParseEntry, ParseAnthropicMessagesRequest, HeadOf
  <2>3. CASE e = "responses"
    <3>1. Map(LAMBDA m : ParseMsg(e, m), r.messages) = Map(ParseResponsesItem, r.messages)
      BY <2>3 DEF ParseMsg, Map
    <3> QED BY <1>1, <1>2, <2>3, <3>1 DEF Parsed, ParseEntry, ParseResponsesRequest, HeadOf
  <2> QED BY <2>1, <2>2, <2>3 DEF Entries
<1>6. Told(e, r) = TextFacts("system", r.system) \o FactsOf(e, r.messages)
  BY DEF Told, FactsOf
<1>7. IsList(h \o s, Shaped)
  BY <1>3, <1>4, ListFacts
<1>8. Flat(IRF, h \o s) = Flat(IRF, h) \o Flat(IRF, s)
  <2>1. IsList(h, Shaped) /\ IsList(s, Shaped) /\ Gives(IRF, Shaped, Fact)
    BY <1>3, <1>4, ShapedGives
  <2> QED BY <2>1, FlatJoin
<1>9. IsList(TextFacts("system", r.system) \o FactsOf(e, r.messages), Fact)
  BY <1>3, <1>4, ListFacts
<1> QED BY <1>1, <1>2, <1>3, <1>4, <1>5, <1>6, <1>7, <1>8, <1>9

LEMMA HasUserConcat ==
    ASSUME NEW a, NEW b, IsList(a, Shaped), IsList(b, Shaped), HasUser(a) \/ HasUser(b)
    PROVE  HasUser(a \o b)
<1>1. PICK c : c = a \o b
  OBVIOUS
<1>2. Joined(a, b, c)
  BY <1>1, ConcatAt
<1>3. CASE HasUser(a)
  <2>1. PICK i \in 1..Len(a) : a[i].role = "user"
    BY <1>3 DEF HasUser
  <2>2. i \in 1..Len(c) /\ c[i] = a[i]
    BY <1>2 DEF Joined
  <2> QED BY <1>1, <2>1, <2>2 DEF HasUser
<1>4. CASE HasUser(b)
  <2>1. PICK i \in 1..Len(b) : b[i].role = "user"
    BY <1>4 DEF HasUser
  <2>2. Len(a) + i \in 1..Len(c) /\ c[Len(a) + i] = b[i]
    BY <1>2 DEF Joined
  <2> QED BY <1>1, <2>1, <2>2 DEF HasUser
<1> QED BY <1>3, <1>4

\* A message with a part that is refused.
Odd(m) ==
    \E p \in Range(m.content) :
        p.type \notin {"text", "image_url", "image", "tool_use", "tool_result"}
AnyOdd(s) == \E i \in DOMAIN s : Odd(s[i])

LEMMA UnparsableOdd ==
    ASSUME NEW e, NEW r
    PROVE  Unparsable(e, r) <=> e # "responses" /\ AnyOdd(r.messages)
BY DEF Unparsable, AnyOdd, Odd, Range

LEMMA AnyOddConcat ==
    ASSUME NEW X, NEW a, NEW b, IsList(a, X), IsList(b, X), AnyOdd(a) \/ AnyOdd(b)
    PROVE  AnyOdd(a \o b)
<1>1. PICK c : c = a \o b
  OBVIOUS
<1>2. Joined(a, b, c) /\ IsList(c, X)
  BY <1>1, ConcatAt
<1>3. DOMAIN a = 1..Len(a) /\ DOMAIN b = 1..Len(b) /\ DOMAIN c = 1..Len(c)
  BY <1>2, ListAt
<1>4. CASE AnyOdd(a)
  <2>1. PICK i \in 1..Len(a) : Odd(a[i])
    BY <1>3, <1>4 DEF AnyOdd
  <2>2. i \in 1..Len(c) /\ c[i] = a[i]
    BY <1>2 DEF Joined
  <2> QED BY <1>1, <1>3, <2>1, <2>2 DEF AnyOdd
<1>5. CASE AnyOdd(b)
  <2>1. PICK i \in 1..Len(b) : Odd(b[i])
    BY <1>3, <1>5 DEF AnyOdd
  <2>2. Len(a) + i \in 1..Len(c) /\ c[Len(a) + i] = b[i]
    BY <1>2 DEF Joined
  <2> QED BY <1>1, <1>3, <2>1, <2>2 DEF AnyOdd
<1> QED BY <1>4, <1>5

LEMMA FileTurn ==
    ASSUME entry = "anthropic", IsList(open, Nat), NEW content, IsList(content, PartsFor(entry)),
           WithFile(content)
    PROVE  AnyOdd(UserTurn(FALSE, content))
<1>1. IsList(content, BlockParts(PlainPiece))
  BY DEF PartsFor
<1>2. PICK a : a = Image(ResultF, open)
  OBVIOUS
<1>3. Results = a
  <2>1. Results = [i \in DOMAIN open |-> ToolResult(open[i], <<<<"r", open[i]>>>>)]
    BY DEF Results, Map
  <2>2. \A i \in DOMAIN open : ResultF[open[i]] = ToolResult(open[i], <<<<"r", open[i]>>>>)
    BY Listed DEF ResultF, ResultBlock
  <2> QED BY <1>2, <2>1, <2>2 DEF Image
<1>4. PICK s : s = a \o content
  OBVIOUS
<1>5. PICK m : m = [role |-> "user", content |-> s]
  OBVIOUS
<1>6. UserTurn(FALSE, content) = <<m>>
  BY <1>3, <1>4, <1>5 DEF UserTurn, Written
<1>7. IsList(a, ClientBlocks) /\ IsList(content, ClientBlocks)
  BY <1>1, <1>2, ReadResults, ReadPlain
<1>8. Joined(a, content, s) /\ IsList(s, ClientBlocks)
  BY <1>4, <1>7, ConcatAt
<1>9. DOMAIN content = 1..Len(content) /\ DOMAIN s = 1..Len(s)
  BY <1>1, <1>8, ListAt
<1>10. PICK i \in 1..Len(content) : content[i].type = "file"
  BY <1>9 DEF WithFile
<1>11. Len(a) + i \in 1..Len(s) /\ s[Len(a) + i] = content[i]
  BY <1>8 DEF Joined
<1>12. content[i] \in Range(m.content)
  BY <1>5, <1>9, <1>11 DEF Range
<1>13. Odd(m)
  BY <1>10, <1>12 DEF Odd
<1>14. DOMAIN <<m>> = {1} /\ <<m>>[1] = m
  OBVIOUS
<1> QED BY <1>6, <1>13, <1>14 DEF AnyOdd

-----------------------------------------------------------------------------
(* The turn that Compose adds.                                             *)

LEMMA ContentSays ==
    ASSUME entry \in Entries, NEW content, IsList(content, PartsFor(entry))
    PROVE  IsList(ContentFacts("user", content), Fact)
<1>1. ASSUME NEW c, IsList(c, PartsOf(PlainPiece)),
             ContentFacts("user", content) = Flat(PartF("user"), c)
      PROVE  IsList(ContentFacts("user", content), Fact)
  <2>1. IsList(c, PartsOf(Piece))
    BY <1>1, NoIdNat, ContentType
  <2>2. IsList(Flat(PartF("user"), c), Fact)
    BY <2>1, NoIdNat, ContentType
  <2> QED BY <1>1, <2>2
<1>2. CASE entry = "openai"
  <2>1. IsList(content, OpenAIParts(PlainPiece))
    BY <1>2 DEF PartsFor
  <2> QED BY <1>1, <2>1, PartSets, NoIdNat, OpenAIRead
<1>3. CASE entry = "responses"
  <2>1. IsList(content, ResponsesParts(PlainPiece))
    BY <1>3 DEF PartsFor
  <2> QED BY <1>1, <2>1, PartSets, NoIdNat, ReadResponses
<1>4. CASE entry = "anthropic"
  <2>1. IsList(content, BlockParts(PlainPiece))
    BY <1>4 DEF PartsFor
  <2> QED BY <1>1, <2>1, PartSets, NoIdNat, ReadBlocks
<1> QED BY <1>2, <1>3, <1>4 DEF Entries

LEMMA TailUser ==
    ASSUME NEW ids, IsList(ids, Nat), NEW note \in BOOLEAN, NEW n \in Nat, NEW w, UserTail(w)
    PROVE  /\ IsList(TurnRead(ids, note, n, w), Shaped)
           /\ w # <<>> => HasUser(TurnRead(ids, note, n, w))
<1>1. IsList(Flat(ToolF, ids), Shaped)
  BY ToolFacts
<1>2. IsList(Opt(note, SystemMessage(n)), Shaped)
  <2>1. SystemMessage(n) \in Shaped
    BY SystemMessageFacts
  <2>2. IsList(<<SystemMessage(n)>>, Shaped) /\ IsList(<<>>, Shaped)
    BY <2>1, ListFacts
  <2>3. CASE note = TRUE
    BY <2>2, <2>3, FlattenOpt
  <2>4. CASE note = FALSE
    BY <2>2, <2>4, FlattenOpt
  <2> QED BY <2>3, <2>4
<1>3. PICK a : a = Flat(ToolF, ids) \o Opt(note, SystemMessage(n))
  OBVIOUS
<1>4. IsList(a, Shaped)
  BY <1>1, <1>2, <1>3, ListFacts
<1>5. TurnRead(ids, note, n, w) = a \o w
  BY <1>3 DEF TurnRead
<1>6. CASE w = <<>>
  <2>1. IsList(w, Shaped)
    BY <1>6, ListFacts
  <2>2. IsList(a \o w, Shaped)
    BY <1>4, <2>1, ListFacts
  <2> QED BY <1>5, <1>6, <2>2
<1>7. ASSUME NEW c, IsList(c, PartsOf(PlainPiece)), w = <<UserMessage(c)>>
      PROVE  IsList(a \o w, Shaped) /\ HasUser(a \o w)
  <2>1. UserMessage(c) \in Shaped
    BY <1>7, MessageSets
  <2>2. IsList(<<UserMessage(c)>>, Shaped)
    BY <2>1, ListFacts
  <2>3. IsList(w, Shaped)
    BY <1>7, <2>2
  <2>4. UserMessage(c).role = "user"
    BY DEF UserMessage, Message
  <2>5. Len(w) = 1 /\ w[1] = UserMessage(c)
    BY <1>7
  <2>6. HasUser(w)
    BY <2>4, <2>5 DEF HasUser
  <2>7. IsList(a \o w, Shaped)
    BY <1>4, <2>3, ListFacts
  <2>8. HasUser(a \o w)
    BY <1>4, <2>3, <2>6, HasUserConcat
  <2> QED BY <2>7, <2>8
<1> QED BY <1>5, <1>6, <1>7 DEF UserTail

ReadAs(turn, note) ==
    \E w : UserTail(w) /\ Parsed(entry, turn) = TurnRead(open, note, Turn, w)

\* What becomes of a turn, apart from its refusal.
TurnGoes(turn, note, content) ==
    /\ Readable(entry, turn)
    /\ FactsOf(entry, turn) = TurnFacts(open, note, Turn, content)
    /\ ReadAs(turn, note)
    /\ content # <<>> =>
          HasUser(Parsed(entry, turn)) \/ (entry # "responses" /\ AnyOdd(turn))

LEMMA AnthropicGoes ==
    ASSUME entry = "anthropic", IsList(open, Nat), Turn \in Nat,
           NEW content, IsList(content, PartsFor(entry))
    PROVE  TurnGoes(UserTurn(FALSE, content), FALSE, content)
<1>1. PICK turn : turn = UserTurn(FALSE, content)
  OBVIOUS
<1>2. LET u == UserTurn(FALSE, content)
      IN /\ Readable(entry, u)
         /\ FactsOf(entry, u) = TurnFacts(open, FALSE, Turn, content)
         /\ \E w : /\ UserTail(w) /\ Parsed(entry, u) = TurnRead(open, FALSE, Turn, w)
                   /\ content # <<>> => w # <<>> \/ WithFile(content)
  BY AnthropicTurn
<1>3. PICK w : /\ UserTail(w) /\ Parsed(entry, turn) = TurnRead(open, FALSE, Turn, w)
               /\ content # <<>> => w # <<>> \/ WithFile(content)
  BY <1>1, <1>2
<1>4. w # <<>> => HasUser(TurnRead(open, FALSE, Turn, w))
  BY <1>3, TailUser
<1>5. WithFile(content) => AnyOdd(turn)
  BY <1>1, FileTurn
<1>6. Readable(entry, turn) /\ FactsOf(entry, turn) = TurnFacts(open, FALSE, Turn, content)
  BY <1>1, <1>2
<1>7. content # <<>> => HasUser(Parsed(entry, turn)) \/ AnyOdd(turn)
  BY <1>3, <1>4, <1>5
<1>8. ReadAs(turn, FALSE)
  BY <1>3 DEF ReadAs
<1> QED BY <1>1, <1>6, <1>7, <1>8 DEF TurnGoes

LEMMA ItemsGo ==
    ASSUME entry \in {"openai", "responses"}, terse \in BOOLEAN, IsList(open, Nat), Turn \in Nat,
           NEW content, IsList(content, PartsFor(entry)), NEW note \in BOOLEAN
    PROVE  TurnGoes(UserTurn(note, content), note, content)
<1>1. PICK turn : turn = UserTurn(note, content)
  OBVIOUS
<1>2. LET u == UserTurn(note, content)
      IN /\ Readable(entry, u)
         /\ FactsOf(entry, u) = TurnFacts(open, note, Turn, content)
         /\ \E w : /\ UserTail(w) /\ Parsed(entry, u) = TurnRead(open, note, Turn, w)
                   /\ content # <<>> => w # <<>>
  BY ItemsTurn
<1>3. PICK w : /\ UserTail(w) /\ Parsed(entry, turn) = TurnRead(open, note, Turn, w)
               /\ content # <<>> => w # <<>>
  BY <1>1, <1>2
<1>4. w # <<>> => HasUser(TurnRead(open, note, Turn, w))
  BY <1>3, TailUser
<1>5. Readable(entry, turn) /\ FactsOf(entry, turn) = TurnFacts(open, note, Turn, content)
  BY <1>1, <1>2
<1>6. content # <<>> => HasUser(Parsed(entry, turn))
  BY <1>3, <1>4
<1>7. ReadAs(turn, note)
  BY <1>3 DEF ReadAs
<1> QED BY <1>1, <1>5, <1>6, <1>7 DEF TurnGoes

LEMMA ComposedTurn ==
    ASSUME entry \in Entries, terse \in BOOLEAN, IsList(open, Nat), Turn \in Nat,
           NEW content, IsList(content, PartsFor(entry)), NEW note \in BOOLEAN,
           entry = "anthropic" => note = FALSE
    PROVE  TurnGoes(UserTurn(note, content), note, content)
<1>1. CASE entry = "anthropic"
  <2>1. TurnGoes(UserTurn(FALSE, content), FALSE, content)
    BY <1>1, AnthropicGoes
  <2>2. note = FALSE
    BY <1>1
  <2> QED BY <2>1, <2>2
<1>2. CASE entry # "anthropic"
  <2>1. entry \in {"openai", "responses"}
    BY <1>2 DEF Entries
  <2> QED BY <2>1, ItemsGo
<1> QED BY <1>1, <1>2

\* What Compose adds to the story.
TurnTold(s, ids, note, n, content) ==
    ((s \o FlattenSeq(Map(LAMBDA id : <<ResultFact(id), <<"tool", "text", "r", id>>>>, ids)))
        \o Opt(note, <<"system", "text", "s", n>>)) \o ContentFacts("user", content)

TurnTells(s, ids, note, n, content) ==
    TurnTold(s, ids, note, n, content) = s \o TurnFacts(ids, note, n, content)

LEMMA TurnStory ==
    ASSUME NEW s, IsList(s, Fact), NEW ids, IsList(ids, Nat), NEW note \in BOOLEAN, NEW n \in Nat,
           NEW content, IsList(ContentFacts("user", content), Fact)
    PROVE  TurnTells(s, ids, note, n, content)
<1>1. PICK a : a = FlattenSeq(Map(LAMBDA id : <<ResultFact(id), <<"tool", "text", "r", id>>>>, ids))
  OBVIOUS
<1>2. a = Flat(ResultFactsF, ids)
  <2>1. \A i \in DOMAIN ids :
          ResultFactsF[ids[i]] = <<ResultFact(ids[i]), <<"tool", "text", "r", ids[i]>>>>
    BY Listed DEF ResultFactsF
  <2>2. Map(LAMBDA id : <<ResultFact(id), <<"tool", "text", "r", id>>>>, ids) = Image(ResultFactsF, ids)
    BY <2>1 DEF Map, Image
  <2> QED BY <1>1, <2>2 DEF Flat
<1>3. IsList(a, Fact)
  BY <1>2, ToolFacts
<1>4. PICK b : b = Opt(note, SystemFact(n))
  OBVIOUS
<1>5. IsList(b, Fact)
  <2>1. IsList(<<SystemFact(n)>>, Fact) /\ IsList(<<>>, Fact)
    <3>1. PICK m : m = <<SystemMessage(n)>>
      OBVIOUS
    <3>2. Flat(IRF, m) = <<SystemFact(n)>> /\ SystemMessage(n) \in Shaped
      BY <3>1, SystemMessageFacts
    <3>3. IsList(m, Shaped)
      BY <3>1, <3>2, ListFacts
    <3>4. IsList(Flat(IRF, m), Fact)
      BY <3>3, StoryParts
    <3>5. IsList(<<>>, Fact)
      BY ListFacts
    <3> QED BY <3>2, <3>4, <3>5
  <2>2. CASE note = TRUE
    BY <1>4, <2>1, <2>2, FlattenOpt
  <2>3. CASE note = FALSE
    BY <1>4, <2>1, <2>3, FlattenOpt
  <2> QED BY <2>2, <2>3
<1>6. PICK c : c = ContentFacts("user", content)
  OBVIOUS
<1>7. IsList(c, Fact) /\ IsList(a \o b, Fact)
  BY <1>3, <1>5, <1>6, ListFacts
<1>8. (s \o a) \o b = s \o (a \o b)
  BY <1>3, <1>5, ListAssoc
<1>9. (s \o (a \o b)) \o c = s \o ((a \o b) \o c)
  BY <1>7, ListAssoc
<1>10. TurnFacts(ids, note, n, content) = (a \o b) \o c
  BY <1>2, <1>4, <1>6 DEF TurnFacts
<1>11. Opt(note, <<"system", "text", "s", n>>) = b
  BY <1>4 DEF SystemFact
<1> QED BY <1>1, <1>6, <1>8, <1>9, <1>10, <1>11 DEF TurnTold, TurnTells

-----------------------------------------------------------------------------
(* The inductive invariant: what every state keeps.                        *)

Wellformed(e, r) ==
    /\ r.system \in SystemTexts /\ (e = "openai" => r.system = <<>>)
    /\ Readable(e, r.messages)

\* What the gateway would make of the history: a request with a user's message, or a refusal.
Answerable(e, r) == HasUser(ParseEntry(e, r)) \/ Unparsable(e, r)

\* A request with more said.
Extends(u, r, turn) == u.system = r.system /\ u.messages = r.messages \o turn

Extension(e, r, turn, u) ==
    /\ Wellformed(e, u) /\ Told(e, u) = Told(e, r) \o FactsOf(e, turn)
    /\ ParseEntry(e, u) = ParseEntry(e, r) \o Parsed(e, turn)
    /\ Answerable(e, r) => Answerable(e, u)
    /\ HasUser(Parsed(e, turn)) => Answerable(e, u)
    /\ e # "responses" /\ AnyOdd(turn) => Answerable(e, u)

LEMMA Extended ==
    ASSUME NEW e \in Entries, NEW r, Wellformed(e, r), NEW turn, Readable(e, turn),
           NEW u, Extends(u, r, turn)
    PROVE  Extension(e, r, turn, u)
<1>1. PICK h : h = HeadOf(r.system)
  OBVIOUS
<1>2. PICK s : s = Parsed(e, r.messages)
  OBVIOUS
<1>3. PICK t : t = Parsed(e, turn)
  OBVIOUS
<1>4. PICK f : f = FactsOf(e, r.messages)
  OBVIOUS
<1>5. PICK g : g = FactsOf(e, turn)
  OBVIOUS
<1>6. PICK k : k = TextFacts("system", r.system)
  OBVIOUS
<1>7. Readable(e, r.messages)
  BY DEF Wellformed
<1>8. /\ Readable(e, u.messages) /\ Parsed(e, u.messages) = s \o t
      /\ FactsOf(e, u.messages) = f \o g
  <2>1. PICK v : v = r.messages
    OBVIOUS
  <2>2. Readable(e, v) /\ u.messages = v \o turn
    BY <1>7, <2>1 DEF Extends
  <2>3. /\ Readable(e, v \o turn)
        /\ Parsed(e, v \o turn) = Parsed(e, v) \o Parsed(e, turn)
        /\ FactsOf(e, v \o turn) = FactsOf(e, v) \o FactsOf(e, turn)
    BY <2>2, ReadableConcat
  <2> QED BY <1>2, <1>3, <1>4, <1>5, <2>1, <2>2, <2>3
<1>9. Wellformed(e, u) /\ u.system = r.system
  BY <1>8 DEF Wellformed, Extends
<1>10. /\ ParseEntry(e, r) = h \o s /\ IsList(ParseEntry(e, r), Shaped)
       /\ Told(e, r) = k \o f
  BY <1>1, <1>2, <1>4, <1>6, Parses DEF Wellformed
<1>11. ParseEntry(e, u) = h \o (s \o t) /\ Told(e, u) = k \o (f \o g)
  BY <1>1, <1>6, <1>8, <1>9, Parses DEF Wellformed
<1>12. IsList(s, Shaped) /\ IsList(t, Shaped) /\ IsList(f, Fact) /\ IsList(g, Fact)
  BY <1>2, <1>3, <1>4, <1>5, <1>7, ReadableFacts
<1>13. IsList(h, Shaped) /\ IsList(k, Fact)
  BY <1>1, <1>6, Heads DEF Wellformed
<1>14. (h \o s) \o t = h \o (s \o t)
  BY <1>12, <1>13, ListAssoc
<1>15. (k \o f) \o g = k \o (f \o g)
  BY <1>12, <1>13, ListAssoc
<1>16. ParseEntry(e, u) = ParseEntry(e, r) \o t
  BY <1>10, <1>11, <1>14
<1>17. HasUser(ParseEntry(e, r)) \/ HasUser(t) => HasUser(ParseEntry(e, u))
  BY <1>10, <1>12, <1>16, HasUserConcat
<1>18. AnyOdd(r.messages) \/ AnyOdd(turn) => AnyOdd(u.messages)
  <2>1. PICK X : IsList(r.messages, X)
    BY <1>7 DEF Readable
  <2>2. PICK Y : IsList(turn, Y)
    BY DEF Readable
  <2>3. PICK Z : Z = X \cup Y
    OBVIOUS
  <2>4. X \subseteq Z /\ Y \subseteq Z
    BY <2>3
  <2>5. IsList(r.messages, Z) /\ IsList(turn, Z)
    BY <2>1, <2>2, <2>4, Wider
  <2> QED BY <2>5, AnyOddConcat DEF Extends
<1>19. Answerable(e, r) => Answerable(e, u)
  BY <1>17, <1>18, UnparsableOdd DEF Answerable
<1>20. HasUser(t) => Answerable(e, u)
  BY <1>17 DEF Answerable
<1>21. e # "responses" /\ AnyOdd(turn) => Answerable(e, u)
  BY <1>18, UnparsableOdd DEF Answerable
<1> QED BY <1>3, <1>5, <1>9, <1>10, <1>11, <1>15, <1>16, <1>19, <1>20, <1>21 DEF Extension

History ==
    /\ entry \in Entries /\ terse \in BOOLEAN /\ IsList(open, Nat)
    /\ said = [system |-> said.system, messages |-> said.messages]
    /\ Wellformed(entry, said) /\ Told(entry, said) = story

Asking == phase \in {"posted", "sent"} \/ open # <<>> => Answerable(entry, said)

Posted ==
    /\ phase # "sent" => sent = Nothing
    /\ sent # Nothing =>
          /\ HasUser(ParseEntry(entry, said)) /\ folded \in BOOLEAN
          /\ \E to \in Upstreams : \E c :
                sent = Serialize(to, IF folded THEN FoldSystemIntoUser(ParseEntry(entry, said))
                                     ELSE ParseEntry(entry, said), c)

Reasoned ==
    /\ entry = "openai" => ending[2] = ending[1]
    /\ entry = "anthropic" /\ answers > 0 => ending[2] = AnthropicStopReason(ending[1])

Kept == History /\ Asking /\ Posted /\ Reasoned

LEMMA StoryNumbers ==
    ASSUME History
    PROVE  IsList(story, Fact) /\ Turn \in Nat
<1>1. IsList(story, Fact)
  BY Parses DEF History, Wellformed
<1>2. Len(story) \in Nat
  BY <1>1, ListAt
<1> QED BY <1>1, <1>2 DEF Turn

LEMMA InitKept == Init => Kept
<1> SUFFICES ASSUME Init PROVE Kept
  OBVIOUS
<1>1. PICK system \in SystemTexts :
        /\ said = [system |-> system, messages |-> <<>>]
        /\ story = TextFacts("system", system)
        /\ entry = "openai" => system = <<>>
  <2>1. CASE entry = "openai"
    BY <2>1 DEF Init, SystemTexts
  <2>2. CASE entry # "openai"
    BY <2>2 DEF Init, SystemTexts
  <2> QED BY <2>1, <2>2
<1>2. said.system = system /\ said.messages = <<>>
  BY <1>1
<1>3. PICK m : m = <<>>
  OBVIOUS
<1>4. Readable(entry, m) /\ FactsOf(entry, m) = <<>>
  BY <1>3, ReadableEmpty
<1>5. entry \in Entries /\ terse \in BOOLEAN
  BY DEF Init
<1>6. Wellformed(entry, said)
  BY <1>1, <1>2, <1>3, <1>4 DEF Wellformed
<1>7. Told(entry, said) = TextFacts("system", system) \o <<>>
  BY <1>2, <1>3, <1>4, <1>5, <1>6, Parses DEF Wellformed
<1>8. IsList(TextFacts("system", system), Fact)
  BY Heads
<1>9. Told(entry, said) = story
  BY <1>1, <1>7, <1>8, ListFacts
<1>10. IsList(open, Nat)
  <2>1. open = <<>>
    BY DEF Init
  <2> QED BY <2>1, ListFacts
<1>11. said = [system |-> said.system, messages |-> said.messages]
  BY <1>1, <1>2
<1>12. History
  BY <1>5, <1>6, <1>9, <1>10, <1>11 DEF History
<1>13. Asking /\ Posted
  BY DEF Init, Asking, Posted
<1>14. Reasoned
  BY DEF Init, Reasoned
<1> QED BY <1>12, <1>13, <1>14 DEF Kept

Grown(r, turn) == [r EXCEPT !.messages = r.messages \o turn]

LEMMA Grows ==
    ASSUME History, NEW turn, Readable(entry, turn), NEW u, u = Grown(said, turn)
    PROVE  /\ Wellformed(entry, u) /\ Told(entry, u) = story \o FactsOf(entry, turn)
           /\ ParseEntry(entry, u) = ParseEntry(entry, said) \o Parsed(entry, turn)
           /\ u = [system |-> u.system, messages |-> u.messages]
           /\ Answerable(entry, said) => Answerable(entry, u)
           /\ HasUser(Parsed(entry, turn)) => Answerable(entry, u)
           /\ entry # "responses" /\ AnyOdd(turn) => Answerable(entry, u)
<1>1. PICK r : r = said
  OBVIOUS
<1>2. PICK e : e = entry
  OBVIOUS
<1>3. e \in Entries /\ Wellformed(e, r) /\ Told(e, r) = story
  BY <1>1, <1>2 DEF History
<1>4. r = [system |-> r.system, messages |-> r.messages]
  BY <1>1 DEF History
<1>5. u = [system |-> r.system, messages |-> r.messages \o turn]
  BY <1>1, <1>4 DEF Grown
<1>6. Extends(u, r, turn)
  BY <1>5 DEF Extends
<1>7. Readable(e, turn)
  BY <1>2
<1>8. Extension(e, r, turn, u)
  BY <1>3, <1>6, <1>7, Extended
<1>9. u = [system |-> u.system, messages |-> u.messages]
  BY <1>5
<1> QED BY <1>1, <1>2, <1>3, <1>8, <1>9 DEF Extension

\* What a step adds to the history and to the story.
Adds(s, u, msgs, facts) ==
    /\ ParseEntry(entry, u) = ParseEntry(entry, said) \o msgs
    /\ s = story \o facts /\ IsList(facts, Fact)

ComposeAdds(s, u) ==
    \E note \in BOOLEAN : \E w, facts :
        UserTail(w) /\ Adds(s, u, TurnRead(open, note, Turn, w), facts)

LEMMA ComposeKept ==
    ASSUME Kept, Compose
    PROVE  Kept' /\ ComposeAdds(story', said')
<1>1. History /\ Asking
  BY DEF Kept
<1>2. Turn \in Nat /\ IsList(story, Fact)
  BY <1>1, StoryNumbers
<1>3. /\ entry \in Entries /\ terse \in BOOLEAN /\ IsList(open, Nat)
      /\ Wellformed(entry, said) /\ Told(entry, said) = story
      /\ said = [system |-> said.system, messages |-> said.messages]
  BY <1>1 DEF History
<1>4. /\ phase' = "posted" /\ open' = <<>> /\ entry' = entry /\ terse' = terse /\ sent' = sent
      /\ ending' = ending /\ answers' = answers /\ phase = "compose"
  BY DEF Compose
<1>5. PICK kinds \in PartLists \cup (IF open = <<>> THEN {} ELSE {<<>>}) :
        \E note \in IF entry = "anthropic" THEN {FALSE} ELSE BOOLEAN :
          LET content == [i \in DOMAIN kinds |-> ClientPart(kinds[i], Turn + i)]
              turn == UserTurn(note, content)
          IN /\ said' = [said EXCEPT !.messages = @ \o turn]
             /\ story' = story
                  \o FlattenSeq(Map(LAMBDA id : <<ResultFact(id), <<"tool", "text", "r", id>>>>,
                                    open))
                  \o Opt(note, <<"system", "text", "s", Turn>>)
                  \o ContentFacts("user", content)
  BY DEF Compose
<1>6. PICK content : content = [i \in DOMAIN kinds |-> ClientPart(kinds[i], Turn + i)]
  OBVIOUS
<1>7. PICK note \in IF entry = "anthropic" THEN {FALSE} ELSE BOOLEAN :
          /\ said' = [said EXCEPT !.messages = @ \o UserTurn(note, content)]
          /\ story' = ((story
                  \o FlattenSeq(Map(LAMBDA id : <<ResultFact(id), <<"tool", "text", "r", id>>>>,
                                    open)))
                  \o Opt(note, <<"system", "text", "s", Turn>>))
                  \o ContentFacts("user", content)
  BY <1>5, <1>6
<1>8. note \in BOOLEAN /\ (entry = "anthropic" => note = FALSE)
  BY <1>7
<1>9. IsList(kinds, PartKinds) /\ (content = <<>> => open # <<>>)
  <2>1. kinds \in PartLists => IsList(kinds, PartKinds) /\ kinds # <<>>
    BY ConversationAssumption DEF IsList
  <2>2. kinds \notin PartLists => open # <<>> /\ kinds = <<>>
    OBVIOUS
  <2>3. IsList(<<>>, PartKinds)
    BY ListFacts
  <2>4. ASSUME content = <<>>, open = <<>> PROVE FALSE
    <3>1. DOMAIN <<>> = {}
      OBVIOUS
    <3>2. DOMAIN kinds = {}
      BY <1>6, <2>4, <3>1
    <3>3. IsList(kinds, PartKinds) /\ kinds # <<>>
      BY <2>1, <2>2, <2>4
    <3>4. 1 \in DOMAIN kinds
      BY <3>3 DEF IsList
    <3> QED BY <3>2, <3>4
  <2> QED BY <2>1, <2>2, <2>3, <2>4
<1>10. IsList(content, PartsFor(entry))
  BY <1>2, <1>3, <1>6, <1>9, ClientParts
<1>11. PICK turn : turn = UserTurn(note, content)
  OBVIOUS
<1>12. TurnGoes(turn, note, content)
  BY <1>2, <1>3, <1>8, <1>10, <1>11, ComposedTurn
<1>13. /\ Readable(entry, turn) /\ FactsOf(entry, turn) = TurnFacts(open, note, Turn, content)
       /\ content # <<>> =>
             HasUser(Parsed(entry, turn)) \/ (entry # "responses" /\ AnyOdd(turn))
  BY <1>12 DEF TurnGoes
<1>15. PICK u : u = said'
  OBVIOUS
<1>16. /\ Wellformed(entry, u) /\ Told(entry, u) = story \o FactsOf(entry, turn)
       /\ ParseEntry(entry, u) = ParseEntry(entry, said) \o Parsed(entry, turn)
       /\ u = [system |-> u.system, messages |-> u.messages]
       /\ Answerable(entry, said) => Answerable(entry, u)
       /\ HasUser(Parsed(entry, turn)) => Answerable(entry, u)
       /\ entry # "responses" /\ AnyOdd(turn) => Answerable(entry, u)
  <2>1. u = Grown(said, turn)
    BY <1>7, <1>11, <1>15 DEF Grown
  <2>2. Readable(entry, turn)
    BY <1>13
  <2> QED BY <1>1, <2>1, <2>2, Grows
<1>17. IsList(ContentFacts("user", content), Fact)
  BY <1>3, <1>10, ContentSays
<1>18. story' = story \o TurnFacts(open, note, Turn, content)
  <2>1. IsList(story, Fact) /\ IsList(open, Nat) /\ Turn \in Nat
    BY <1>2, <1>3
  <2>2. note \in BOOLEAN
    BY <1>8
  <2>3. TurnTells(story, open, note, Turn, content)
    BY <1>17, <2>1, <2>2, TurnStory
  <2> QED BY <1>7, <2>3 DEF TurnTold, TurnTells
<1>19. Told(entry, u) = story'
  BY <1>13, <1>16, <1>18
<1>20. IsList(<<>>, Nat)
  BY ListFacts
<1>21. History'
  <2>1. said' = [system |-> said'.system, messages |-> said'.messages]
    BY <1>15, <1>16
  <2> QED BY <1>3, <1>4, <1>15, <1>16, <1>19, <1>20, <2>1 DEF History
<1>22. Answerable(entry, u)
  <2>1. CASE content = <<>>
    BY <1>1, <1>9, <1>16, <2>1 DEF Asking
  <2>2. CASE content # <<>>
    BY <1>13, <1>16, <2>2
  <2> QED BY <2>1, <2>2
<1>23. Asking'
  BY <1>4, <1>15, <1>22 DEF Asking
<1>24. Posted'
  <2>1. sent = Nothing
    BY <1>4 DEF Kept, Posted
  <2> QED BY <1>4, <2>1 DEF Posted
<1>25. Reasoned'
  BY <1>4 DEF Reasoned, Kept
<1>26. ComposeAdds(story', u)
  <2>1. PICK w : UserTail(w) /\ Parsed(entry, turn) = TurnRead(open, note, Turn, w)
    BY <1>12 DEF TurnGoes, ReadAs
  <2>2. PICK facts : facts = FactsOf(entry, turn)
    OBVIOUS
  <2>3. IsList(facts, Fact)
    BY <1>13, <2>2, ReadableFacts
  <2>4. story' = story \o facts
    BY <1>13, <1>18, <2>2
  <2>5. Adds(story', u, TurnRead(open, note, Turn, w), facts)
    BY <1>16, <2>1, <2>3, <2>4 DEF Adds
  <2>6. PICK b \in BOOLEAN : b = note
    BY <1>8
  <2> QED BY <2>1, <2>5, <2>6 DEF ComposeAdds
<1>27. Kept'
  BY <1>21, <1>23, <1>24, <1>25 DEF Kept
<1> QED BY <1>15, <1>26, <1>27

LEMMA RefuseKept ==
    ASSUME Kept, Refuse
    PROVE  Kept'
<1>1. /\ phase = "posted" /\ phase' = "refused"
      /\ UNCHANGED <<entry, terse, said, story, open, sent, asked, folded, ending, answers>>
  BY DEF Refuse
<1>2. History'
  BY <1>1 DEF Kept, History
<1>3. Asking'
  BY <1>1 DEF Kept, Asking
<1>4. Posted'
  BY <1>1 DEF Kept, Posted
<1>5. Reasoned'
  BY <1>1 DEF Kept, Reasoned
<1> QED BY <1>2, <1>3, <1>4, <1>5 DEF Kept

LEMMA ForwardKept ==
    ASSUME Kept, Forward
    PROVE  Kept'
<1>1. /\ phase = "posted" /\ ~Unparsable(entry, said) /\ phase' = "sent"
      /\ UNCHANGED <<entry, terse, said, story, open, ending, answers>>
  BY DEF Forward
<1>2. PICK msgs : msgs = ParseEntry(entry, said)
  OBVIOUS
<1>3. PICK to \in Upstreams, fold \in BOOLEAN, choice \in ChoicesOf(entry) :
         /\ sent' = Serialize(to, IF fold THEN FoldSystemIntoUser(msgs) ELSE msgs, choice)
         /\ folded' = fold
  BY <1>2 DEF Forward
<1>4. HasUser(msgs)
  BY <1>1, <1>2 DEF Kept, Asking, Answerable
<1>5. msgs = ParseEntry(entry', said')
  BY <1>1, <1>2
<1>6. History'
  BY <1>1 DEF Kept, History
<1>7. Asking'
  BY <1>1 DEF Kept, Asking
<1>8. Posted'
  <2>1. folded' \in BOOLEAN
    BY <1>3
  <2>2. sent' = Serialize(to, IF folded' THEN FoldSystemIntoUser(msgs) ELSE msgs, choice)
    BY <1>3
  <2>3. \E x \in Upstreams : \E c :
           sent' = Serialize(x, IF folded' THEN FoldSystemIntoUser(msgs) ELSE msgs, c)
    BY <2>2
  <2> QED BY <1>1, <1>4, <1>5, <2>1, <2>3 DEF Posted
<1>9. Reasoned'
  BY <1>1 DEF Kept, Reasoned
<1> QED BY <1>6, <1>7, <1>8, <1>9 DEF Kept

\* The texts and calls of an answer.
LEMMA AnswerGiven ==
    ASSUME Turn \in Nat, NEW t \in 0..2, NEW n \in 0..2, NEW args \in Arguments, t + n > 0
    PROVE  LET texts == [i \in 1..t |-> TextPart(<<<<"a", Turn + i>>>>)]
               calls == Calls(n, args)
           IN /\ IsList(texts, AnswerTexts) /\ IsList(calls, Call)
              /\ texts # <<>> \/ calls # <<>>
              /\ IsList(Map(LAMBDA c : c.id, calls), Nat)
              /\ (Map(LAMBDA c : c.id, calls) = <<>> <=> n = 0)
<1>1. PICK texts : texts = [i \in 1..t |-> TextPart(<<<<"a", Turn + i>>>>)]
  OBVIOUS
<1>2. PICK calls : calls = [i \in 1..n |-> [id |-> Turn + 10 + i, args |-> args]]
  OBVIOUS
<1>3. PICK ids : ids = Map(LAMBDA c : c.id, calls)
  OBVIOUS
<1>4. \A i \in 1..t : TextPart(<<<<"a", Turn + i>>>>) \in AnswerTexts
  BY DEF AnswerTexts
<1>5. IsList(texts, AnswerTexts)
  BY <1>1, <1>4 DEF IsList
<1>6. \A i \in 1..n : [id |-> Turn + 10 + i, args |-> args] \in Call
  BY DEF Call
<1>7. IsList(calls, Call)
  <2>1. \A i \in 1..n : calls[i] \in Call
    BY <1>2, <1>6
  <2>2. DOMAIN calls = 1..n /\ calls = [i \in 1..n |-> calls[i]]
    BY <1>2
  <2>3. calls \in [1..n -> Call]
    BY <2>1, <2>2
  <2> QED BY <2>3 DEF IsList
<1>8. DOMAIN ids = 1..n /\ \A i \in 1..n : ids[i] = Turn + 10 + i
  BY <1>2, <1>3 DEF Map
<1>9. ids = [i \in 1..n |-> Turn + 10 + i]
  BY <1>2, <1>3 DEF Map
<1>10. IsList(ids, Nat)
  BY <1>9 DEF IsList
<1>11. DOMAIN <<>> = {}
  OBVIOUS
<1>12. n # 0 => ids # <<>> /\ calls # <<>>
  <2>1. n # 0 => 1 \in 1..n
    OBVIOUS
  <2>2. DOMAIN calls = 1..n
    BY <1>2
  <2> QED BY <1>8, <1>11, <2>1, <2>2
<1>13. n = 0 => ids = <<>>
  BY <1>9
<1>14. t # 0 => texts # <<>>
  <2>1. t # 0 => 1 \in 1..t
    OBVIOUS
  <2>2. DOMAIN texts = 1..t
    BY <1>1
  <2> QED BY <1>11, <2>1, <2>2
<1>15. t # 0 \/ n # 0
  OBVIOUS
<1>16. calls = Calls(n, args)
  BY <1>2 DEF Calls
<1> QED BY <1>1, <1>3, <1>5, <1>7, <1>10, <1>12, <1>13, <1>14, <1>15, <1>16

LEMMA AnswerFactsType ==
    ASSUME NEW texts, IsList(texts, AnswerTexts), NEW calls, IsList(calls, Call)
    PROVE  IsList(ContentFacts("assistant", texts), Fact) /\ IsList(Flat(CallF, calls), Fact)
<1>1. IsList(ContentFacts("assistant", texts), Fact)
  <2>1. PICK t : t = WholeText(texts)
    OBVIOUS
  <2>2. IsList(t, PlainPiece) /\ TextFacts("assistant", t) = ContentFacts("assistant", texts)
    BY <2>1, WholeTextFacts
  <2>3. IsList(t, Piece)
    BY <2>2, PieceFields, Wider
  <2>4. TextFacts("assistant", t) = Flat(TextF("assistant"), t)
    BY <2>3, TextFactsFlat
  <2>5. Gives(TextF("assistant"), Piece, Fact)
    BY TextFType, GivesLists, NoIdNat
  <2>6. IsList(Flat(TextF("assistant"), t), Fact)
    BY <2>3, <2>5, FlatGives
  <2> QED BY <2>2, <2>4, <2>6
<1>2. IsList(Flat(CallF, calls), Fact)
  <2>1. Gives(CallF, Call, Fact)
    BY CallFType, GivesLists
  <2> QED BY <2>1, FlatGives
<1> QED BY <1>1, <1>2

LEMMA AnswerStory ==
    ASSUME NEW s, IsList(s, Fact), NEW texts, IsList(texts, AnswerTexts),
           NEW calls, IsList(calls, Call)
    PROVE  (s \o ContentFacts("assistant", texts)) \o Map(LAMBDA c : CallFact(c.id, c.args), calls)
             = s \o AnswerFacts(texts, calls)
<1>1. PICK a : a = ContentFacts("assistant", texts)
  OBVIOUS
<1>2. PICK b : b = Flat(CallF, calls)
  OBVIOUS
<1>3. Map(LAMBDA c : CallFact(c.id, c.args), calls) = b
  BY <1>2, CallsFlat
<1>4. IsList(a, Fact) /\ IsList(b, Fact)
  BY <1>1, <1>2, AnswerFactsType
<1>5. (s \o a) \o b = s \o (a \o b)
  BY <1>4, ListAssoc
<1> QED BY <1>1, <1>2, <1>3, <1>5 DEF AnswerFacts

\* What the history is after an answer.
Answers(u, texts, calls, reason, resp) ==
    /\ Wellformed(entry, u) /\ Told(entry, u) = story \o AnswerFacts(texts, calls)
    /\ ParseEntry(entry, u) = ParseEntry(entry, said) \o AnswerMsgs(entry, texts, calls)
    /\ u = [system |-> u.system, messages |-> u.messages]
    /\ Answerable(entry, said) => Answerable(entry, u)
    /\ entry = "openai" => ClientReason(resp) = reason
    /\ entry = "anthropic" => ClientReason(resp) = AnthropicStopReason(reason)

LEMMA AnswerGrows ==
    ASSUME History, NEW texts, IsList(texts, AnswerTexts), NEW calls, IsList(calls, Call),
           texts # <<>> \/ calls # <<>>, NEW reason \in Reasons,
           NEW resp, resp = UpstreamAnswer(texts, calls, reason),
           NEW u, u = Grown(said, Filed(resp))
    PROVE  Answers(u, texts, calls, reason, resp)
<1>1. resp = Reply(texts, calls, reason)
  BY AnswerRead
<1>2. PICK turn : turn = Filed(resp)
  OBVIOUS
<1>3. entry \in Entries /\ terse \in BOOLEAN
  BY DEF History
<1>4. PICK r : r = Reply(texts, calls, reason)
  OBVIOUS
<1>5. /\ Readable(entry, Filed(r)) /\ FactsOf(entry, Filed(r)) = AnswerFacts(texts, calls)
      /\ Parsed(entry, Filed(r)) = AnswerMsgs(entry, texts, calls)
      /\ entry = "openai" => ClientReason(r) = reason
      /\ entry = "anthropic" => ClientReason(r) = AnthropicStopReason(reason)
  BY <1>3, <1>4, AnswerFiled
<1>6. r = resp
  BY <1>1, <1>4
<1>7. u = Grown(said, turn)
  BY <1>2
<1>8. Readable(entry, turn)
  BY <1>2, <1>5, <1>6
<1>9. /\ Wellformed(entry, u) /\ Told(entry, u) = story \o FactsOf(entry, turn)
      /\ ParseEntry(entry, u) = ParseEntry(entry, said) \o Parsed(entry, turn)
      /\ u = [system |-> u.system, messages |-> u.messages]
      /\ Answerable(entry, said) => Answerable(entry, u)
  BY <1>7, <1>8, Grows
<1> QED BY <1>2, <1>5, <1>6, <1>9 DEF Answers

\* At most two calls, and the same ones for the client to answer.
Asks(calls, ids) ==
    /\ IsList(calls, Call) /\ IsList(ids, Nat) /\ Len(calls) = Len(ids) /\ Len(calls) <= 2
    /\ \A k \in 1..Len(ids) : calls[k].id = ids[k]

LEMMA AnswerAsks ==
    ASSUME Turn \in Nat, NEW n \in 0..2, NEW args \in Arguments, NEW calls, calls = Calls(n, args),
           NEW ids, ids = Map(LAMBDA c : c.id, calls)
    PROVE  Asks(calls, ids)
<1>1. calls = [i \in 1..n |-> [id |-> Turn + 10 + i, args |-> args]]
  BY DEF Calls
<1>2. ids = [i \in 1..n |-> Turn + 10 + i]
  BY <1>1 DEF Map
<1>3. IsList(ids, Nat)
  BY <1>2 DEF IsList
<1>4. \A i \in 1..n : [id |-> Turn + 10 + i, args |-> args] \in Call
  BY DEF Call
<1>5. IsList(calls, Call)
  <2>1. \A i \in 1..n : calls[i] \in Call
    BY <1>1, <1>4
  <2>2. DOMAIN calls = 1..n /\ calls = [i \in 1..n |-> calls[i]]
    BY <1>1
  <2>3. calls \in [1..n -> Call]
    BY <2>1, <2>2
  <2> QED BY <2>3 DEF IsList
<1>6. DOMAIN calls = 1..n /\ DOMAIN ids = 1..n
  BY <1>1, <1>2
<1>7. Len(calls) = n /\ Len(ids) = n
  BY <1>3, <1>5, <1>6 DEF IsList
<1>8. \A k \in 1..n : calls[k].id = ids[k]
  BY <1>1, <1>2
<1> QED BY <1>3, <1>5, <1>7, <1>8 DEF Asks

AnswerAdds(s, u, ids) ==
    \E texts, calls :
        /\ IsList(texts, AnswerTexts) /\ Asks(calls, ids)
        /\ Adds(s, u, AnswerMsgs(entry, texts, calls), AnswerFacts(texts, calls))

LEMMA AnswerKeptOn ==
    ASSUME Kept, Answer
    PROVE  Kept' /\ AnswerAdds(story', said', open')
<1>1. History /\ Asking
  BY DEF Kept
<1>2. Turn \in Nat /\ IsList(story, Fact)
  BY <1>1, StoryNumbers
<1>3. /\ phase = "sent" /\ phase' = "compose" /\ sent' = Nothing
      /\ entry' = entry /\ terse' = terse
  BY DEF Answer
<1>4. \E t \in 0..2, n \in 0..2,
          args \in IF sent.to = "openai" THEN {"object", "broken"} ELSE {"object", ""},
          reason \in {"stop", "length", "tool_calls"} :
          LET texts == [i \in 1..t |-> TextPart(<<<<"a", Turn + i>>>>)]
              calls == Calls(n, args)
              resp == UpstreamAnswer(texts, calls, reason)
          IN /\ t + n > 0
             /\ n > 0 => reason = "tool_calls"
             /\ n = 0 => reason # "tool_calls" /\ args = "object"
             /\ said' = [said EXCEPT !.messages = @ \o Filed(resp)]
             /\ story' = story \o ContentFacts("assistant", texts)
                               \o Map(LAMBDA c : CallFact(c.id, c.args), calls)
             /\ open' = Map(LAMBDA c : c.id, calls)
             /\ ending' = <<reason, ClientReason(resp)>>
  BY Zenon DEF Answer
<1>5. PICK t \in 0..2, n \in 0..2,
          args \in IF sent.to = "openai" THEN {"object", "broken"} ELSE {"object", ""},
          reason \in {"stop", "length", "tool_calls"} :
          LET texts == [i \in 1..t |-> TextPart(<<<<"a", Turn + i>>>>)]
              calls == Calls(n, args)
              resp == UpstreamAnswer(texts, calls, reason)
          IN /\ t + n > 0
             /\ n > 0 => reason = "tool_calls"
             /\ n = 0 => reason # "tool_calls" /\ args = "object"
             /\ said' = [said EXCEPT !.messages = @ \o Filed(resp)]
             /\ story' = story \o ContentFacts("assistant", texts)
                               \o Map(LAMBDA c : CallFact(c.id, c.args), calls)
             /\ open' = Map(LAMBDA c : c.id, calls)
             /\ ending' = <<reason, ClientReason(resp)>>
  BY <1>4
<1>6. PICK texts : texts = [i \in 1..t |-> TextPart(<<<<"a", Turn + i>>>>)]
  OBVIOUS
<1>7. PICK calls : calls = Calls(n, args)
  OBVIOUS
<1>8. PICK resp : resp = UpstreamAnswer(texts, calls, reason)
  OBVIOUS
<1>9. /\ t + n > 0
      /\ said' = [said EXCEPT !.messages = said.messages \o Filed(resp)]
      /\ story' = (story \o ContentFacts("assistant", texts))
                     \o Map(LAMBDA c : CallFact(c.id, c.args), calls)
      /\ open' = Map(LAMBDA c : c.id, calls)
      /\ ending' = <<reason, ClientReason(resp)>>
  BY <1>5, <1>6, <1>7, <1>8
<1>10. args \in Arguments
  BY DEF Arguments
<1>11. t + n > 0 /\ Turn \in Nat
  BY <1>2, <1>9
<1>12. /\ IsList(texts, AnswerTexts) /\ IsList(calls, Call)
       /\ texts # <<>> \/ calls # <<>>
       /\ IsList(Map(LAMBDA c : c.id, calls), Nat)
  BY <1>6, <1>7, <1>10, <1>11, AnswerGiven
<1>13. IsList(texts, AnswerTexts) /\ IsList(calls, Call) /\ (texts # <<>> \/ calls # <<>>)
  BY <1>12
<1>14. reason \in Reasons
  BY DEF Reasons
<1>15. PICK u : u = said'
  OBVIOUS
<1>16. u = Grown(said, Filed(resp))
  BY <1>9, <1>15 DEF Grown
<1>17. Answers(u, texts, calls, reason, resp)
  BY <1>1, <1>8, <1>13, <1>14, <1>16, AnswerGrows
<1>18. story' = story \o AnswerFacts(texts, calls)
  <2>1. IsList(story, Fact) /\ IsList(texts, AnswerTexts) /\ IsList(calls, Call)
    BY <1>2, <1>13
  <2>2. (story \o ContentFacts("assistant", texts)) \o Map(LAMBDA c : CallFact(c.id, c.args), calls)
           = story \o AnswerFacts(texts, calls)
    BY <2>1, AnswerStory
  <2> QED BY <1>9, <2>2
<1>19. Told(entry, u) = story'
  BY <1>17, <1>18 DEF Answers
<1>20. History'
  <2>1. IsList(open', Nat)
    BY <1>9, <1>12
  <2>2. said' = [system |-> said'.system, messages |-> said'.messages]
    BY <1>15, <1>17 DEF Answers
  <2>3. entry \in Entries /\ terse \in BOOLEAN
    BY <1>1 DEF History
  <2> QED BY <1>3, <1>15, <1>17, <1>19, <2>1, <2>2, <2>3 DEF History, Answers
<1>21. Asking'
  BY <1>1, <1>3, <1>15, <1>17 DEF Asking, Answers
<1>22. Posted'
  BY <1>3 DEF Posted
<1>23. Reasoned'
  <2>1. ending'[1] = reason /\ ending'[2] = ClientReason(resp)
    BY <1>9
  <2> QED BY <1>3, <1>17, <2>1 DEF Reasoned, Answers
<1>24. AnswerAdds(story', u, open')
  <2>1. IsList(AnswerFacts(texts, calls), Fact)
    BY <1>13, AnswerFactsType, ListFacts DEF AnswerFacts
  <2>2. Adds(story', u, AnswerMsgs(entry, texts, calls), AnswerFacts(texts, calls))
    BY <1>17, <1>18, <2>1 DEF Adds, Answers
  <2>3. PICK ids : ids = open'
    OBVIOUS
  <2>4. Asks(calls, ids)
    BY <1>7, <1>9, <1>10, <1>11, <2>3, AnswerAsks
  <2> QED BY <1>13, <2>2, <2>3, <2>4 DEF AnswerAdds
<1>25. Kept'
  BY <1>20, <1>21, <1>22, <1>23 DEF Kept
<1> QED BY <1>15, <1>24, <1>25

LEMMA NextKept ==
    ASSUME Kept, [Next]_vars
    PROVE  Kept'
<1>1. CASE UNCHANGED vars
  BY <1>1 DEF vars, Kept, History, Asking, Posted, Reasoned
<1> QED BY <1>1, ComposeKept, RefuseKept, ForwardKept, AnswerKeptOn DEF Next

\* Who gives the instructions.
LEMMA Givers ==
    ASSUME NEW who, NEW told, IsList(told, FactOf(who)), NEW f \in Range(told), Instruction(f)
    PROVE  f[1] = who
<1>1. PICK i \in DOMAIN told : f = told[i]
  BY DEF Range
<1>2. f \in FactOf(who)
  BY <1>1, Listed
<1> QED BY <1>2 DEF FactOf

LEMMA SentTold ==
    ASSUME History, NEW msgs, msgs = ParseEntry(entry, said), HasUser(msgs),
           NEW to \in Upstreams, NEW c, NEW fold \in BOOLEAN,
           NEW request, request = Serialize(to, IF fold THEN FoldSystemIntoUser(msgs) ELSE msgs, c)
    PROVE  LET told == Told(request.to, request)
           IN /\ Others(told) = Others(story) /\ Instructions(told) = Instructions(story)
              /\ \A f \in Range(told) :
                    Instruction(f) => f[1] = (IF fold THEN "user" ELSE "system")
              /\ request.to = "anthropic" => ResultsUnderTool(request)
<1>1. IsList(msgs, Shaped) /\ Flat(IRF, msgs) = story
  BY Parses DEF History, Wellformed
<1>2. Others(story) = Flat(OtherM, msgs) /\ Instructions(story) = Flat(NumM, msgs)
  BY <1>1, StoryParts
<1>3. ASSUME NEW S, request = Serialize(to, S, c) PROVE request.to = to
  <2>1. CASE to = "openai"
    BY <1>3, <2>1, OpenAIRequest DEF Serialize
  <2>2. CASE to = "anthropic"
    BY <1>3, <2>2, AnthropicRequest DEF Serialize
  <2> QED BY <2>1, <2>2 DEF Upstreams
<1>3a. ASSUME NEW S, request = Serialize(to, S, c), IsList(S, IR), request.to = "anthropic"
       PROVE  ResultsUnderTool(request)
  <2>1. to = "anthropic"
    BY <1>3, <1>3a
  <2>2. request = SerializeAnthropicMessagesRequest(S, NormalizeAnthropicToolChoice(c))
    BY <1>3a, <2>1 DEF Serialize
  <2> QED BY <1>3a, <2>2, SerializedUnderTool
<1>4. CASE fold = TRUE
  <2>1. request = Serialize(to, FoldSystemIntoUser(msgs), c)
    BY <1>4
  <2>2. PICK told : told = Told(to, request)
    OBVIOUS
  <2>3. /\ IsList(told, FactOf("user"))
        /\ Others(told) = Flat(OtherM, msgs) /\ Instructions(told) = Flat(NumM, msgs)
    BY <1>1, <2>1, <2>2, ToldFolded
  <2>4. \A f \in Range(told) : Instruction(f) => f[1] = "user"
    BY <2>3, Givers
  <2>5. request.to = to
    BY <1>3, <2>1
  <2>6. request.to = "anthropic" => ResultsUnderTool(request)
    BY <1>1, <1>3a, <2>1, FoldedIR
  <2> QED BY <1>2, <1>4, <2>2, <2>3, <2>4, <2>5, <2>6
<1>5. CASE fold = FALSE
  <2>1. request = Serialize(to, msgs, c)
    BY <1>5
  <2>2. PICK told : told = Told(to, request)
    OBVIOUS
  <2>3. /\ IsList(told, FactOf("system"))
        /\ Others(told) = Flat(OtherM, msgs) /\ Instructions(told) = Flat(NumM, msgs)
    BY <1>1, <2>1, <2>2, ToldUnfolded
  <2>4. \A f \in Range(told) : Instruction(f) => f[1] = "system"
    BY <2>3, Givers
  <2>5. request.to = to
    BY <1>3, <2>1
  <2>6. request.to = "anthropic" => ResultsUnderTool(request)
    BY <1>1, <1>3a, <2>1, ShapedWide
  <2> QED BY <1>2, <1>5, <2>2, <2>3, <2>4, <2>5, <2>6
<1> QED BY <1>4, <1>5

LEMMA KeptTold ==
    ASSUME Kept
    PROVE  StoryTold
<1> SUFFICES ASSUME sent # Nothing
             PROVE  LET told == Told(sent.to, sent)
                    IN /\ Others(told) = Others(story)
                       /\ Instructions(told) = Instructions(story)
                       /\ \A f \in Range(told) :
                             Instruction(f) => f[1] = (IF folded THEN "user" ELSE "system")
                       /\ sent.to = "anthropic" => ResultsUnderTool(sent)
  BY DEF StoryTold
<1>1. PICK msgs : msgs = ParseEntry(entry, said)
  OBVIOUS
<1>2. History /\ HasUser(msgs)
  BY <1>1 DEF Kept, Posted
<1>3. PICK fold \in BOOLEAN : fold = folded
  BY DEF Kept, Posted
<1>4. PICK to \in Upstreams : \E c :
        sent = Serialize(to, IF fold THEN FoldSystemIntoUser(msgs) ELSE msgs, c)
  BY <1>1, <1>3 DEF Kept, Posted
<1>4a. PICK c : sent = Serialize(to, IF fold THEN FoldSystemIntoUser(msgs) ELSE msgs, c)
  BY <1>4
<1>5. PICK request : request = sent
  OBVIOUS
<1>6. request = Serialize(to, IF fold THEN FoldSystemIntoUser(msgs) ELSE msgs, c)
  BY <1>4a, <1>5
<1>7. LET told == Told(request.to, request)
      IN /\ Others(told) = Others(story) /\ Instructions(told) = Instructions(story)
         /\ \A f \in Range(told) :
               Instruction(f) => f[1] = (IF fold THEN "user" ELSE "system")
         /\ request.to = "anthropic" => ResultsUnderTool(request)
  BY <1>1, <1>2, <1>3, <1>4, <1>6, SentTold
<1>8. PICK told : told = Told(request.to, request)
  OBVIOUS
<1>9. /\ Others(told) = Others(story) /\ Instructions(told) = Instructions(story)
      /\ \A f \in Range(told) :
            Instruction(f) => f[1] = (IF fold THEN "user" ELSE "system")
  BY <1>7, <1>8
<1>10. sent.to = "anthropic" => ResultsUnderTool(sent)
  BY <1>5, <1>7
<1>11. told = Told(sent.to, sent)
  BY <1>5, <1>8
<1> QED BY <1>3, <1>9, <1>10, <1>11

LEMMA KeptAnswers ==
    ASSUME Kept
    PROVE  AnswerKept
BY DEF Kept, History, Reasoned, AnswerKept

\* Every upstream is told the whole story of the conversation, in order, and
\* the instructions by the right speaker, however long it is and whichever
\* protocols its turns go through (ParseEntry, FoldSystemIntoUser, Serialize,
\* and the way of the answers back); an Anthropic upstream finds the results, and
\* nothing else, in messages of the role "tool".
THEOREM StoriesTold == Spec => []StoryTold
<1>1. Init => Kept
  BY InitKept
<1>2. Kept /\ [Next]_vars => Kept'
  BY NextKept
<1>3. Kept => StoryTold
  BY KeptTold
<1> QED BY <1>1, <1>2, <1>3, PTL DEF Spec

\* The history of the client means what was said, and its answers end for the
\* reason the upstream gave (the parsers and serializers of answers).
THEOREM AnswersKept == Spec => []AnswerKept
<1>1. Init => Kept
  BY InitKept
<1>2. Kept /\ [Next]_vars => Kept'
  BY NextKept
<1>3. Kept => AnswerKept
  BY KeptAnswers
<1> QED BY <1>1, <1>2, <1>3, PTL DEF Spec

-----------------------------------------------------------------------------
(* Calls and their results.                                                *)

Result(m, id) == m.role = "tool" /\ m.call_id = id

\* Right behind a message with calls comes one result for each.
Paired(S) ==
    \A i \in 1..Len(S) : \A k \in 1..Len(S[i].calls) :
        i + k \in 1..Len(S) /\ Result(S[i + k], S[i].calls[k].id)

\* Messages without calls.
Callless == {m \in Shaped : m.calls = <<>>}

LEMMA PairedConcat ==
    ASSUME NEW X, NEW a, NEW b, IsList(a, X), IsList(b, X), Paired(a), Paired(b)
    PROVE  Paired(a \o b)
<1>1. PICK c : c = a \o b
  OBVIOUS
<1>2. Joined(a, b, c)
  BY <1>1, ConcatAt
<1>3. ASSUME NEW i \in 1..Len(c), NEW k \in 1..Len(c[i].calls)
      PROVE  i + k \in 1..Len(c) /\ Result(c[i + k], c[i].calls[k].id)
  <2>1. CASE i \in 1..Len(a)
    <3>1. c[i] = a[i]
      BY <1>2, <2>1 DEF Joined
    <3>2. i + k \in 1..Len(a) /\ Result(a[i + k], a[i].calls[k].id)
      BY <1>3, <2>1, <3>1 DEF Paired
    <3>3. i + k \in 1..Len(c) /\ c[i + k] = a[i + k]
      BY <1>2, <3>2 DEF Joined
    <3> QED BY <3>1, <3>2, <3>3
  <2>2. CASE i \notin 1..Len(a)
    <3>1. PICK j \in 1..Len(b) : i = Len(a) + j
      BY <1>2, <1>3, <2>2 DEF Joined
    <3>2. c[i] = b[j]
      BY <1>2, <3>1 DEF Joined
    <3>3. j + k \in 1..Len(b) /\ Result(b[j + k], b[j].calls[k].id)
      BY <1>3, <3>1, <3>2 DEF Paired
    <3>4. PICK n \in 1..Len(b) : n = j + k
      BY <3>3
    <3>5. Len(a) + n \in 1..Len(c) /\ c[Len(a) + n] = b[n]
      BY <1>2 DEF Joined
    <3>6. i + k = Len(a) + n
      BY <1>2, <3>1, <3>4 DEF Joined
    <3> QED BY <3>2, <3>3, <3>4, <3>5, <3>6
  <2> QED BY <2>1, <2>2
<1>4. Paired(c)
  BY <1>3 DEF Paired
<1> QED BY <1>1, <1>4

LEMMA PairedCallless ==
    ASSUME NEW S, IsList(S, Callless)
    PROVE  Paired(S) /\ IsList(S, Shaped) /\ IsList(Flat(NonF, S), Callless)
<1>1. \A i \in 1..Len(S) : S[i] \in Callless
  BY ListAt
<1>2. \A i \in 1..Len(S) : S[i].calls = <<>>
  BY <1>1 DEF Callless
<1>3. Paired(S)
  BY <1>2 DEF Paired
<1>4. Callless \subseteq Shaped
  BY DEF Callless
<1>5. IsList(S, Shaped)
  BY <1>4, Wider
<1>6. Gives(NonF, Callless, Callless)
  <2> SUFFICES ASSUME NEW m \in Callless PROVE IsList(NonF[m], Callless)
    BY DEF Gives
  <2>1. m \in IR
    BY <1>4, Messages
  <2>2. IsList(<<m>>, Callless) /\ IsList(<<>>, Callless)
    BY ListFacts
  <2> QED BY <2>1, <2>2 DEF NonF, Opt
<1>7. IsList(Flat(NonF, S), Callless)
  BY <1>6, FlatGives
<1> QED BY <1>3, <1>5, <1>7

Resulting == [n \in Nat |-> ToolMessage(n)]

\* The results of calls, as messages.
LEMMA ResultMessages ==
    ASSUME NEW ids, IsList(ids, Nat)
    PROVE  LET r == Flat(ToolF, ids)
           IN /\ IsList(r, Callless) /\ Len(r) = Len(ids) /\ Flat(NonF, r) = r
              /\ \A k \in 1..Len(ids) : Result(r[k], ids[k])
<1>1. PICK r : r = Flat(ToolF, ids)
  OBVIOUS
<1> DEFINE Y == {m \in Callless : m.role = "tool"}
<1>2. \A n \in Nat : ToolMessage(n) \in Y /\ Result(ToolMessage(n), n)
  <2> SUFFICES ASSUME NEW n \in Nat PROVE ToolMessage(n) \in Y /\ Result(ToolMessage(n), n)
    OBVIOUS
  <2>1. ToolMessage(n) \in Shaped
    BY MessageSets
  <2> QED BY <2>1 DEF ToolMessage, Message, Callless, Result
<1>3. Maps(Resulting, Nat, Y)
  BY <1>2 DEF Maps, Resulting
<1>4. \A n \in Nat : ToolF[n] = <<Resulting[n]>>
  BY DEF ToolF, Resulting
<1>5. r = Image(Resulting, ids)
  <2> HIDE DEF Y
  <2> QED BY <1>1, <1>3, <1>4, FlatSingles
<1>6. IsList(r, Y) /\ Imaged(Resulting, ids, r)
  <2> HIDE DEF Y
  <2> QED BY <1>3, <1>5, ImageType
<1>7. \A k \in 1..Len(ids) : ids[k] \in Nat
  BY ListAt
<1>8. Len(r) = Len(ids) /\ \A k \in 1..Len(ids) : Result(r[k], ids[k])
  BY <1>2, <1>6, <1>7 DEF Imaged, Resulting
<1>9. IsList(r, Callless)
  <2>1. Y \subseteq Callless
    OBVIOUS
  <2> HIDE DEF Y
  <2> QED BY <1>6, <2>1, Wider
<1>10. Flat(NonF, r) = r
  <2>1. \A m \in Y : NonF[m] = <<m>>
    <3> SUFFICES ASSUME NEW m \in Y PROVE NonF[m] = <<m>>
      OBVIOUS
    <3>1. m \in IR /\ m.role = "tool"
      BY Messages DEF Callless
    <3> QED BY <3>1 DEF NonF, Opt
  <2> HIDE DEF Y
  <2> QED BY <1>6, <2>1, FlatAll
<1> QED BY <1>1, <1>8, <1>9, <1>10

\* A message with calls, and their results.
LEMMA PairedAnswer ==
    ASSUME NEW m, m \in Shaped, NEW ids, IsList(ids, Nat), Len(m.calls) = Len(ids),
           \A k \in 1..Len(ids) : m.calls[k].id = ids[k]
    PROVE  Paired(<<m>> \o Flat(ToolF, ids))
<1>1. PICK a : a = <<m>>
  OBVIOUS
<1>2. PICK r : r = Flat(ToolF, ids)
  OBVIOUS
<1>3. /\ IsList(r, Callless) /\ Len(r) = Len(ids)
      /\ \A k \in 1..Len(ids) : Result(r[k], ids[k])
  BY <1>2, ResultMessages
<1>4. IsList(r, Shaped)
  BY <1>3, PairedCallless
<1>5. IsList(a, Shaped) /\ Len(a) = 1 /\ a[1] = m
  BY <1>1 DEF IsList
<1>6. PICK c : c = a \o r
  OBVIOUS
<1>7. Joined(a, r, c)
  BY <1>4, <1>5, <1>6, ConcatAt
<1>8. \A i \in 1..Len(r) : r[i].calls = <<>>
  <2>1. \A i \in 1..Len(r) : r[i] \in Callless
    BY <1>3, ListAt
  <2> QED BY <2>1 DEF Callless
<1>9. ASSUME NEW i \in 1..Len(c), NEW k \in 1..Len(c[i].calls)
      PROVE  i + k \in 1..Len(c) /\ Result(c[i + k], c[i].calls[k].id)
  <2>1. CASE i \in 1..Len(a)
    <3>1. i = 1 /\ c[i] = m
      BY <1>5, <1>7, <2>1 DEF Joined
    <3>2. k \in 1..Len(ids) /\ m.calls[k].id = ids[k] /\ Result(r[k], ids[k])
      BY <1>3, <1>9, <3>1
    <3>3. 1 + k \in 1..Len(c) /\ c[1 + k] = r[k]
      BY <1>3, <1>5, <1>7, <3>2 DEF Joined
    <3> QED BY <3>1, <3>2, <3>3
  <2>2. CASE i \notin 1..Len(a)
    <3>1. PICK j \in 1..Len(r) : i = Len(a) + j
      BY <1>7, <1>9, <2>2 DEF Joined
    <3>2. c[i].calls = <<>>
      BY <1>7, <1>8, <3>1 DEF Joined
    <3> QED BY <1>9, <3>2
  <2> QED BY <2>1, <2>2
<1>10. Paired(c)
  BY <1>9 DEF Paired
<1> QED BY <1>1, <1>2, <1>6, <1>10

\* With the results of the calls ids behind them the messages are paired, and
\* so they are without their system messages.
Owed(S, ids) ==
    /\ Paired(S \o Flat(ToolF, ids)) /\ Paired(Flat(NonF, S) \o Flat(ToolF, ids))

LEMMA Without ==
    ASSUME NEW a, NEW b, IsList(a, Shaped), IsList(b, Shaped)
    PROVE  /\ Flat(NonF, a \o b) = Flat(NonF, a) \o Flat(NonF, b)
           /\ IsList(Flat(NonF, a), IR) /\ IsList(a, IR)
<1>1. IsList(a, IR) /\ IsList(b, IR) /\ Gives(NonF, IR, Rest)
  BY ShapedWide, ShapedGives
<1>2. Flat(NonF, a \o b) = Flat(NonF, a) \o Flat(NonF, b)
  BY <1>1, FlatJoin
<1>3. IsList(Flat(NonF, a), Rest)
  BY <1>1, FlatGives
<1>4. IsList(Flat(NonF, a), IR)
  BY <1>3, Messages, Wider
<1> QED BY <1>1, <1>2, <1>4

LEMMA OwedNothing ==
    ASSUME NEW S, IsList(S, Shaped)
    PROVE  Owed(S, <<>>) <=> Paired(S) /\ Paired(Flat(NonF, S))
<1>1. Flat(ToolF, <<>>) = <<>>
  BY FlatEmpty
<1>2. IsList(Flat(NonF, S), IR)
  BY Without
<1>3. S \o <<>> = S /\ Flat(NonF, S) \o <<>> = Flat(NonF, S)
  BY <1>2, ListFacts
<1> QED BY <1>1, <1>3 DEF Owed

\* The next turn answers the calls.
LEMMA OwedTurn ==
    ASSUME NEW S, IsList(S, Shaped), NEW ids, IsList(ids, Nat), Owed(S, ids),
           NEW t, IsList(t, Callless)
    PROVE  Owed(S \o (Flat(ToolF, ids) \o t), <<>>)
<1>1. PICK r : r = Flat(ToolF, ids)
  OBVIOUS
<1>2. IsList(r, Callless) /\ Flat(NonF, r) = r
  BY <1>1, ResultMessages
<1>3. IsList(r, Shaped)
  BY <1>2, PairedCallless
<1>4. Paired(t) /\ IsList(t, Shaped) /\ IsList(Flat(NonF, t), Callless)
  BY PairedCallless
<1>5. Paired(Flat(NonF, t)) /\ IsList(Flat(NonF, t), Shaped)
  BY <1>4, PairedCallless
<1>6. PICK n : n = Flat(NonF, S)
  OBVIOUS
<1>7. PICK o : o = Flat(NonF, t)
  OBVIOUS
<1>8. Paired(S \o r) /\ Paired(n \o r)
  BY <1>1, <1>6 DEF Owed
<1>9. PICK a : a = S \o r
  OBVIOUS
<1>10. PICK b : b = n \o r
  OBVIOUS
<1>11. IsList(n, IR) /\ IsList(r, IR) /\ IsList(t, IR) /\ IsList(o, IR)
  BY <1>3, <1>4, <1>5, <1>6, <1>7, Without, ShapedWide
<1>12. IsList(a, Shaped) /\ IsList(b, IR)
  BY <1>3, <1>9, <1>10, <1>11, ListFacts
<1>13. Paired(a \o t)
  BY <1>4, <1>8, <1>9, <1>12, PairedConcat
<1>14. Paired(b \o o)
  BY <1>5, <1>7, <1>8, <1>10, <1>11, <1>12, PairedConcat
<1>15. S \o (r \o t) = a \o t
  BY <1>3, <1>4, <1>9, ListAssoc, SMTT(30)
<1>16. Flat(NonF, a \o t) = b \o o
  <2>1. Flat(NonF, a \o t) = Flat(NonF, a) \o Flat(NonF, t)
    BY <1>4, <1>12, Without
  <2>2. Flat(NonF, S \o r) = Flat(NonF, S) \o Flat(NonF, r)
    BY <1>3, Without
  <2> QED BY <1>2, <1>6, <1>7, <1>9, <1>10, <2>1, <2>2
<1>17. PICK c : c = a \o t
  OBVIOUS
<1>18. IsList(c, Shaped)
  BY <1>4, <1>12, <1>17, ListFacts
<1>19. Owed(c, <<>>)
  BY <1>13, <1>14, <1>16, <1>17, <1>18, OwedNothing
<1> QED BY <1>1, <1>15, <1>17, <1>19

Speech == {m \in Shaped : m.role = "assistant"}

\* An answer asks for results.
LEMMA OwedAnswer ==
    ASSUME NEW S, IsList(S, Shaped), Owed(S, <<>>), NEW ids, IsList(ids, Nat),
           NEW t, IsList(t, Speech), Paired(t \o Flat(ToolF, ids))
    PROVE  Owed(S \o t, ids)
<1>1. PICK r : r = Flat(ToolF, ids)
  OBVIOUS
<1>2. IsList(r, Callless)
  BY <1>1, ResultMessages
<1>3. IsList(r, Shaped)
  BY <1>2, PairedCallless
<1>4. IsList(t, Shaped) /\ Flat(NonF, t) = t
  <2>1. Speech \subseteq Shaped /\ \A m \in Speech : NonF[m] = <<m>>
    <3>1. ASSUME NEW m \in Speech PROVE m \in Shaped /\ NonF[m] = <<m>>
      <4>1. m \in Shaped /\ m \in IR /\ m.role = "assistant"
        BY Messages DEF Speech
      <4> QED BY <4>1 DEF NonF, Opt
    <3> QED BY <3>1
  <2> QED BY <2>1, Wider, FlatAll
<1>5. PICK n : n = Flat(NonF, S)
  OBVIOUS
<1>6. Paired(S) /\ Paired(n)
  BY <1>5, OwedNothing
<1>7. IsList(n, IR) /\ IsList(t, IR) /\ IsList(r, IR) /\ IsList(S, IR)
  BY <1>3, <1>4, <1>5, Without, ShapedWide
<1>8. PICK a : a = t \o r
  OBVIOUS
<1>9. Paired(a) /\ IsList(a, IR)
  BY <1>1, <1>7, <1>8, ListFacts
<1>10. Paired(S \o a) /\ Paired(n \o a)
  BY <1>6, <1>7, <1>9, PairedConcat
<1>11. (S \o t) \o r = S \o a /\ (n \o t) \o r = n \o a
  <2>1. (S \o t) \o r = S \o (t \o r)
    BY <1>7, ListAssoc
  <2>2. (n \o t) \o r = n \o (t \o r)
    BY <1>7, ListAssoc, SMTT(30)
  <2> QED BY <1>8, <2>1, <2>2
<1>12. Flat(NonF, S \o t) = n \o t
  BY <1>4, <1>5, Without
<1> QED BY <1>1, <1>10, <1>11, <1>12 DEF Owed

-----------------------------------------------------------------------------
(* Calls of an answer.                                                     *)

LEMMA SpeechMessage ==
    ASSUME NEW c, IsList(c, PartsOf(PlainPiece)), NEW calls, IsList(calls, Call)
    PROVE  /\ AssistantMessage(c, calls) \in Speech /\ AssistantMessage(c, calls) \in Shaped
           /\ AssistantMessage(c, calls).calls = calls
<1>1. AssistantMessage(c, calls) \in Shaped
  BY MessageSets
<1>2. AssistantMessage(c, calls).calls = calls /\ AssistantMessage(c, calls).role = "assistant"
  BY DEF AssistantMessage, Message
<1> QED BY <1>1, <1>2 DEF Speech

LEMMA TextsPlain ==
    ASSUME NEW texts, IsList(texts, AnswerTexts)
    PROVE  IsList(texts, PartsOf(PlainPiece)) /\ IsList(<<>>, PartsOf(PlainPiece))
<1>1. \A p \in AnswerTexts : p \in PartsOf(PlainPiece)
  <2> SUFFICES ASSUME NEW p \in AnswerTexts PROVE p \in PartsOf(PlainPiece)
    OBVIOUS
  <2>1. PICK n \in Nat : p = TextPart(<<<<"a", n>>>>)
    BY DEF AnswerTexts
  <2>2. PICK t : t = <<<<"a", n>>>>
    OBVIOUS
  <2>3. IsList(t, PlainPiece)
    BY <2>2, SinglePieces
  <2> QED BY <2>1, <2>2, <2>3 DEF TextPart, PartsOf, IsList
<1> QED BY <1>1, Wider, ListFacts

\* An answer that is one message.
LEMMA OneMessage ==
    ASSUME NEW calls, NEW ids, Asks(calls, ids), NEW c, IsList(c, PartsOf(PlainPiece)),
           NEW own, IsList(own, Call), Len(own) = Len(ids),
           \A k \in 1..Len(ids) : own[k].id = ids[k]
    PROVE  /\ IsList(<<AssistantMessage(c, own)>>, Speech)
           /\ Paired(<<AssistantMessage(c, own)>> \o Flat(ToolF, ids))
<1>1. PICK m : m = AssistantMessage(c, own)
  OBVIOUS
<1>2. m \in Speech /\ m \in Shaped /\ m.calls = own
  BY <1>1, SpeechMessage
<1>3. IsList(<<m>>, Speech)
  BY <1>2, ListFacts
<1>4. IsList(ids, Nat)
  BY DEF Asks
<1>5. Len(m.calls) = Len(ids) /\ \A k \in 1..Len(ids) : m.calls[k].id = ids[k]
  BY <1>2
<1>6. Paired(<<m>> \o Flat(ToolF, ids))
  BY <1>2, <1>4, <1>5, PairedAnswer
<1> QED BY <1>1, <1>3, <1>6

\* Decoding the arguments of calls keeps their identifiers.
LEMMA DecodedAsks ==
    ASSUME NEW calls, NEW ids, Asks(calls, ids)
    PROVE  /\ IsList(Flat(DecodedF, calls), Call) /\ Len(Flat(DecodedF, calls)) = Len(ids)
           /\ \A k \in 1..Len(ids) : Flat(DecodedF, calls)[k].id = ids[k]
<1>1. PICK f : f = [c \in Call |-> Decoded(c)]
  OBVIOUS
<1>2. Maps(f, Call, Call) /\ \A c \in Call : DecodedF[c] = <<f[c]>> /\ f[c].id = c.id
  <2>1. \A c \in Call : Decoded(c) \in Call /\ Decoded(c).id = c.id
    BY DEF Decoded, Call, Input, Arguments
  <2> QED BY <1>1, <2>1 DEF Maps, DecodedF
<1>3. IsList(calls, Call) /\ Len(calls) = Len(ids) /\ \A k \in 1..Len(ids) : calls[k].id = ids[k]
  BY DEF Asks
<1>4. PICK d : d = Flat(DecodedF, calls)
  OBVIOUS
<1>5. d = Image(f, calls)
  BY <1>2, <1>3, <1>4, FlatSingles
<1>6. IsList(d, Call) /\ Imaged(f, calls, d)
  BY <1>2, <1>3, <1>5, ImageType
<1>7. \A k \in 1..Len(calls) : calls[k] \in Call
  BY <1>3, ListAt
<1> QED BY <1>2, <1>3, <1>4, <1>6, <1>7 DEF Imaged

\* A Responses client's answer with one call at most.
LEMMA LoneCall ==
    ASSUME NEW texts, IsList(texts, AnswerTexts), NEW calls, NEW ids, Asks(calls, ids),
           Len(calls) <= 1
    PROVE  LET t == Opt(WholeText(texts) # <<>>,
                        AssistantMessage(<<TextPart(WholeText(texts))>>, <<>>))
                      \o Flat(LoneCallF, calls)
           IN IsList(t, Speech) /\ Paired(t \o Flat(ToolF, ids))
<1>1. PICK r : r = Flat(ToolF, ids)
  OBVIOUS
<1>2. PICK o : o = Opt(WholeText(texts) # <<>>,
                       AssistantMessage(<<TextPart(WholeText(texts))>>, <<>>))
  OBVIOUS
<1>3. PICK t : t = Flat(LoneCallF, calls)
  OBVIOUS
<1>4. IsList(calls, Call) /\ IsList(ids, Nat) /\ Len(calls) = Len(ids) /\ Len(calls) \in Nat
  BY ListAt DEF Asks
<1>5. IsList(o, Callless) /\ IsList(o, Speech)
  <2>1. PICK m : m = AssistantMessage(<<TextPart(WholeText(texts))>>, <<>>)
    OBVIOUS
  <2>2. IsList(<<TextPart(WholeText(texts))>>, PartsOf(PlainPiece))
    <3>1. PICK w : w = WholeText(texts)
      OBVIOUS
    <3>2. IsList(w, PlainPiece)
      BY <3>1, WholeTextFacts
    <3>3. TextPart(w) \in PartsOf(PlainPiece)
      BY <3>2 DEF TextPart, PartsOf, IsList
    <3> QED BY <3>1, <3>3, ListFacts
  <2>3. m \in Speech /\ m \in Shaped /\ m.calls = <<>>
    BY <2>1, <2>2, NoIdNat, SpeechMessage
  <2>4. m \in Callless
    BY <2>3 DEF Callless
  <2>5. /\ IsList(<<m>>, Callless) /\ IsList(<<m>>, Speech)
        /\ IsList(<<>>, Callless) /\ IsList(<<>>, Speech)
    BY <2>3, <2>4, ListFacts
  <2> QED BY <1>2, <2>1, <2>5 DEF Opt
<1>6. Paired(o)
  BY <1>5, PairedCallless
<1>7. IsList(t, Speech) /\ Paired(t \o r)
  <2>1. CASE Len(calls) = 0
    <3>1. calls = <<>> /\ ids = <<>>
      BY <1>4, <2>1, EmptySeq DEF IsList
    <3>2. t = <<>> /\ r = <<>>
      BY <1>1, <1>3, <3>1, FlatEmpty
    <3>3. PICK z : z = <<>>
      OBVIOUS
    <3>4. IsList(z, Speech) /\ IsList(z, Callless) /\ z \o z = z
      BY <3>3, ListFacts
    <3>5. Paired(z)
      BY <3>4, PairedCallless
    <3> QED BY <3>2, <3>3, <3>4, <3>5
  <2>2. CASE Len(calls) = 1
    <3>1. calls = <<calls[1]>> /\ calls[1] \in Call
      <4>1. PICK d : d = <<calls[1]>>
        OBVIOUS
      <4>2. calls[1] \in Call
        BY <1>4, <2>2, ListAt
      <4>3. d \in Seq(Call) /\ Len(d) = 1 /\ d[1] = calls[1] /\ calls \in Seq(Call)
        BY <1>4, <4>1, <4>2 DEF IsList
      <4>4. \A i \in 1..Len(calls) : calls[i] = d[i]
        BY <2>2, <4>3
      <4>5. calls = d
        BY <2>2, <4>3, <4>4, SeqEqual
      <4> QED BY <4>1, <4>2, <4>5
    <3>2. PICK c \in Call : c = calls[1]
      BY <3>1
    <3>3. PICK own : own = <<c>>
      OBVIOUS
    <3>4. calls = own
      BY <3>1, <3>2, <3>3
    <3>5. t = <<AssistantMessage(<<>>, own)>>
      <4>1. Flat(LoneCallF, <<c>>) = LoneCallF[c]
        BY FlatOne
      <4> QED BY <1>3, <3>3, <3>4, <4>1 DEF LoneCallF
    <3>6. IsList(own, Call) /\ Len(own) = Len(ids) /\ \A k \in 1..Len(ids) : own[k].id = ids[k]
      BY <3>4 DEF Asks
    <3>7. IsList(<<>>, PartsOf(PlainPiece))
      BY TextsPlain
    <3>8. PICK e : e = <<>>
      OBVIOUS
    <3>9. IsList(<<AssistantMessage(e, own)>>, Speech)
          /\ Paired(<<AssistantMessage(e, own)>> \o Flat(ToolF, ids))
      BY <3>6, <3>7, <3>8, OneMessage
    <3> QED BY <1>1, <3>5, <3>8, <3>9
  <2> QED BY <1>4, <2>1, <2>2
<1>8. IsList(o, Shaped) /\ IsList(t, Shaped) /\ IsList(r, Shaped)
  <2>1. Speech \subseteq Shaped
    BY DEF Speech
  <2>2. IsList(r, Shaped)
    BY <1>1, <1>4, ToolFacts
  <2> QED BY <1>5, <1>7, <2>1, <2>2, Wider
<1>9. (o \o t) \o r = o \o (t \o r)
  BY <1>8, ListAssoc
<1>10. PICK a : a = t \o r
  OBVIOUS
<1>11. IsList(a, Shaped) /\ Paired(a)
  BY <1>7, <1>8, <1>10, ListFacts
<1>12. Paired(o \o a)
  BY <1>6, <1>8, <1>11, PairedConcat
<1>13. IsList(o \o t, Speech)
  BY <1>5, <1>7, ListFacts
<1> QED BY <1>1, <1>2, <1>3, <1>9, <1>10, <1>12, <1>13

\* What the gateway reads of an answer, and the results its calls ask for.
LEMMA AnswerPaired ==
    ASSUME NEW e \in Entries, NEW texts, IsList(texts, AnswerTexts),
           NEW calls, NEW ids, Asks(calls, ids), e = "responses" => Len(calls) <= 1
    PROVE  /\ IsList(AnswerMsgs(e, texts, calls), Speech)
           /\ Paired(AnswerMsgs(e, texts, calls) \o Flat(ToolF, ids))
<1>1. IsList(texts, PartsOf(PlainPiece))
  BY TextsPlain
<1>2. CASE e = "openai"
  <2>1. AnswerMsgs(e, texts, calls) = <<AssistantMessage(texts, calls)>>
    BY <1>2 DEF AnswerMsgs
  <2>2. IsList(calls, Call) /\ Len(calls) = Len(ids) /\ \A k \in 1..Len(ids) : calls[k].id = ids[k]
    BY DEF Asks
  <2> QED BY <1>1, <2>1, <2>2, OneMessage
<1>3. CASE e = "anthropic"
  <2>1. PICK own : own = Flat(DecodedF, calls)
    OBVIOUS
  <2>2. AnswerMsgs(e, texts, calls) = <<AssistantMessage(texts, own)>>
    BY <1>3, <2>1 DEF AnswerMsgs
  <2>3. IsList(own, Call) /\ Len(own) = Len(ids) /\ \A k \in 1..Len(ids) : own[k].id = ids[k]
    BY <2>1, DecodedAsks
  <2> QED BY <1>1, <2>2, <2>3, OneMessage
<1>4. CASE e = "responses"
  <2>1. AnswerMsgs(e, texts, calls)
          = Opt(WholeText(texts) # <<>>, AssistantMessage(<<TextPart(WholeText(texts))>>, <<>>))
              \o Flat(LoneCallF, calls)
    BY <1>4 DEF AnswerMsgs
  <2>2. PICK t : t = AnswerMsgs(e, texts, calls)
    OBVIOUS
  <2>3. IsList(t, Speech) /\ Paired(t \o Flat(ToolF, ids))
    BY <1>4, <2>1, <2>2, LoneCall
  <2> QED BY <2>2, <2>3
<1> QED BY <1>2, <1>3, <1>4 DEF Entries

-----------------------------------------------------------------------------
(* The inductive invariant of the calls.                                   *)

\* Two calls right behind each other in a story.
ParallelIn(s) == \E i \in 1..Len(s) - 1 : s[i][2] = "call" /\ s[i + 1][2] = "call"

LEMMA ParallelGrows ==
    ASSUME NEW s, IsList(s, Fact), NEW f, IsList(f, Fact)
    PROVE  ParallelIn(s) \/ ParallelIn(f) => ParallelIn(s \o f)
<1>1. PICK u : u = s \o f
  OBVIOUS
<1>2. Joined(s, f, u)
  BY <1>1, ConcatAt
<1>3. ASSUME ParallelIn(s) PROVE ParallelIn(u)
  <2>1. PICK i \in 1..Len(s) - 1 : s[i][2] = "call" /\ s[i + 1][2] = "call"
    BY <1>3 DEF ParallelIn
  <2>2. i \in 1..Len(s) /\ i + 1 \in 1..Len(s)
    BY <1>2 DEF Joined
  <2>3. u[i] = s[i] /\ u[i + 1] = s[i + 1] /\ i \in 1..Len(u) - 1
    BY <1>2, <2>2 DEF Joined
  <2> QED BY <2>1, <2>3 DEF ParallelIn
<1>4. ASSUME ParallelIn(f) PROVE ParallelIn(u)
  <2>1. PICK i \in 1..Len(f) - 1 : f[i][2] = "call" /\ f[i + 1][2] = "call"
    BY <1>4 DEF ParallelIn
  <2>2. PICK j \in 1..Len(f) : j = i + 1
    BY <1>2 DEF Joined
  <2>3. i \in 1..Len(f)
    BY <1>2 DEF Joined
  <2>4. u[Len(s) + i] = f[i] /\ u[Len(s) + j] = f[j] /\ Len(s) + j \in 1..Len(u)
    BY <1>2, <2>2, <2>3 DEF Joined
  <2>5. PICK k : k = Len(s) + i
    OBVIOUS
  <2>6. k \in 1..Len(u) - 1 /\ k + 1 = Len(s) + j
    BY <1>2, <2>2, <2>3, <2>4, <2>5 DEF Joined
  <2>7. u[k][2] = "call" /\ u[k + 1][2] = "call"
    BY <2>1, <2>2, <2>4, <2>5, <2>6
  <2> QED BY <2>6, <2>7 DEF ParallelIn
<1> QED BY <1>1, <1>3, <1>4

LEMMA TwoCalls ==
    ASSUME NEW texts, IsList(texts, AnswerTexts), NEW calls, IsList(calls, Call), Len(calls) = 2
    PROVE  ParallelIn(AnswerFacts(texts, calls))
<1>1. PICK f : f = [c \in Call |-> CallFact(c.id, c.args)]
  OBVIOUS
<1>2. Maps(f, Call, Fact) /\ \A c \in Call : CallF[c] = <<f[c]>> /\ f[c][2] = "call"
  <2>1. \A c \in Call : CallFact(c.id, c.args) \in Fact
    BY FactFields DEF PlainFact
  <2>2. \A c \in Call : CallFact(c.id, c.args)[2] = "call"
    BY DEF CallFact
  <2> QED BY <1>1, <2>1, <2>2 DEF Maps, CallF
<1>3. PICK s : s = Flat(CallF, calls)
  OBVIOUS
<1>4. s = Image(f, calls)
  BY <1>2, <1>3, FlatSingles
<1>5. Imaged(f, calls, s)
  BY <1>2, <1>4, ImageType
<1>6. calls[1] \in Call /\ calls[2] \in Call
  <2>1. \A i \in 1..Len(calls) : calls[i] \in Call
    BY ListAt
  <2>2. 1 \in 1..Len(calls) /\ 2 \in 1..Len(calls)
    OBVIOUS
  <2> QED BY <2>1, <2>2
<1>7. Len(s) = 2 /\ s[1][2] = "call" /\ s[1 + 1][2] = "call"
  BY <1>2, <1>5, <1>6 DEF Imaged
<1>8. ParallelIn(s)
  BY <1>7 DEF ParallelIn
<1>9. IsList(ContentFacts("assistant", texts), Fact) /\ IsList(s, Fact)
  BY <1>3, AnswerFactsType
<1>10. ParallelIn(ContentFacts("assistant", texts) \o s)
  BY <1>8, <1>9, ParallelGrows
<1> QED BY <1>3, <1>10 DEF AnswerFacts

\* Every call in the history has its result right behind it, but for those
\* that are still open; they come with the client's next turn.
Matching ==
    /\ phase # "compose" => open = <<>>
    /\ ~(entry = "responses" /\ Parallel) => Owed(ParseEntry(entry, said), open)

LEMMA InitMatching == Init => Matching
<1> SUFFICES ASSUME Init PROVE Matching
  OBVIOUS
<1>1. open = <<>> /\ phase = "compose"
  BY DEF Init
<1>2. Kept
  BY InitKept
<1>3. entry \in Entries /\ Wellformed(entry, said)
  BY <1>2 DEF Kept, History
<1>4. said.messages = <<>>
  BY DEF Init
<1>5. PICK h : h = HeadOf(said.system)
  OBVIOUS
<1>6. IsList(h, Shaped)
  BY <1>3, <1>5, Heads DEF Wellformed
<1>7. IsList(h, Callless)
  <2>1. PICK m : m = Message("system", <<TextPart(said.system)>>, <<>>, NoId)
    OBVIOUS
  <2>2. h = Opt(said.system # <<>>, m)
    BY <1>5, <2>1 DEF HeadOf
  <2>3. CASE said.system = <<>>
    BY <2>2, <2>3, ListFacts DEF Opt
  <2>4. CASE said.system # <<>>
    <3>1. h = <<m>>
      BY <2>2, <2>4 DEF Opt
    <3>2. m \in Shaped
      BY <1>6, <3>1, ListAt
    <3>3. m.calls = <<>>
      BY <2>1 DEF Message
    <3> QED BY <3>1, <3>2, <3>3, ListFacts DEF Callless
  <2> QED BY <2>3, <2>4
<1>8. ParseEntry(entry, said) = h
  <2>1. ParseEntry(entry, said) = h \o Parsed(entry, said.messages)
    BY <1>3, <1>5, Parses DEF Wellformed
  <2>2. Parsed(entry, said.messages) = <<>>
    BY <1>4, ReadableEmpty
  <2> QED BY <1>6, <2>1, <2>2, ListFacts
<1>9. Owed(h, <<>>)
  <2>1. Paired(h) /\ IsList(Flat(NonF, h), Callless)
    BY <1>7, PairedCallless
  <2>2. Paired(Flat(NonF, h))
    BY <2>1, PairedCallless
  <2> QED BY <1>6, <2>1, <2>2, OwedNothing
<1> QED BY <1>1, <1>8, <1>9 DEF Matching

\* What a client writes behind the results has no calls.
LEMMA TailCallless ==
    ASSUME NEW note \in BOOLEAN, NEW n \in Nat, NEW w, UserTail(w)
    PROVE  IsList(Opt(note, SystemMessage(n)) \o w, Callless)
<1>1. IsList(Opt(note, SystemMessage(n)), Callless)
  <2>1. SystemMessage(n) \in Callless
    <3>1. SystemMessage(n) \in Shaped
      BY MessageSets
    <3>2. SystemMessage(n).calls = <<>>
      BY DEF SystemMessage, Message
    <3> QED BY <3>1, <3>2 DEF Callless
  <2>2. IsList(<<SystemMessage(n)>>, Callless) /\ IsList(<<>>, Callless)
    BY <2>1, ListFacts
  <2>3. CASE note = TRUE
    BY <2>2, <2>3, FlattenOpt
  <2>4. CASE note = FALSE
    BY <2>2, <2>4, FlattenOpt
  <2> QED BY <2>3, <2>4
<1>2. IsList(w, Callless)
  <2>1. CASE w = <<>>
    BY <2>1, ListFacts
  <2>2. ASSUME NEW c, IsList(c, PartsOf(PlainPiece)), w = <<UserMessage(c)>>
        PROVE  IsList(w, Callless)
    <3>1. UserMessage(c) \in Shaped
      BY <2>2, MessageSets
    <3>2. UserMessage(c).calls = <<>>
      BY DEF UserMessage, Message
    <3>3. UserMessage(c) \in Callless
      BY <3>1, <3>2 DEF Callless
    <3> QED BY <2>2, <3>3, ListFacts
  <2> QED BY <2>1, <2>2 DEF UserTail
<1> QED BY <1>1, <1>2, ListFacts

LEMMA ParseShaped ==
    ASSUME History
    PROVE  IsList(ParseEntry(entry, said), Shaped)
BY Parses DEF History, Wellformed

\* The next turn answers all open calls.
LEMMA ComposeMatching ==
    ASSUME Kept, Matching, Compose, ComposeAdds(story', said')
    PROVE  Matching'
<1>1. History /\ IsList(open, Nat) /\ IsList(story, Fact) /\ Turn \in Nat
  BY StoryNumbers DEF Kept, History
<1>2. phase' = "posted" /\ open' = <<>> /\ entry' = entry
  BY DEF Compose
<1>3. PICK note \in BOOLEAN : \E w, facts :
        UserTail(w) /\ Adds(story', said', TurnRead(open, note, Turn, w), facts)
  BY DEF ComposeAdds
<1>4. PICK w, facts : UserTail(w) /\ Adds(story', said', TurnRead(open, note, Turn, w), facts)
  BY <1>3
<1>5. PICK S : S = ParseEntry(entry, said)
  OBVIOUS
<1>6. IsList(S, Shaped)
  BY <1>1, <1>5, ParseShaped
<1>7. PICK r : r = Flat(ToolF, open)
  OBVIOUS
<1>8. PICK o : o = Opt(note, SystemMessage(Turn))
  OBVIOUS
<1>9. PICK t : t = o \o w
  OBVIOUS
<1>10. IsList(t, Callless)
  BY <1>1, <1>4, <1>8, <1>9, TailCallless
<1>11. TurnRead(open, note, Turn, w) = r \o t
  <2>1. TurnRead(open, note, Turn, w) = (r \o o) \o w
    BY <1>7, <1>8 DEF TurnRead
  <2>2. IsList(r, Shaped)
    BY <1>1, <1>7, ToolFacts
  <2>3. IsList(o, Shaped)
    <3>1. SystemMessage(Turn) \in Shaped
      BY <1>1, MessageSets
    <3>2. IsList(<<SystemMessage(Turn)>>, Shaped) /\ IsList(<<>>, Shaped)
      BY <3>1, ListFacts
    <3>3. CASE note = TRUE
      BY <1>8, <3>2, <3>3, FlattenOpt
    <3>4. CASE note = FALSE
      BY <1>8, <3>2, <3>4, FlattenOpt
    <3> QED BY <3>3, <3>4
  <2>4. IsList(w, Shaped)
    <3>1. IsList(<<>>, Shaped)
      BY ListFacts
    <3>2. \A c : IsList(c, PartsOf(PlainPiece)) => IsList(<<UserMessage(c)>>, Shaped)
      BY MessageSets, ListFacts
    <3> QED BY <1>4, <3>1, <3>2 DEF UserTail
  <2>5. (r \o o) \o w = r \o (o \o w)
    BY <2>2, <2>3, <2>4, ListAssoc
  <2> QED BY <1>9, <2>1, <2>5
<1>12. story' = story \o facts /\ IsList(facts, Fact) /\ ParseEntry(entry, said') = S \o (r \o t)
  BY <1>4, <1>5, <1>11 DEF Adds
<1>13. Parallel => Parallel'
  <2>1. ParallelIn(story) => ParallelIn(story \o facts)
    BY <1>1, <1>12, ParallelGrows
  <2>2. (Parallel <=> ParallelIn(story)) /\ (Parallel' <=> ParallelIn(story'))
    BY DEF Parallel, ParallelIn
  <2> QED BY <1>12, <2>1, <2>2
<1>14. ASSUME ~(entry = "responses" /\ Parallel) PROVE Owed(S \o (r \o t), <<>>)
  <2>1. Owed(S, open)
    BY <1>5, <1>14 DEF Matching
  <2>2. PICK ids : ids = open
    OBVIOUS
  <2>3. Owed(S \o (Flat(ToolF, ids) \o t), <<>>)
    BY <1>1, <1>6, <1>10, <2>1, <2>2, OwedTurn
  <2> QED BY <1>7, <2>2, <2>3
<1>15. ~(entry' = "responses" /\ Parallel') => Owed(ParseEntry(entry', said'), open')
  BY <1>2, <1>12, <1>13, <1>14
<1> QED BY <1>2, <1>15 DEF Matching

\* An answer leaves its own calls open.
LEMMA AnswerMatching ==
    ASSUME Kept, Matching, Answer, AnswerAdds(story', said', open')
    PROVE  Matching'
<1>1. History /\ entry \in Entries /\ IsList(story, Fact)
  BY StoryNumbers DEF Kept, History
<1>2. phase = "sent" /\ phase' = "compose" /\ entry' = entry
  BY DEF Answer
<1>3. open = <<>>
  BY <1>2 DEF Matching
<1>4. PICK ids : ids = open'
  OBVIOUS
<1>5. PICK texts, calls :
        /\ IsList(texts, AnswerTexts) /\ Asks(calls, ids)
        /\ Adds(story', said', AnswerMsgs(entry, texts, calls), AnswerFacts(texts, calls))
  BY <1>4 DEF AnswerAdds
<1>6. PICK S : S = ParseEntry(entry, said)
  OBVIOUS
<1>7. IsList(S, Shaped)
  BY <1>1, <1>6, ParseShaped
<1>8. PICK t : t = AnswerMsgs(entry, texts, calls)
  OBVIOUS
<1>9. PICK facts : facts = AnswerFacts(texts, calls)
  OBVIOUS
<1>10. story' = story \o facts /\ IsList(facts, Fact) /\ ParseEntry(entry, said') = S \o t
  BY <1>5, <1>6, <1>8, <1>9 DEF Adds
<1>11. ParallelIn(story) \/ ParallelIn(facts) => Parallel'
  <2>1. ParallelIn(story) \/ ParallelIn(facts) => ParallelIn(story \o facts)
    BY <1>1, <1>10, ParallelGrows
  <2>2. Parallel' <=> ParallelIn(story')
    BY DEF Parallel, ParallelIn
  <2> QED BY <1>10, <2>1, <2>2
<1>12. ASSUME ~(entry = "responses" /\ Parallel') PROVE Owed(S \o t, ids)
  <2>1. Owed(S, <<>>)
    <3>1. Parallel <=> ParallelIn(story)
      BY DEF Parallel, ParallelIn
    <3> QED BY <1>3, <1>6, <1>11, <1>12, <3>1 DEF Matching
  <2>2. IsList(calls, Call) /\ IsList(ids, Nat) /\ Len(calls) <= 2 /\ Len(calls) \in Nat
    BY <1>5, ListAt DEF Asks
  <2>3. entry = "responses" => Len(calls) <= 1
    <3>1. Len(calls) = 2 => ParallelIn(facts)
      BY <1>5, <1>9, <2>2, TwoCalls
    <3>2. PICK n \in Nat : n = Len(calls)
      BY <2>2
    <3>3. n <= 2 /\ (n = 2 => ParallelIn(facts))
      BY <2>2, <3>1, <3>2
    <3>4. entry = "responses" => n # 2
      BY <1>11, <1>12, <3>3
    <3>5. entry = "responses" => n <= 1
      BY <3>3, <3>4
    <3> QED BY <3>2, <3>5
  <2>4. PICK e \in Entries : e = entry
    BY <1>1
  <2>5. IsList(t, Speech) /\ Paired(t \o Flat(ToolF, ids))
    <3>1. /\ IsList(AnswerMsgs(e, texts, calls), Speech)
          /\ Paired(AnswerMsgs(e, texts, calls) \o Flat(ToolF, ids))
      BY <1>5, <2>3, <2>4, AnswerPaired
    <3> QED BY <1>8, <2>4, <3>1
  <2> QED BY <1>7, <2>1, <2>2, <2>5, OwedAnswer
<1>13. ~(entry' = "responses" /\ Parallel') => Owed(ParseEntry(entry', said'), open')
  BY <1>2, <1>4, <1>10, <1>12
<1> QED BY <1>2, <1>13 DEF Matching

LEMMA SameMatching ==
    ASSUME Matching, entry' = entry, said' = said, story' = story, open' = open,
           phase' # "compose" => phase # "compose"
    PROVE  Matching'
<1>1. Parallel' <=> Parallel
  BY DEF Parallel
<1>2. ParseEntry(entry', said') = ParseEntry(entry, said)
  OBVIOUS
<1>3. Owed(ParseEntry(entry', said'), open') <=> Owed(ParseEntry(entry, said), open)
  BY <1>2
<1>4. ~(entry' = "responses" /\ Parallel') => Owed(ParseEntry(entry', said'), open')
  BY <1>1, <1>3 DEF Matching
<1>5. phase' # "compose" => open' = <<>>
  BY DEF Matching
<1> QED BY <1>4, <1>5 DEF Matching

LEMMA NextMatching ==
    ASSUME Kept, Matching, [Next]_vars
    PROVE  Kept' /\ Matching'
<1>1. Kept'
  BY NextKept
<1>2. CASE UNCHANGED vars
  <2>1. entry' = entry /\ said' = said /\ story' = story /\ open' = open
    BY <1>2 DEF vars
  <2>2. phase' # "compose" => phase # "compose"
    BY <1>2 DEF vars
  <2> QED BY <1>1, <2>1, <2>2, SameMatching
<1>3. CASE Compose
  BY <1>3, ComposeKept, ComposeMatching
<1>4. CASE Refuse
  <2>1. entry' = entry /\ said' = said /\ story' = story /\ open' = open
    BY <1>4 DEF Refuse
  <2>2. phase' # "compose" => phase # "compose"
    BY <1>4 DEF Refuse
  <2> QED BY <1>1, <2>1, <2>2, SameMatching
<1>5. CASE Forward
  <2>1. entry' = entry /\ said' = said /\ story' = story /\ open' = open
    BY <1>5 DEF Forward
  <2>2. phase' # "compose" => phase # "compose"
    BY <1>5 DEF Forward
  <2> QED BY <1>1, <2>1, <2>2, SameMatching
<1>6. CASE Answer
  BY <1>6, AnswerKeptOn, AnswerMatching
<1> QED BY <1>1, <1>2, <1>3, <1>4, <1>5, <1>6 DEF Next

-----------------------------------------------------------------------------
(* What an upstream finds behind the calls.                                *)

\* Messages alike but for their contents.
Outlines(S, T) ==
    /\ Len(T) = Len(S) /\ Len(S) \in Nat
    /\ \A i \in 1..Len(S) :
          T[i].role = S[i].role /\ T[i].calls = S[i].calls /\ T[i].call_id = S[i].call_id

LEMMA PairedOutline ==
    ASSUME NEW S, NEW T, Outlines(S, T), Paired(S)
    PROVE  Paired(T)
<1>1. ASSUME NEW i \in 1..Len(T), NEW k \in 1..Len(T[i].calls)
      PROVE  i + k \in 1..Len(T) /\ Result(T[i + k], T[i].calls[k].id)
  <2>1. i \in 1..Len(S) /\ T[i].calls = S[i].calls
    BY <1>1 DEF Outlines
  <2>2. i + k \in 1..Len(S) /\ Result(S[i + k], S[i].calls[k].id)
    BY <1>1, <2>1 DEF Paired
  <2>3. PICK j \in 1..Len(S) : j = i + k
    BY <2>2
  <2>4. T[j].role = S[j].role /\ T[j].call_id = S[j].call_id /\ j \in 1..Len(T)
    BY <2>3 DEF Outlines
  <2> QED BY <2>1, <2>2, <2>3, <2>4 DEF Result
<1> QED BY <1>1 DEF Paired

LEMMA OutlineConcat ==
    ASSUME NEW X, NEW a, NEW b, NEW c, NEW d, IsList(a, X), IsList(b, X), IsList(c, X),
           IsList(d, X), Outlines(a, c), Outlines(b, d)
    PROVE  Outlines(a \o b, c \o d)
<1>1. PICK s : s = a \o b
  OBVIOUS
<1>2. PICK t : t = c \o d
  OBVIOUS
<1>3. Joined(a, b, s) /\ Joined(c, d, t)
  BY <1>1, <1>2, ConcatAt
<1>4. Len(c) = Len(a) /\ Len(d) = Len(b) /\ Len(t) = Len(s) /\ Len(s) \in Nat
  BY <1>3 DEF Joined, Outlines
<1>5. ASSUME NEW i \in 1..Len(s)
      PROVE  t[i].role = s[i].role /\ t[i].calls = s[i].calls /\ t[i].call_id = s[i].call_id
  <2>1. CASE i \in 1..Len(a)
    <3>1. s[i] = a[i] /\ t[i] = c[i]
      BY <1>3, <1>4, <2>1 DEF Joined
    <3> QED BY <2>1, <3>1 DEF Outlines
  <2>2. CASE i \notin 1..Len(a)
    <3>1. PICK j \in 1..Len(b) : i = Len(a) + j
      BY <1>3, <1>5, <2>2 DEF Joined
    <3>2. s[i] = b[j] /\ t[i] = d[j]
      BY <1>3, <1>4, <3>1 DEF Joined
    <3> QED BY <3>1, <3>2 DEF Outlines
  <2> QED BY <2>1, <2>2
<1>6. Outlines(s, t)
  BY <1>4, <1>5 DEF Outlines
<1> QED BY <1>1, <1>2, <1>6

LEMMA OutlineSame == ASSUME NEW X, NEW a, IsList(a, X) PROVE Outlines(a, a)
BY ListAt DEF Outlines

\* Another content for a user's message does not change who answers whom.
LEMMA PairedPut ==
    ASSUME NEW S, IsList(S, Shaped), NEW u \in 1..Len(S), S[u] \in UserMsg(PlainPiece),
           NEW m \in UserMsg(Piece), Paired(Flat(NonF, S))
    PROVE  Paired(Flat(NonF, Put(S, u, m)))
<1>1. PICK y \in IR : y = S[u]
  BY UserFacts
<1>2. IsList(S, IR) /\ Gives(NonF, IR, Rest) /\ m \in IR
  BY ShapedWide, ShapedGives, UserFacts
<1>3. PICK A : A = Flat(NonF, Fore(S, u))
  OBVIOUS
<1>4. PICK B : B = Flat(NonF, Rear(S, u))
  OBVIOUS
<1>5. IsList(A, Rest) /\ IsList(B, Rest)
  <2>1. IsList(Fore(S, u), IR) /\ IsList(Rear(S, u), IR)
    BY <1>2, Sides
  <2> QED BY <1>2, <1>3, <1>4, <2>1, FlatGives
<1>6. /\ Flat(NonF, Put(S, u, y)) = (A \o NonF[y]) \o B
      /\ Flat(NonF, Put(S, u, m)) = (A \o NonF[m]) \o B
  <2>1. Flat(NonF, Put(S, u, y)) = (Flat(NonF, Fore(S, u)) \o NonF[y]) \o Flat(NonF, Rear(S, u))
    <3>1. y \in IR
      OBVIOUS
    <3> QED BY <1>2, <3>1, FlatAround
  <2>2. Flat(NonF, Put(S, u, m)) = (Flat(NonF, Fore(S, u)) \o NonF[m]) \o Flat(NonF, Rear(S, u))
    BY <1>2, FlatAround
  <2> QED BY <1>3, <1>4, <2>1, <2>2
<1>7. Put(S, u, y) = S
  BY <1>1, ListAt DEF Put
<1>8. /\ y.role = "user" /\ y.calls = <<>> /\ y.call_id = NoId
      /\ m.role = "user" /\ m.calls = <<>> /\ m.call_id = NoId
  BY <1>1, MessageShape
<1>9. PICK a : a = <<y>>
  OBVIOUS
<1>10. PICK c : c = <<m>>
  OBVIOUS
<1>11. NonF[y] = a /\ NonF[m] = c
  BY <1>1, <1>2, <1>8, <1>9, <1>10 DEF NonF, Opt
<1>12. y \in Rest /\ m \in Rest
  BY <1>1, UserFacts
<1>13. IsList(a, Rest) /\ IsList(c, Rest)
  BY <1>9, <1>10, <1>12, ListFacts
<1>14. Outlines(a, c)
  BY <1>8, <1>9, <1>10 DEF Outlines
<1>15. Outlines(A, A) /\ Outlines(B, B)
  BY <1>5, OutlineSame
<1>16. PICK p : p = A \o a
  OBVIOUS
<1>17. PICK q : q = A \o c
  OBVIOUS
<1>18. Outlines(p, q) /\ IsList(p, Rest) /\ IsList(q, Rest)
  BY <1>5, <1>13, <1>14, <1>15, <1>16, <1>17, OutlineConcat, ListFacts
<1>19. Outlines(p \o B, q \o B)
  BY <1>5, <1>15, <1>18, OutlineConcat
<1>20. PICK s : s = p \o B
  OBVIOUS
<1>21. PICK t : t = q \o B
  OBVIOUS
<1>22. Outlines(s, t) /\ Paired(s)
  BY <1>6, <1>7, <1>11, <1>16, <1>19, <1>20, <1>21
<1>23. Paired(t)
  BY <1>22, PairedOutline
<1> QED BY <1>6, <1>11, <1>17, <1>21, <1>23

\* What goes to the model of a route, folded or not.
LEMMA PairedFolded ==
    ASSUME NEW S, IsList(S, Shaped), HasUser(S), Owed(S, <<>>), NEW fold \in BOOLEAN,
           NEW T, T = IF fold THEN FoldSystemIntoUser(S) ELSE S
    PROVE  Paired(T) /\ IsList(T, IR)
<1>1. Paired(S) /\ Paired(Flat(NonF, S)) /\ IsList(S, IR)
  BY OwedNothing, ShapedWide
<1>2. CASE T = S
  BY <1>1, <1>2
<1>3. ASSUME fold = TRUE, FoldSystemIntoUser(S) # S PROVE Paired(T) /\ IsList(T, IR)
  <2>1. PICK u \in 1..Len(S) :
          /\ S[u] \in UserMsg(PlainPiece)
          /\ FoldSystemIntoUser(S) =
               Flat(NonF, Put(S, u, [S[u] EXCEPT !.content = Prefixed(Prefix(S), S[u].content)]))
    BY <1>3, FoldCases
  <2>2. PICK m : m = [S[u] EXCEPT !.content = Prefixed(Prefix(S), S[u].content)]
    OBVIOUS
  <2>3. m \in UserMsg(Piece)
    <3>1. IsList(Prefix(S), Piece)
      BY <1>1, PrefixText
    <3> QED BY <2>1, <2>2, <3>1, PrefixedFacts
  <2>4. T = Flat(NonF, Put(S, u, m))
    BY <1>3, <2>1, <2>2
  <2>5. Paired(T)
    BY <1>1, <2>1, <2>3, <2>4, PairedPut
  <2>6. IsList(Put(S, u, m), IR) /\ Gives(NonF, IR, Rest)
    <3>1. m \in IR /\ Gives(NonF, IR, Rest)
      BY <2>3, UserFacts, ShapedGives
    <3> QED BY <1>1, <3>1, FlatAround
  <2>7. IsList(T, Rest)
    BY <2>4, <2>6, FlatGives
  <2>8. IsList(T, IR)
    BY <2>7, Messages, Wider
  <2> QED BY <2>5, <2>8
<1>4. fold = FALSE => T = S
  OBVIOUS
<1>5. fold = TRUE /\ FoldSystemIntoUser(S) = S => T = S
  OBVIOUS
<1> QED BY <1>2, <1>3, <1>4, <1>5

LEMMA KeptPaired ==
    ASSUME Kept, Matching
    PROVE  ToolsPaired
<1> SUFFICES ASSUME sent.to = "openai", ~(entry = "responses" /\ Parallel),
                    NEW i \in DOMAIN sent.messages,
                    NEW k \in DOMAIN sent.messages[i].tool_calls
             PROVE  /\ i + k \in DOMAIN sent.messages
                    /\ sent.messages[i + k].role = "tool"
                    /\ sent.messages[i + k].tool_call_id = sent.messages[i].tool_calls[k].id
  BY DEF ToolsPaired
<1>1. sent # Nothing
  BY DEF Nothing
<1>2. PICK S : S = ParseEntry(entry, said)
  OBVIOUS
<1>3. IsList(S, Shaped) /\ HasUser(S)
  BY <1>1, <1>2, ParseShaped DEF Kept, Posted
<1>4. Owed(S, <<>>)
  <2>1. phase = "sent"
    BY <1>1 DEF Kept, Posted
  <2>2. open = <<>>
    BY <2>1 DEF Matching
  <2> QED BY <1>2, <2>2 DEF Matching
<1>5. PICK fold \in BOOLEAN : fold = folded
  BY <1>1 DEF Kept, Posted
<1>6a. PICK to \in Upstreams : \E c :
         sent = Serialize(to, IF fold THEN FoldSystemIntoUser(S) ELSE S, c)
  BY <1>1, <1>2, <1>5 DEF Kept, Posted
<1>6. PICK c : sent = Serialize(to, IF fold THEN FoldSystemIntoUser(S) ELSE S, c)
  BY <1>6a
<1>7. PICK T : T = IF fold THEN FoldSystemIntoUser(S) ELSE S
  OBVIOUS
<1>8. Paired(T) /\ IsList(T, IR)
  BY <1>3, <1>4, <1>7, PairedFolded
<1>9. sent.messages = Map(MessageOutToOpenAI, T)
  <2>1. CASE to = "openai"
    BY <1>6, <1>7, <2>1 DEF Serialize, SerializeOpenAIChatRequest
  <2>2. CASE to = "anthropic"
    <3>1. sent.to = "anthropic"
      BY <1>6, <2>2, AnthropicRequest DEF Serialize
    <3> QED BY <3>1
  <2> QED BY <2>1, <2>2 DEF Upstreams
<1>10. DOMAIN T = 1..Len(T) /\ DOMAIN sent.messages = 1..Len(T)
  BY <1>8, <1>9, ListAt DEF Map
<1>11. \A j \in 1..Len(T) : /\ sent.messages[j].role = T[j].role
                            /\ sent.messages[j].tool_calls = T[j].calls
                            /\ sent.messages[j].tool_call_id = T[j].call_id
  BY <1>9, <1>10 DEF Map, MessageOutToOpenAI, OpenAIMessage
<1>12. k \in 1..Len(T[i].calls)
  <2>1. T[i] \in IR
    BY <1>8, <1>10, ListAt
  <2>2. IsList(T[i].calls, Call)
    BY <2>1, IRShape
  <2>3. DOMAIN T[i].calls = 1..Len(T[i].calls)
    BY <2>2, ListAt
  <2> QED BY <1>10, <1>11, <2>3
<1>13. i + k \in 1..Len(T) /\ Result(T[i + k], T[i].calls[k].id)
  BY <1>8, <1>10, <1>12 DEF Paired
<1> QED BY <1>10, <1>11, <1>13 DEF Result

\* Every upstream that speaks OpenAI Chat finds the result of each call right
\* behind the message that makes it, except that of a Responses client's
\* parallel calls (ParseEntry, FoldSystemIntoUser, Serialize).
THEOREM ToolsArePaired == Spec => []ToolsPaired
<1> DEFINE Inv == Kept /\ Matching
<1>1. Init => Inv
  BY InitKept, InitMatching
<1>2. Inv /\ [Next]_vars => Inv'
  BY NextMatching
<1>3. Inv => ToolsPaired
  BY KeptPaired
<1> QED BY <1>1, <1>2, <1>3, PTL DEF Spec
=============================================================================
