--------------------------- MODULE GatewayStreams ---------------------------
(***************************************************************************)
(* The gateway's transforms of requests and answers, side by side: a       *)
(* behaviour runs one of them.  They never run on each other's state, so   *)
(* the behaviours of the gateway are those of its units.                   *)
(***************************************************************************)
EXTENDS ProviderRequest

CONSTANTS None

VARIABLES
  unit, \* the unit that this behaviour runs
  row, strict, sent, got, end, provider, answer, next, state, client, seen, late, items,
  upstream, route, todo, template

vars == <<requestVars, unit, row, strict, sent, got, end, provider, answer, next, state,
          client, seen, late, items, upstream, route, todo, template>>

Off == "off"

-----------------------------------------------------------------------------
(* ProviderRequest: a number below every least value, zero, and one above  *)
(* every greatest.                                                         *)
SomeValues == {-1000000, 0, 100000000}

(* ResponsesStream: chunks of a Chat Completions stream. *)
Quiet == [blocks |-> <<>>, reasoning |-> FALSE, text |-> FALSE, tools |-> <<>>,
          grounding |-> FALSE, finish |-> None]
B(i, kind) == [index |-> i, kind |-> kind, id |-> "s", completed |-> TRUE]
Tool(i, id, args) == [index |-> i, id |-> id, args |-> args]

ChatChunks ==
  { [Quiet EXCEPT !.blocks = <<B(0, "thinking"), B(0, "signature")>>, !.reasoning = TRUE],
    [Quiet EXCEPT !.blocks = <<B(1, "search")>>],
    [Quiet EXCEPT !.blocks = <<B(2, "result")>>],
    [Quiet EXCEPT !.blocks = <<[B(2, "result") EXCEPT !.completed = FALSE]>>, !.text = TRUE],
    [Quiet EXCEPT !.blocks = <<B(3, "citation")>>],
    [Quiet EXCEPT !.blocks = <<B(4, "citation")>>, !.text = TRUE],
    [Quiet EXCEPT !.text = TRUE], [Quiet EXCEPT !.reasoning = TRUE, !.text = TRUE],
    [Quiet EXCEPT !.tools = <<Tool(0, "a", FALSE)>>], [Quiet EXCEPT !.tools = <<Tool(0, None, TRUE)>>],
    [Quiet EXCEPT !.tools = <<Tool(0, "c", TRUE), Tool(1, None, TRUE)>>],
    [Quiet EXCEPT !.grounding = TRUE, !.finish = "stop"], [Quiet EXCEPT !.finish = "length"] }

(* MessagesStream: the same, as its adapter reads them. *)
Still == [thinking |-> FALSE, signature |-> FALSE, reasoning |-> FALSE, text |-> FALSE,
          tools |-> <<>>, finish |-> FALSE]

MessageChunks ==
  { [Still EXCEPT !.thinking = TRUE], [Still EXCEPT !.signature = TRUE, !.reasoning = TRUE],
    [Still EXCEPT !.reasoning = TRUE, !.text = TRUE], [Still EXCEPT !.text = TRUE],
    [Still EXCEPT !.tools = <<Tool(0, "a", FALSE)>>], [Still EXCEPT !.tools = <<Tool(0, None, TRUE)>>],
    [Still EXCEPT !.tools = <<Tool(1, "b", TRUE)>>], [Still EXCEPT !.tools = <<Tool(1, None, TRUE)>>],
    [Still EXCEPT !.tools = <<Tool(0, "c", TRUE), Tool(1, None, TRUE)>>],
    [Still EXCEPT !.finish = TRUE],
    [Still EXCEPT !.text = TRUE, !.tools = <<Tool(0, "a", TRUE)>>, !.finish = TRUE] }

(* CachedChat: answers of one choice with up to two blocks, two calls and  *)
(* texts of all lengths around the slice; pairs of a few of them.          *)
Block == [kind : {"text", "thinking", "data"}, len : 0..5]
Choice(blocks, has, calls, len, finish) ==
  [blocks |-> blocks, hasBlocks |-> has, calls |-> calls, len |-> len, finish |-> finish]
WithBlocks ==
  {Choice(<<b>>, TRUE, n, 0, "stop") : b \in Block, n \in 0..2}
  \cup {Choice(<<b[1], b[2]>>, TRUE, n, 0, "tool_calls") : b \in Block \X Block, n \in 0..1}
Plain == {Choice(<<>>, FALSE, n, len, f) : n \in 0..2, len \in 0..5, f \in {"stop", "length"}}
Few ==
  {Choice(<<[kind |-> "thinking", len |-> 3], [kind |-> "text", len |-> 4]>>, TRUE, 1, 0, "tool_calls"),
   Choice(<<>>, FALSE, 0, 3, "stop"), Choice(<<>>, FALSE, 2, 0, "tool_calls"),
   Choice(<<>>, FALSE, 0, 2, "length")}
ChatAnswers == {<<c>> : c \in WithBlocks \cup Plain} \cup {<<c[1], c[2]>> : c \in Few \X Few}

(* CachedResponses: an item of every type, and pairs with a call. *)
Items ==
  {[type |-> "message", parts |-> ps] : ps \in {<<>>, <<0>>, <<2>>, <<3, 1>>}}
  \cup {[type |-> t, parts |-> <<>>] : t \in {"function_call", "web_search_call", "file_search_call",
          "computer_call", "reasoning"}}
ResponseAnswers ==
  [1..1 -> Items] \cup {<<a, b>> : a \in {x \in Items : x.parts # <<0>>},
                                   b \in {x \in Items : x.type \in {"function_call", "computer_call"}}}

-----------------------------------------------------------------------------
PerEvent == INSTANCE StreamChunks WITH MaxText <- 3, MaxCalls <- 2
Native == INSTANCE ProviderStreams WITH Providers <- {"anthropic", "bedrock", "gemini"},
                                        MaxBlocks <- 2, MaxPieces <- 2
Responses == INSTANCE ResponsesStream WITH Chunks <- ChatChunks, Carry <- TRUE,
                                           MaxChunks <- 4
Messages == INSTANCE MessagesStream WITH Chunks <- MessageChunks, MaxChunks <- 4
Bridge == INSTANCE MessagesViaResponses WITH MaxItems <- 2, MaxDeltas <- 2
Chat == INSTANCE CachedChat WITH Answers <- ChatAnswers, SliceSize <- 2
Stored == INSTANCE CachedResponses WITH Answers <- ResponseAnswers,
                                        Streams <- {"s1", "s2"}, SliceSize <- 2

(* A unit runs with its own variables; the variables of the others are off. *)
Units == {"request", "chunks", "native", "responses", "messages", "via", "chat", "stored"}

RequestIsOff ==
  loaded = Off /\ modelDefault = Off /\ table = Off /\ at = Off /\ request = Off
requestOwn == <<loaded, modelDefault, table, at, request>>

Init ==
  \/ /\ unit = "request" /\ RequestInit
     /\ row = Off /\ strict = Off /\ sent = Off /\ got = Off /\ end = Off /\
        provider = Off /\ answer = Off /\ next = Off /\ state = Off /\ client = Off /\
        seen = Off /\ late = Off /\ items = Off /\ upstream = Off /\ route = Off /\
        todo = Off /\ template = Off
  \/ /\ unit = "chunks" /\ PerEvent!Init
     /\ provider = Off /\ answer = Off /\ next = Off /\ phase = Off /\ state = Off /\
        client = Off /\ seen = Off /\ given = Off /\ late = Off /\ items = Off /\
        upstream = Off /\ route = Off /\ todo = Off /\ template = Off
     /\ RequestIsOff
  \/ /\ unit = "native" /\ Native!Init
     /\ row = Off /\ sent = Off /\ got = Off /\ end = Off /\ seen = Off /\ given = Off /\
        late = Off /\ items = Off /\ upstream = Off /\ route = Off /\ todo = Off /\
        template = Off
     /\ RequestIsOff
  \/ /\ unit = "responses" /\ Responses!Init
     /\ row = Off /\ strict = Off /\ sent = Off /\ got = Off /\
        provider = Off /\ answer = Off /\ next = Off /\ phase = Off /\ given = Off /\
        late = Off /\ items = Off /\ upstream = Off /\ route = Off /\ todo = Off /\
        template = Off
     /\ RequestIsOff
  \/ /\ unit = "messages" /\ Messages!Init
     /\ row = Off /\ strict = Off /\ sent = Off /\ got = Off /\
        provider = Off /\ answer = Off /\ next = Off /\ phase = Off /\ items = Off /\
        upstream = Off /\ route = Off /\ todo = Off /\ template = Off
     /\ RequestIsOff
  \/ /\ unit = "via" /\ Bridge!Init
     /\ row = Off /\ strict = Off /\ sent = Off /\ got = Off /\ end = Off /\
        provider = Off /\ answer = Off /\ next = Off /\ phase = Off /\ seen = Off /\
        given = Off /\ late = Off /\ route = Off /\ todo = Off /\ template = Off
     /\ RequestIsOff
  \/ /\ unit = "chat" /\ Chat!Init
     /\ row = Off /\ strict = Off /\ sent = Off /\ end = Off /\ provider = Off /\
        next = Off /\ phase = Off /\ state = Off /\ client = Off /\ seen = Off /\
        given = Off /\ late = Off /\ items = Off /\ upstream = Off /\ template = Off
     /\ RequestIsOff
  \/ /\ unit = "stored" /\ Stored!Init
     /\ row = Off /\ strict = Off /\ sent = Off /\ got = Off /\ end = Off /\
        provider = Off /\ next = Off /\ phase = Off /\ state = Off /\ seen = Off /\
        given = Off /\ late = Off /\ items = Off /\ upstream = Off /\ route = Off
     /\ RequestIsOff

Next ==
  \/ /\ unit = "request" /\ RequestNext
     /\ UNCHANGED <<unit, row, strict, sent, got, end, provider, answer, next, state, client,
                    seen, late, items, upstream, route, todo, template>>
  \/ /\ unit = "chunks" /\ PerEvent!Next
     /\ UNCHANGED <<requestOwn, unit, provider, answer, next, phase, state, client, seen, given, late,
                    items, upstream, route, todo, template>>
  \/ /\ unit = "native" /\ Native!Next
     /\ UNCHANGED <<requestOwn, unit, row, sent, got, end, seen, given, late, items, upstream, route,
                    todo, template>>
  \/ /\ unit = "responses" /\ Responses!Next
     /\ UNCHANGED <<requestOwn, unit, row, strict, sent, got, provider, answer, next, phase,
                    given, late, items, upstream, route, todo, template>>
  \/ /\ unit = "messages" /\ Messages!OrderlyNext
     /\ UNCHANGED <<requestOwn, unit, row, strict, sent, got, provider, answer, next, phase,
                    items, upstream, route, todo, template>>
  \/ /\ unit = "via" /\ Bridge!Next
     /\ UNCHANGED <<requestOwn, unit, row, strict, sent, got, end, provider, answer, next, phase, seen,
                    given, late, route, todo, template>>
  \/ /\ unit = "chat" /\ Chat!Next
     /\ UNCHANGED <<requestOwn, unit, row, strict, sent, end, provider, next, phase, state, client,
                    seen, given, late, items, upstream, template>>
  \/ /\ unit = "stored" /\ Stored!Next
     /\ UNCHANGED <<requestOwn, unit, row, strict, sent, got, end, provider, next, phase, state, seen,
                    given, late, items, upstream, route>>

Spec == Init /\ [][Next]_vars

-----------------------------------------------------------------------------
(* ProviderRequest.  Whatever the caller gives, numbers are within the     *)
(* bounds of the provider's table (but the n of Vertex's images, sent as   *)
(* it is given), what the caller sets is not left at a default, what has a *)
(* row is sent, and what is required is there.                             *)
RequestIsFaithful == unit = "request" => RequestKept

(* StreamChunks.  Every text of the provider's stream reaches the client   *)
(* once, whichever chunk carries it; so do tool calls and token counts,    *)
(* but through the functions that build neither (TextOnly, Unmetered),     *)
(* where none arrives.  The finish reason is the provider's (SambaNova's   *)
(* function says stop with every usage), an answer cut off never looks     *)
(* complete and a complete one does (Cohere's completions write neither a  *)
(* finish reason nor [DONE]); only an error of the provider makes a        *)
(* transform throw.                                                        *)
ChunksArrive ==
  unit = "chunks" =>
    /\ PerEvent!TypeOK
    /\ PerEvent!TextArrivesOnce /\ PerEvent!CallsArrive /\ PerEvent!UsageArrives
    /\ PerEvent!FinishIsReal /\ PerEvent!TruncationIsTold /\ PerEvent!CompleteLooksComplete
    /\ PerEvent!OnlyErrorsCut

(* ProviderStreams.  The client of a stream of Anthropic, Bedrock or       *)
(* Gemini ends up with the text, calls, finish reason and usage that the   *)
(* response transform gives for the same answer in one piece, and has only *)
(* prefixes of it before.                                                  *)
StreamAgreesWithWhole ==
  unit = "native" =>
    /\ Native!TypeOK
    /\ Native!StreamAgreesWithWhole /\ Native!StreamUsageIsWhole
    /\ Native!PrefixUntilFinished

=============================================================================
