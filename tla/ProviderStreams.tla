-------------------------- MODULE ProviderStreams --------------------------
(***************************************************************************)
(* How the gateway turns a provider's answer into an OpenAI completion,    *)
(* streamed and in one piece: the response and stream chunk transforms of  *)
(* Anthropic, Bedrock Converse and Gemini                                  *)
(* (gateway/src/providers/{anthropic,bedrock,google}/chatComplete.ts).     *)
(* The stream transforms see one event at a time and keep what they need   *)
(* of the earlier ones in streamState; the client puts the chunks together *)
(* again.                                                                  *)
(*                                                                         *)
(* An answer is a sequence of blocks, a block a number of pieces; piece i  *)
(* of block b is <<b, i>>.                                                 *)
(***************************************************************************)
EXTENDS Integers, Sequences, SequencesExt

CONSTANTS Providers,    \* subset of {"anthropic", "bedrock", "gemini"}
          MaxBlocks, MaxPieces

VARIABLES provider, strict,
          answer,   \* [blocks, stop, usage, finishMessage]
          next,     \* the piece of the answer the provider sends next
          phase,    \* of the provider's stream
          state,    \* streamState
          client    \* what the client has put together

vars == <<provider, strict, answer, next, phase, state, client>>

Unset == "none"
NoState == [toolIndex |-> -1, inServerToolBlock |-> FALSE, usage |-> Unset,
            stopReason |-> Unset, hadToolCalls |-> FALSE]
NoView == [text |-> << >>, calls |-> << >>, finish |-> Unset, usage |-> Unset, done |-> 0]

-----------------------------------------------------------------------------
KindsOf(p) ==
    CASE p = "anthropic" -> {"text", "tool", "server_tool", "thinking"}
      [] OTHER -> {"text", "tool", "thinking"}

\* A function call of Gemini comes in one part.
BlocksOf(p) ==
    {b \in [kind : KindsOf(p), size : 1..MaxPieces] :
        p = "gemini" /\ b.kind = "tool" => b.size = 1}

\* Reasons of the provider; Gemini ends a turn with calls as any other.
StopsOf(p) == IF p = "gemini" THEN {"END", "MAX"} ELSE {"END", "TOOL_USE", "MAX"}

\* Tokens of the prompt, read from and written to the prompt cache, of the
\* output and of thoughts: bits, so that one left out or counted twice shows.
UsagesOf(p) ==
    {[input |-> 1, read |-> r, written |-> w, output |-> o, thoughts |-> t] :
        r \in {0, 2}, w \in IF p = "gemini" THEN {0} ELSE {0, 4},
        o \in IF p = "gemini" THEN {0, 8} ELSE {8},
        t \in IF p = "gemini" THEN {0, 16} ELSE {0}}

Answers(p) ==
    [blocks : UNION {[1..n -> BlocksOf(p)] : n \in 0..MaxBlocks},
     stop : StopsOf(p), usage : UsagesOf(p),
     finishMessage : IF p = "gemini" THEN BOOLEAN ELSE {FALSE}]

\* Where the stream and its transform are.
TypeOK ==
    /\ phase \in {"start", "blocks", "stopped", "ended", "broken"}
    /\ next.block \in 1..(Len(answer.blocks) + 1)
    /\ state.toolIndex \in -1..MaxBlocks
    /\ Len(client.calls) <= MaxBlocks /\ client.done \in {0, 1}

Init ==
    /\ provider \in Providers /\ strict \in BOOLEAN
    /\ answer \in Answers(provider)
    /\ next = [block |-> 1, piece |-> 0] /\ phase = "start"
    /\ state = NoState /\ client = NoView

-----------------------------------------------------------------------------
\* transformFinishReason and transformGeminiFinishReason.
FinishReason(p, stop, isStrict, hasCalls) ==
    IF ~isStrict THEN stop
    ELSE IF p = "gemini" /\ hasCalls /\ stop = "END" THEN "tool_calls"
    ELSE CASE stop = "TOOL_USE" -> "tool_calls"
           [] stop = "MAX" -> "length"
           [] OTHER -> "stop"

\* prompt_tokens, cached_tokens and completion_tokens; Gemini counts the
\* cached tokens among those of the prompt.
UsageOf(p, u) ==
    [prompt |-> IF p = "gemini" THEN u.input ELSE u.input + u.read + u.written,
     cached |-> u.read, completion |-> u.output + u.thoughts]

PiecesOf(a, b) == [i \in 1..a.blocks[b].size |-> <<b, i>>]
BlocksOfKind(a, kind) ==
    SelectSeq([b \in 1..Len(a.blocks) |-> b], LAMBDA b : a.blocks[b].kind = kind)

\* The text of an answer in one piece; Bedrock puts a line break between the
\* text blocks, which the pieces do not show.
WholeText(a) ==
    LET texts == BlocksOfKind(a, "text") IN
    FlattenSeq([k \in DOMAIN texts |-> PiecesOf(a, texts[k])])

WholeCalls(a) ==
    LET tools == BlocksOfKind(a, "tool") IN
    [k \in DOMAIN tools |-> PiecesOf(a, tools[k])]

FinishMessage == <<0, 0>>

\* The response transforms: the completion of an answer that is not streamed.
Whole(p, a, isStrict) ==
    LET text == WholeText(a)  calls == WholeCalls(a) IN
    [text |-> IF a.finishMessage /\ text = << >> /\ calls = << >>
              THEN <<FinishMessage>> ELSE text,
     calls |-> calls,
     finish |-> FinishReason(p, a.stop, isStrict, calls # << >>),
     usage |-> UsageOf(p, a.usage)]

-----------------------------------------------------------------------------
\* What the client does with a chunk.
AddText(view, pieces) == [view EXCEPT !.text = @ \o pieces]

\* A tool call delta goes to the call of its index; a new index starts one.
\* An index below 0 is not a call.
AddCall(view, index, pieces) ==
    IF index < 0 THEN view
    ELSE IF index < Len(view.calls)
    THEN [view EXCEPT !.calls[index + 1] = @ \o pieces]
    ELSE [view EXCEPT !.calls = Append(@, pieces)]

Finish(view, reason, usage) == [view EXCEPT !.finish = reason, !.usage = usage]

\* The next piece to send; piece 0 is the start of a block.
Advance(n) ==
    IF n.piece < answer.blocks[n.block].size
    THEN [n EXCEPT !.piece = @ + 1]
    ELSE [block |-> n.block + 1, piece |-> 0]

Kind == answer.blocks[next.block].kind
AllSent == next.block > Len(answer.blocks)

-----------------------------------------------------------------------------
\* Anthropic.  message_start carries the usage of the prompt.
AnthropicStart ==
    /\ provider = "anthropic" /\ phase = "start"
    /\ state' = [state EXCEPT !.usage = answer.usage]
    /\ phase' = "blocks"
    /\ UNCHANGED <<client, next>>

\* content_block_start and content_block_delta: a tool_use block opens the
\* next call, its input follows as partial_json.  So does the input of a
\* server tool, which is no call of the client's.
AnthropicBlock ==
    /\ provider = "anthropic" /\ phase = "blocks" /\ ~AllSent
    /\ next' = Advance(next) /\ UNCHANGED phase
    /\ LET piece == <<<<next.block, next.piece>>>>
           partialJson == Kind \in {"tool", "server_tool"} IN
       IF next.piece = 0
         THEN /\ state' = [state EXCEPT !.toolIndex = IF Kind = "tool" THEN @ + 1 ELSE @,
                                        !.inServerToolBlock = (Kind = "server_tool")]
              /\ client' = IF Kind = "tool" THEN AddCall(client, state.toolIndex + 1, << >>)
                           ELSE client
         ELSE /\ UNCHANGED state
              /\ client' = IF Kind = "text" THEN AddText(client, piece)
                           ELSE IF partialJson /\ ~state.inServerToolBlock
                           THEN AddCall(client, state.toolIndex, piece)
                           ELSE client

\* The usage of message_delta; what it leaves out, message_start had.
AnthropicUsage(given) ==
    [f \in DOMAIN answer.usage |->
        IF f \in given \cup {"output", "thoughts"} THEN answer.usage[f] ELSE state.usage[f]]

AnthropicDelta ==
    /\ provider = "anthropic" /\ phase = "blocks" /\ AllSent
    /\ \E given \in {{}, {"input"}, {"input", "read", "written"}} :
         client' = Finish(client, FinishReason(provider, answer.stop, strict, FALSE),
                          UsageOf(provider, AnthropicUsage(given)))
    /\ phase' = "stopped"
    /\ UNCHANGED <<state, next>>

\* message_stop is [DONE].
AnthropicStop ==
    /\ provider = "anthropic" /\ phase = "stopped"
    /\ client' = [client EXCEPT !.done = @ + 1] /\ phase' = "ended"
    /\ UNCHANGED <<state, next>>

\* An error event: its type is the finish reason, and [DONE] follows.
AnthropicError ==
    /\ provider = "anthropic" /\ phase \in {"start", "blocks"}
    /\ client' = [client EXCEPT !.finish = "error", !.done = @ + 1]
    /\ phase' = "broken"
    /\ UNCHANGED <<state, next>>

-----------------------------------------------------------------------------

\* Bedrock.  contentBlockStart is sent for tools only and opens a call.
BedrockBlock ==
    /\ provider = "bedrock" /\ phase \in {"start", "blocks"} /\ ~AllSent
    /\ phase' = "blocks" /\ next' = Advance(next)
    /\ LET piece == <<<<next.block, next.piece>>>> IN
       IF Kind = "tool" /\ next.piece = 0
         THEN /\ state' = [state EXCEPT !.toolIndex = @ + 1]
              /\ client' = AddCall(client, state.toolIndex + 1, << >>)
         ELSE /\ UNCHANGED state
              /\ client' = IF next.piece = 0 THEN client
                           ELSE IF Kind = "tool" THEN AddCall(client, state.toolIndex, piece)
                           ELSE IF Kind = "text" THEN AddText(client, piece)
                           ELSE client

\* messageStop: the reason is kept for the chunk that ends the stream.
BedrockStop ==
    /\ provider = "bedrock" /\ phase \in {"start", "blocks"} /\ AllSent
    /\ state' = [state EXCEPT !.stopReason = answer.stop] /\ phase' = "stopped"
    /\ UNCHANGED <<client, next>>

\* metadata: finish reason, usage and [DONE].
BedrockMetadata ==
    /\ provider = "bedrock" /\ phase = "stopped"
    /\ client' = [Finish(client, FinishReason(provider, state.stopReason, strict, FALSE),
                         UsageOf(provider, answer.usage)) EXCEPT !.done = @ + 1]
    /\ phase' = "ended"
    /\ UNCHANGED <<state, next>>

\* An exception: a chunk without a finish reason (it is put into the delta),
\* and [DONE].
BedrockError ==
    /\ provider = "bedrock" /\ phase \in {"start", "blocks"}
    /\ client' = [client EXCEPT !.done = @ + 1] /\ phase' = "broken"
    /\ UNCHANGED <<state, next>>

-----------------------------------------------------------------------------
SizeOf(bs) == FoldLeft(LAMBDA n, b : n + answer.blocks[b].size, 0, bs)

\* Gemini.  A chunk holds the next n parts of the answer; the start of a block
\* is no part of its own.
PartsLeft ==
    LET left == SelectSeq([b \in DOMAIN answer.blocks |-> b], LAMBDA b : b >= next.block)
    IN SubSeq(FlattenSeq([k \in DOMAIN left |-> PiecesOf(answer, left[k])]),
              next.piece + 1, SizeOf(left))

KindOf(part) == answer.blocks[part[1]].kind

\* Where the provider is after the part.
Behind(part) ==
    IF part[2] = answer.blocks[part[1]].size
    THEN [block |-> part[1] + 1, piece |-> 0]
    ELSE [block |-> part[1], piece |-> part[2]]

\* transformGeminiStreamParts: the text of all parts, and a call for each
\* functionCall, numbered across the stream; thoughts are no content.
GeminiParts(parts, view) ==
    LET text == SelectSeq(parts, LAMBDA q : KindOf(q) = "text")
        calls == SelectSeq(parts, LAMBDA q : KindOf(q) = "tool") IN
    FoldLeft(LAMBDA v, k : AddCall(v, state.toolIndex + k, <<calls[k]>>),
             AddText(view, text), [k \in DOMAIN calls |-> k])

CallsIn(parts) == Len(SelectSeq(parts, LAMBDA q : KindOf(q) = "tool"))

\* The usage is sent when the candidate has tokens.
GeminiUsage ==
    IF answer.usage.output > 0 THEN UsageOf(provider, answer.usage) ELSE Unset

\* Mutant: only calls of the chunk that brings the reason count.
MutGeminiFinish(parts, view) ==
    Finish(view, FinishReason(provider, answer.stop, strict, CallsIn(parts) > 0),
           GeminiUsage)

\* geminiStreamToolCalls: a call in any chunk decides the finish reason.
GeminiFinish(parts, view) ==
    Finish(view, FinishReason(provider, answer.stop, strict,
                              state.hadToolCalls \/ CallsIn(parts) > 0),
           GeminiUsage)

\* A chunk of k parts.  The last one, which may have none, brings the reason,
\* the usage and perhaps a finishMessage: shown when the chunk has no parts.
GeminiChunk(k) ==
    LET parts == SubSeq(PartsLeft, 1, k)
        shown == IF k = 0 /\ answer.finishMessage
                 THEN AddText(client, <<FinishMessage>>)
                 ELSE GeminiParts(parts, client)
        behind == IF k = 0 THEN next ELSE Behind(Last(parts))
        last == behind.block > Len(answer.blocks) IN
    /\ provider = "gemini" /\ phase \in {"start", "blocks"}
    /\ k <= Len(PartsLeft) /\ (k = 0 => AllSent)
    /\ next' = behind
    /\ state' = [state EXCEPT !.toolIndex = @ + CallsIn(parts),
                              !.hadToolCalls = @ \/ CallsIn(parts) > 0]
    /\ \/ phase' = "blocks" /\ k > 0 /\ client' = shown
       \/ phase' = "ended" /\ last /\ client' = GeminiFinish(parts, shown)

-----------------------------------------------------------------------------
Ended == phase \in {"ended", "broken"} /\ UNCHANGED vars

Next ==
    \/ /\ \/ AnthropicStart \/ AnthropicBlock \/ AnthropicDelta
          \/ AnthropicStop \/ AnthropicError
          \/ BedrockBlock \/ BedrockStop \/ BedrockMetadata \/ BedrockError
          \/ \E k \in 0..(MaxBlocks * MaxPieces) : GeminiChunk(k)
       /\ UNCHANGED <<provider, strict, answer>>
    \/ Ended

Spec == Init /\ [][Next]_vars

-----------------------------------------------------------------------------
\* Streaming does not change the answer: the client that puts the chunks
\* together has the text, the tool calls with their arguments and the finish
\* reason that the response transform gives for the same answer in one piece.
\* (A finishMessage of Gemini aside, which the stream also appends to content.)
StreamAgreesWithWhole ==
    phase = "ended" /\ ~answer.finishMessage =>
        LET whole == Whole(provider, answer, strict) IN
        /\ client.text = whole.text
        /\ client.calls = whole.calls
        /\ client.finish = whole.finish

\* The usage at the end of the stream, on which budgets and telemetry rely, is
\* the usage of the whole answer, whichever counts the last event repeats.
\* (Gemini's stream has none for an answer of thoughts only.)
StreamUsageIsWhole ==
    phase = "ended" /\ answer.usage.output > 0 => client.usage = Whole(provider, answer, strict).usage

\* A client never takes a prefix for the whole: before the end of the stream
\* it has a prefix of the text and of the calls; a finish reason of the model
\* comes when everything has.
PrefixUntilFinished ==
    LET whole == Whole(provider, answer, strict) IN
    /\ ~answer.finishMessage => IsPrefix(client.text, whole.text)
    /\ Len(client.calls) <= Len(whole.calls)
    /\ \A k \in DOMAIN client.calls : IsPrefix(client.calls[k], whole.calls[k])
    /\ client.finish \notin {Unset, "error"} => AllSent
=============================================================================
