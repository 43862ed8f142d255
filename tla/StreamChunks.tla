---------------------------- MODULE StreamChunks ----------------------------
(***************************************************************************)
(* The per-provider functions that turn one event of a provider's stream   *)
(* into events of the client's stream (the stream-chatComplete and         *)
(* stream-complete entries of src/gateway/src/providers).  A row of the    *)
(* table below is one such function.  readStream (handlers/                *)
(* streamHandler.ts) calls it for every event; when it throws, the         *)
(* client's stream is closed where it stands, without a word to the client.*)
(*                                                                         *)
(* A row says which events it skips, what it does with [DONE], how it      *)
(* reads choices, which parts of a delta, of the finish reason and of the  *)
(* usage it passes on, and whether it writes [DONE] itself.  The providers *)
(* are external: they send texts and tool calls, one last chunk with a     *)
(* finish reason (with the usage or not), a chunk with the usage alone     *)
(* when the request asked for it, and [DONE] if that is their protocol;    *)
(* they may fail or hang up at any point.  ProviderStreams has the         *)
(* functions that keep state between events (Anthropic, Google, Bedrock    *)
(* Converse).                                                              *)
(***************************************************************************)
EXTENDS Integers, Sequences

CONSTANTS
  MaxText,      \* texts of an answer
  MaxCalls      \* tool call deltas of an answer

-----------------------------------------------------------------------------
(* The table.                                                              *)

Base ==
  [skips |-> {}, done |-> "forward", choices |-> "strict",
   delta |-> {"text", "call"}, finish |-> "kept", usage |-> "dropped",
   closes |-> FALSE, caught |-> FALSE, error |-> "hidden",
   \* what the provider does: tools and usage chunks are sent only where the
   \* request table of the provider lets the caller ask for them
   tools |-> FALSE, asks |-> FALSE, last |-> "empty", ends |-> TRUE,
   \* it may give the usage in a field of its own (x_groq) of the last chunk
   aside |-> FALSE]

AI302ChatCompleteStreamChunkTransform == [Base EXCEPT !.choices = "optional", !.caught = TRUE]

AIBadgrChatCompleteStreamChunkTransform ==
  [Base EXCEPT !.choices = "each", !.usage = "kept", !.caught = TRUE, !.tools = TRUE, !.asks = TRUE]

AnthropicCompleteStreamChunkTransform ==
  [Base EXCEPT !.skips = {"ping"}, !.done = "bare", !.choices = "own", !.finish = "mapped",
               !.last = "text", !.ends = FALSE]

AnyscaleChatCompleteStreamChunkTransform == [Base EXCEPT !.choices = "whole", !.tools = TRUE]

AnyscaleCompleteStreamChunkTransform == [Base EXCEPT !.choices = "whole"]

(* The chunk that ends a Bedrock answer carries the token counts; [DONE]   *)
(* is the gateway's.  Cohere repeats the whole text in it.                 *)
BedrockLast == [Base EXCEPT !.choices = "own", !.usage = "kept", !.closes = TRUE, !.ends = FALSE]

BedrockAnthropicCompleteStreamChunkTransform == [BedrockLast EXCEPT !.last = "text"]

BedrockLlamaCompleteStreamChunkTransform == [BedrockLast EXCEPT !.delta = {"text", "notlast"}]

BedrockMistralCompleteStreamChunkTransform == [BedrockLast EXCEPT !.last = "text"]

BedrockCohereCompleteStreamChunkTransform ==
  [BedrockLast EXCEPT !.delta = {"text", "notlast"}, !.last = "whole"]

BedrockCohereChatCompleteStreamChunkTransform ==
  [BedrockLast EXCEPT !.delta = {"text", "notlast"}, !.last = "whole"]

CohereChatCompleteStreamChunkTransform ==
  [Base EXCEPT !.skips = {"ping"}, !.choices = "own", !.finish = "mapped", !.usage = "kept",
               !.closes = TRUE, !.tools = TRUE, !.ends = FALSE]

CohereCompleteStreamChunkTransform ==
  [Base EXCEPT !.choices = "own", !.delta = {"text", "notlast"}, !.finish = "skipped",
               !.last = "whole", !.ends = FALSE]

CometAPIChatCompleteStreamChunkTransform ==
  [Base EXCEPT !.choices = "whole", !.usage = "kept", !.caught = TRUE, !.error = "told",
               !.tools = TRUE, !.asks = TRUE]

DeepInfraChatCompleteStreamChunkTransform ==
  [Base EXCEPT !.skips = {"comment"}, !.usage = "kept"]

DeepSeekChatCompleteStreamChunkTransform ==
  [Base EXCEPT !.finish = "mapped", !.usage = "kept"]

FireworksAIChatCompleteStreamChunkTransform == [Base EXCEPT !.usage = "kept", !.tools = TRUE]

FireworksAICompleteStreamChunkTransform == [Base EXCEPT !.usage = "kept"]

GroqChatCompleteStreamChunkTransform ==
  [Base EXCEPT !.choices = "whole", !.usage = "kept", !.tools = TRUE, !.asks = TRUE,
               !.aside = TRUE]

HuggingfaceChatCompleteStreamChunkTransform ==
  [Base EXCEPT !.skips = {"ping"}, !.choices = "whole", !.usage = "kept", !.error = "told",
               !.tools = TRUE]

HuggingfaceCompleteStreamChunkTransform ==
  [Base EXCEPT !.skips = {"ping"}, !.choices = "whole", !.usage = "kept", !.error = "told"]

(* Reads message where a stream has delta, and the usage of every chunk: a *)
(* chunk without usage is passed on as it came by the catch.               *)
HyperbolicChatCompleteStreamChunkTransform ==
  [Base EXCEPT !.delta = {}, !.usage = "required", !.caught = TRUE, !.tools = TRUE, !.asks = TRUE]

LatitudeChatCompleteStreamChunkTransform ==
  [Base EXCEPT !.finish = "mapped", !.usage = "kept", !.tools = TRUE]

LemonfoxAIChatCompleteStreamChunkTransform == Base

LeptonChatCompleteStreamChunkTransform == [Base EXCEPT !.caught = TRUE, !.tools = TRUE, !.asks = TRUE]

LeptonCompleteStreamChunkTransform ==
  [Base EXCEPT !.choices = "each", !.caught = TRUE, !.asks = TRUE]

LingyiChatCompleteStreamChunkTransform == Base

GetMistralAIChatCompleteStreamChunkTransform ==
  [Base EXCEPT !.finish = "mapped", !.usage = "kept", !.tools = TRUE]

MoonshotChatCompleteStreamChunkTransform == Base

NCompassChatCompleteStreamChunkTransform == Base

NovitaAIChatCompleteStreamChunkTransform ==
  [Base EXCEPT !.choices = "optional", !.delta = {"text"}, !.finish = "blank", !.tools = TRUE]

NovitaAICompleteStreamChunkTransform ==
  [Base EXCEPT !.choices = "optional", !.delta = {"text"}, !.finish = "blank"]

OllamaChatCompleteStreamChunkTransform == [Base EXCEPT !.choices = "whole", !.tools = TRUE]

OpenrouterChatCompleteStreamChunkTransform ==
  [Base EXCEPT !.skips = {"comment"}, !.choices = "safe", !.usage = "kept", !.tools = TRUE,
               !.asks = TRUE]

OracleChatCompleteStreamChunkTransform ==
  [Base EXCEPT !.skips = {"ping"}, !.done = "bare", !.choices = "own", !.delta = {"text"},
               !.closes = TRUE, !.tools = TRUE, !.ends = FALSE]

OVHcloudChatCompleteStreamChunkTransform ==
  [Base EXCEPT !.choices = "whole", !.usage = "kept", !.error = "told", !.tools = TRUE,
               !.asks = TRUE]

PerplexityAIChatCompleteStreamChunkTransform ==
  [Base EXCEPT !.done = "throws", !.choices = "optional", !.delta = {"text"}, !.usage = "kept",
               !.closes = TRUE, !.ends = FALSE]

PredibaseChatCompleteStreamChunkTransform == [Base EXCEPT !.usage = "kept", !.error = "finish"]

(* The chunk with the usage is always a stop.                              *)
SambaNovaChatCompleteStreamChunkTransform ==
  [Base EXCEPT !.delta = {"text"}, !.usage = "asStop", !.asks = TRUE]

TogetherAIChatCompleteStreamChunkTransform ==
  [Base EXCEPT !.skips = {"comment"}, !.choices = "optional", !.delta = {"text"},
               !.finish = "mapped", !.tools = TRUE]

TogetherAICompleteStreamChunkTransform ==
  [Base EXCEPT !.skips = {"comment"}, !.choices = "optional", !.delta = {"text"}, !.finish = "blank"]

VertexLlamaChatCompleteStreamChunkTransform ==
  [Base EXCEPT !.done = "throws", !.choices = "whole", !.usage = "kept", !.error = "told",
               !.ends = FALSE]

WorkersAiChatCompleteStreamChunkTransform ==
  [Base EXCEPT !.choices = "own", !.delta = {"text"}, !.finish = "blank", !.last = "none"]

WorkersAiCompleteStreamChunkTransform == WorkersAiChatCompleteStreamChunkTransform

ZhipuChatCompleteStreamChunkTransform == Base

(* All of them; functions that do the same are one row.                    *)
Rows ==
  {
    AI302ChatCompleteStreamChunkTransform, AIBadgrChatCompleteStreamChunkTransform,
    AnthropicCompleteStreamChunkTransform, AnyscaleChatCompleteStreamChunkTransform,
    AnyscaleCompleteStreamChunkTransform, BedrockAnthropicCompleteStreamChunkTransform,
    BedrockLlamaCompleteStreamChunkTransform, BedrockMistralCompleteStreamChunkTransform,
    BedrockCohereCompleteStreamChunkTransform, BedrockCohereChatCompleteStreamChunkTransform,
    CohereChatCompleteStreamChunkTransform, CometAPIChatCompleteStreamChunkTransform,
    DeepInfraChatCompleteStreamChunkTransform, DeepSeekChatCompleteStreamChunkTransform,
    FireworksAIChatCompleteStreamChunkTransform, FireworksAICompleteStreamChunkTransform,
    GroqChatCompleteStreamChunkTransform, HuggingfaceChatCompleteStreamChunkTransform,
    HuggingfaceCompleteStreamChunkTransform, HyperbolicChatCompleteStreamChunkTransform,
    LatitudeChatCompleteStreamChunkTransform, LemonfoxAIChatCompleteStreamChunkTransform,
    LeptonChatCompleteStreamChunkTransform, LeptonCompleteStreamChunkTransform,
    LingyiChatCompleteStreamChunkTransform, GetMistralAIChatCompleteStreamChunkTransform,
    MoonshotChatCompleteStreamChunkTransform, NCompassChatCompleteStreamChunkTransform,
    NovitaAICompleteStreamChunkTransform, OllamaChatCompleteStreamChunkTransform,
    OpenrouterChatCompleteStreamChunkTransform, OVHcloudChatCompleteStreamChunkTransform,
    PerplexityAIChatCompleteStreamChunkTransform, PredibaseChatCompleteStreamChunkTransform,
    SambaNovaChatCompleteStreamChunkTransform, TogetherAICompleteStreamChunkTransform,
    VertexLlamaChatCompleteStreamChunkTransform, WorkersAiChatCompleteStreamChunkTransform,
    WorkersAiCompleteStreamChunkTransform, ZhipuChatCompleteStreamChunkTransform,
    NovitaAIChatCompleteStreamChunkTransform, OracleChatCompleteStreamChunkTransform,
    TogetherAIChatCompleteStreamChunkTransform, CohereCompleteStreamChunkTransform
  }

(* The functions that build a delta of its text alone, although the        *)
(* provider's request table takes tools: the client of a stream never      *)
(* sees the calls.                                                         *)
TextOnly ==
  {NovitaAIChatCompleteStreamChunkTransform, OracleChatCompleteStreamChunkTransform,
   TogetherAIChatCompleteStreamChunkTransform}

(* The functions that build an event without token counts.                 *)
Unmetered == {r \in Rows : r.usage = "dropped"}

-----------------------------------------------------------------------------
VARIABLES
  row,      \* the function this stream goes through
  strict,   \* strictOpenAiCompliance of the request
  sent,     \* what the provider has sent so far
  got,      \* what the client has received so far
  end       \* of the client's stream: "open", "closed", or "cut" by an exception

vars == <<row, strict, sent, got, end>>

Reasons == {"stop", "length", "tool_calls", "other"}

(* One event of the provider's stream.                                     *)
Event ==
  [kind : {"chunk", "comment", "ping", "error", "done"},
   text : 0..MaxText, call : 0..1, finish : Reasons \cup {"none"}, usage : BOOLEAN,
   choices : BOOLEAN, aside : BOOLEAN]

Plain(kind) ==
  [kind |-> kind, text |-> 0, call |-> 0, finish |-> "none", usage |-> FALSE, choices |-> FALSE,
   aside |-> FALSE]

Chunk(text, call, finish, usage) ==
  [kind |-> "chunk", text |-> text, call |-> call, finish |-> finish, usage |-> usage,
   choices |-> TRUE, aside |-> FALSE]

(* A reason the map does not know is a stop for a client that asked for    *)
(* strict compliance.                                                      *)
TransformFinishReason(reason) == IF strict /\ reason = "other" THEN "stop" ELSE reason

(* Whether the function throws on e.  JSON.parse throws on what is not     *)
(* JSON; reading choices[0] throws when there is none.                     *)
Throws(e) ==
  CASE e.kind \in {"comment", "ping"} -> e.kind \notin row.skips
    [] e.kind = "done" -> row.done = "throws"
    [] e.kind = "error" -> row.choices \in {"strict", "optional", "each"} /\ row.error # "finish"
    [] OTHER -> \/ ~e.choices /\ row.choices = "strict" /\ row.usage # "asStop"
                \/ ~e.usage /\ row.usage = "required"
                \/ ~e.choices /\ e.aside

Nothing == [text |-> 0, call |-> 0, finish |-> "none", usage |-> FALSE, done |-> 0, junk |-> FALSE, error |-> FALSE]

(* The event as it came: all of a chunk, or the error the provider wrote.  *)
Raw(e) ==
  IF e.kind = "chunk"
    THEN [Nothing EXCEPT !.text = e.text, !.call = e.call, !.finish = e.finish, !.usage = e.usage]
    ELSE [Nothing EXCEPT !.error = TRUE]

FinishOut(e) ==
  CASE e.finish = "none" -> "none"
    [] row.finish = "kept" -> e.finish
    [] row.finish = "mapped" -> TransformFinishReason(e.finish)
    [] row.finish \in {"blank", "skipped"} -> "none"

UsageOut(e) == e.usage /\ row.usage # "dropped"

(* What the function writes for a chunk.                                   *)
Written(e) ==
  LET last == e.finish # "none"
      texts == IF "text" \in row.delta /\ ~(last /\ "notlast" \in row.delta) THEN e.text ELSE 0
      calls == IF "call" \in row.delta THEN e.call ELSE 0
  IN  IF row.usage = "asStop" /\ e.usage
        THEN [Nothing EXCEPT !.finish = "stop", !.usage = TRUE]
      ELSE IF e.aside
        THEN [Nothing EXCEPT !.finish = e.finish, !.usage = TRUE]
      ELSE [Nothing EXCEPT !.text = texts, !.call = calls, !.finish = FinishOut(e),
                     !.usage = UsageOut(e), !.done = IF last /\ row.closes THEN 1 ELSE 0]

\* Mutant: every error is told as a finish of its own.
MutOut(e) ==
  CASE e.kind = "chunk" -> Written(e)
    [] e.kind = "done" -> IF row.done = "forward" THEN [Nothing EXCEPT !.done = 1]
                                                  ELSE [Nothing EXCEPT !.junk = TRUE]
    [] e.kind = "error" -> [Nothing EXCEPT !.error = row.error # "hidden",
                                           !.finish = "stop"]
    [] OTHER -> Nothing

Out(e) ==
  CASE e.kind = "chunk" -> Written(e)
    [] e.kind = "done" -> IF row.done = "forward" THEN [Nothing EXCEPT !.done = 1]
                                                  ELSE [Nothing EXCEPT !.junk = TRUE]
    [] e.kind = "error" -> [Nothing EXCEPT !.error = row.error # "hidden",
                                           !.finish = IF row.error = "finish" THEN "error" ELSE "none"]
    [] OTHER -> Nothing

Add(o) ==
  got' = [text |-> got.text + o.text, call |-> got.call + o.call,
          finish |-> IF o.finish = "none" THEN got.finish ELSE o.finish,
          usage |-> got.usage \/ o.usage, done |-> got.done + o.done,
          junk |-> got.junk \/ o.junk, error |-> got.error \/ o.error,
          late |-> got.late \/ (got.done > 0 /\ o # Nothing)]

(* readStream hands an event to the function; an exception closes the      *)
(* client's stream where it is.                                            *)
ReadStream(e) ==
  /\ end = "open"
  /\ IF ~Throws(e) THEN Add(Out(e)) /\ end' = end
     ELSE IF row.caught THEN Add(Raw(e)) /\ end' = end
     ELSE end' = "cut" /\ UNCHANGED got
  /\ UNCHANGED <<row, strict>>

Init ==
  /\ row \in Rows
  /\ strict \in BOOLEAN
  /\ sent = [text |-> 0, call |-> 0, finish |-> "none", usage |-> FALSE, done |-> FALSE, error |-> FALSE]
  /\ got = [text |-> 0, call |-> 0, finish |-> "none", usage |-> FALSE, done |-> 0, junk |-> FALSE,
            error |-> FALSE, late |-> FALSE]
  /\ end = "open"

-----------------------------------------------------------------------------
(* The provider.                                                           *)

Talking == sent.finish = "none" /\ ~sent.done /\ ~sent.error

SendText ==
  /\ Talking /\ sent.text < MaxText
  /\ ReadStream(Chunk(1, 0, "none", FALSE))
  /\ sent' = [sent EXCEPT !.text = @ + 1]

SendCall ==
  /\ Talking /\ row.tools /\ sent.call < MaxCalls
  /\ ReadStream(Chunk(0, 1, "none", FALSE))
  /\ sent' = [sent EXCEPT !.call = @ + 1]

(* The chunk that finishes the answer, with its usage (Groq's in x_groq or *)
(* not) or without.  It carries no text, the last text, or once more the   *)
(* whole text.                                                             *)
SendFinish ==
  \E reason \in Reasons, usage, aside \in BOOLEAN :
    /\ aside => usage /\ row.aside
    /\ Talking /\ row.last # "none"
    /\ row.last = "text" => sent.text < MaxText
    /\ LET text == CASE row.last = "text" -> 1
                     [] row.last = "whole" -> sent.text
                     [] OTHER -> 0
       IN  /\ ReadStream([Chunk(text, 0, reason, usage) EXCEPT !.aside = aside])
           /\ sent' = [sent EXCEPT !.finish = reason, !.usage = usage,
                                   !.text = IF row.last = "text" THEN @ + 1 ELSE @]

(* The usage in a chunk of its own, which has no choices.                  *)
SendUsage ==
  /\ row.asks /\ sent.finish # "none" /\ ~sent.usage /\ ~sent.done /\ ~sent.error
  /\ ReadStream([Chunk(0, 0, "none", TRUE) EXCEPT !.choices = FALSE])
  /\ sent' = [sent EXCEPT !.usage = TRUE]

(* What keeps the connection alive while the model is busy, from the       *)
(* providers whose functions know of it.                                   *)
SendKeepAlive ==
  \E kind \in {"comment", "ping"} :
    /\ Talking
    /\ kind \in row.skips
    /\ ReadStream(Plain(kind))
    /\ UNCHANGED sent

SendError ==
  /\ ~sent.done /\ ~sent.error /\ row.choices # "own"
  /\ ReadStream(Plain("error"))
  /\ sent' = [sent EXCEPT !.error = TRUE]

SendDone ==
  /\ row.ends /\ ~sent.done /\ ~sent.error
  /\ sent.finish # "none" \/ row.last = "none"
  /\ ReadStream(Plain("done"))
  /\ sent' = [sent EXCEPT !.done = TRUE]

(* The provider's stream ends, wherever it is, and so does the client's.   *)
HangUp ==
  /\ end = "open"
  /\ end' = "closed"
  /\ UNCHANGED <<row, strict, sent, got>>

Next ==
  \/ SendText \/ SendCall \/ SendFinish \/ SendUsage \/ SendKeepAlive \/ SendError \/ SendDone
  \/ HangUp

Spec == Init /\ [][Next]_vars

-----------------------------------------------------------------------------
(* The shapes of what was sent and received.                               *)
TypeOK ==
  /\ row \in Rows /\ strict \in BOOLEAN
  /\ sent \in [text : 0..MaxText, call : 0..MaxCalls, finish : Reasons \cup {"none"},
               usage : BOOLEAN, done : BOOLEAN, error : BOOLEAN]
  /\ got \in [text : 0..MaxText, call : 0..MaxCalls, finish : Reasons \cup {"none", "error"},
              usage : BOOLEAN, done : 0..1, junk : BOOLEAN, error : BOOLEAN, late : BOOLEAN]
  /\ end \in {"open", "closed", "cut"}

(* The provider said that its answer is complete.                          *)
Complete == sent.finish # "none" \/ sent.done

(* What tells a client (and the gateway's own telemetry) that an answer is *)
(* complete: [DONE], or a finish reason.                                   *)
LooksComplete == got.done = 1 \/ got.finish \notin {"none", "error"}

(* Every text the provider sent has reached the client once, the text of   *)
(* the last chunk too, whether or not that chunk repeats what came before. *)
TextArrivesOnce == end # "cut" => got.text = sent.text

(* Where the caller may give tools, the calls the model makes reach the    *)
(* client of a stream as well.  The three functions of TextOnly lose every *)
(* call: their client is never given one.                                  *)
CallsArrive == end # "cut" => got.call = IF row \in TextOnly THEN 0 ELSE sent.call

(* The client's finish reason is the provider's: an answer cut short by    *)
(* its length is not shown as one that stopped by itself.  SambaNova's     *)
(* function, which says stop with every usage it is given, is excepted.    *)
FinishIsReal ==
  row.usage # "asStop" =>
    got.finish \in {"none", sent.finish}
               \cup (IF strict /\ sent.finish = "other" THEN {"stop"} ELSE {})
               \cup (IF sent.error THEN {"error"} ELSE {})

(* An answer that was cut off, by the provider or by a function that       *)
(* threw, never looks complete to the client.                              *)
TruncationIsTold == LooksComplete => Complete

(* Only an error of the provider makes a function throw: no event of an    *)
(* ordinary stream, a keep-alive that the provider is known to send        *)
(* included, takes the rest of the answer from the client.                 *)
OnlyErrorsCut == end = "cut" => sent.error

(* A complete stream looks complete; Cohere's completions function, which  *)
(* writes neither a finish reason nor [DONE], is excepted.                 *)
CompleteLooksComplete ==
  /\ row # CohereCompleteStreamChunkTransform /\ end = "closed" /\ Complete
  /\ ~sent.error /\ (row.ends => sent.done)
  => LooksComplete

(* The token counts reach the client (and the telemetry, which reads the   *)
(* client's stream), in whichever chunk they came, unless the function is  *)
(* one of Unmetered: those lose the counts of the chunks they rewrite, and *)
(* make none up.                                                           *)
UsageArrives ==
  end # "cut" => IF row \in Unmetered THEN got.usage => sent.usage ELSE got.usage = sent.usage
=============================================================================
