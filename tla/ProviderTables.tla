--------------------------- MODULE ProviderTables ---------------------------
(***************************************************************************)
(* The rows of a provider's request table (ParameterConfig in              *)
(* src/gateway/src/providers/types.ts).  A row says which input of the     *)
(* caller it takes, which field of the provider's request it writes, the   *)
(* least and the greatest number allowed, the default, whether the field   *)
(* is required and, when a transform computes the value, which inputs of   *)
(* the caller that transform reads.                                        *)
(*                                                                         *)
(* Numbers are in hundredths, so that 0.7 is 70 and 2 is 200; a greatest   *)
(* value beyond 10^7 (the 2^32 of a seed) is written NoHigh.  Defaults     *)
(* and inputs that are no numbers are all Text.  What a transform builds   *)
(* is kept as the set of inputs it takes from: rewording a message or      *)
(* renaming a role inside the value is left out.                           *)
(***************************************************************************)
EXTENDS Integers, Sequences, SequencesExt

NoLow == -1000000000
NoHigh == 1000000000
Text == 1000000001
NoDefault == 1000000002

-----------------------------------------------------------------------------
(* Constructors.                                                           *)

Row(n) ==
  [from |-> n, to |-> n, lo |-> NoLow, hi |-> NoHigh, def |-> NoDefault,
   req |-> FALSE, kind |-> "copy", reads |-> {n}]

Opt(n) == Row(n)
Req(n) == [Row(n) EXCEPT !.req = TRUE]
Opts(ns) == [i \in DOMAIN ns |-> Opt(ns[i])]
Reqs(ns) == [i \in DOMAIN ns |-> Req(ns[i])]

Def(r, d) == [r EXCEPT !.def = d]
In(r, lo, hi) == [r EXCEPT !.lo = lo, !.hi = hi]
To(r, field) == [r EXCEPT !.to = field]

(* A transform that builds an object, a list or a string.                  *)
Via(r, reads) == [r EXCEPT !.kind = "object", !.reads = reads]

(* The same, by a transform that leaves an input out when it is zero.      *)
ViaNonZero(r, reads) == [r EXCEPT !.kind = "nonzero", !.reads = reads]

(* A transform that returns a number read from the input (the height or    *)
(* the width of a size).                                                   *)
Num(r) == [r EXCEPT !.kind = "number"]

Inputs(rows) == {rows[i].from : i \in DOMAIN rows}

(* {...base, ...extra}: a key of both keeps the base's place.              *)
Override(base, extra) ==
  LET own(n) == SelectSeq(extra, LAMBDA r : r.from = n)
      kept == [i \in DOMAIN base |-> IF base[i].from \in Inputs(extra)
                                       THEN own(base[i].from) ELSE <<base[i]>>]
  IN FlattenSeq(kept) \o SelectSeq(extra, LAMBDA r : r.from \notin Inputs(base))

excludeObjectKeys(keyList, rows) == SelectSeq(rows, LAMBDA r : r.from \notin keyList)

-----------------------------------------------------------------------------
(* What the transforms shared by several rows read.                        *)

GenerationConfig ==
  {"temperature", "top_p", "top_k", "max_tokens", "max_completion_tokens", "stop",
   "response_format", "logprobs", "top_logprobs", "seed", "thinking", "modalities",
   "reasoning_effort", "image_config", "media_resolution"}

InferenceConfig == {"max_tokens", "max_completion_tokens", "stop", "temperature", "top_p"}
MessagesInferenceConfig == {"max_tokens", "temperature", "top_p", "stop_sequences"}
ToolsConfig == {"tools", "tool_choice"}

AdditionalFields ==
  {"additionalModelRequestFields", "additional_model_request_fields", "top_k", "response_format"}
AnthropicFields ==
  {"additionalModelRequestFields", "additional_model_request_fields", "top_k",
   "anthropic_version", "user", "thinking", "response_format", "reasoning_effort",
   "anthropic_beta", "tools"}
CohereFields ==
  {"additionalModelRequestFields", "additional_model_request_fields", "top_k", "n",
   "frequency_penalty", "presence_penalty", "logit_bias"}
AI21Fields ==
  {"additionalModelRequestFields", "additional_model_request_fields", "top_k",
   "frequency_penalty", "presence_penalty", "frequencyPenalty", "presencePenalty",
   "countPenalty"}

TitanConfig == {"temperature", "top_p", "max_tokens", "stop"}
TitanChatConfig == TitanConfig \cup {"max_completion_tokens"}
AnthropicOutputConfig == {"response_format", "reasoning_effort"}
ReasoningParams == {"reasoning", "reasoning_effort"}
UsageOptions == {"usage", "stream_options"}
VertexFinetune == {"training_file", "validation_file", "hyperparameters", "method"}
ImageParameters ==
  {"n", "quality", "style", "aspectRatio", "seed", "negativePrompt", "personGeneration",
   "safetySetting", "addWatermark", "mimeType"}

-----------------------------------------------------------------------------
(* Chat tables: the ParameterConfig rows every provider declares for
   chatComplete, messages and createModelResponse, in the order they are written. *)

AnthropicChatComplete ==
  <<Def(Req("model"), Text), Via(Req("messages"), {"messages"}),
    Via(To(Opt("messages"), "system"), {"messages"}), Via(Opt("tools"), {"tools"}),
    Via(Opt("tool_choice"), {"tool_choice"}), Def(Req("max_tokens"), 6400000),
    To(Opt("max_completion_tokens"), "max_tokens"),
    In(Def(Opt("temperature"), 100), 0, 100), In(Def(Opt("top_p"), -100), -100, NoHigh),
    Def(Opt("top_k"), -100), To(Opt("stop"), "stop_sequences"), Def(Opt("stream"), Text),
    To(Opt("user"), "metadata.user_id"), Opt("thinking"),
    Via(To(Opt("response_format"), "output_config"), AnthropicOutputConfig),
    Via(To(Opt("reasoning_effort"), "output_config"), AnthropicOutputConfig),
    Via(To(Opt("reasoning_effort"), "thinking"), {})>>

BedrockConverseChatComplete ==
  <<Via(Req("messages"), {"messages"}), Via(To(Opt("messages"), "system"), {"messages"}),
    Via(To(Opt("tools"), "toolConfig"), {"model", "tool_choice", "tools"}),
    Opt("guardrailConfig"), To(Opt("guardrail_config"), "guardrailConfig"),
    Opt("additionalModelResponseFieldPaths"),
    To(Opt("additional_model_response_field_paths"), "additionalModelResponseFieldPaths"),
    Via(To(Opt("max_tokens"), "inferenceConfig"), InferenceConfig),
    Via(To(Opt("max_completion_tokens"), "inferenceConfig"), InferenceConfig),
    Via(To(Opt("stop"), "inferenceConfig"), InferenceConfig),
    Via(To(Opt("temperature"), "inferenceConfig"), InferenceConfig),
    Via(To(Opt("top_p"), "inferenceConfig"), InferenceConfig),
    Via(Opt("additionalModelRequestFields"), AdditionalFields),
    Via(To(Opt("additional_model_request_fields"), "additionalModelRequestFields"), AdditionalFields),
    To(Opt("performance_config"), "performanceConfig")>>

OpenAIChatComplete ==
  <<Def(Req("model"), Text), Def(Opt("messages"), Text)>> \o Opts(<<"functions",
    "function_call">>) \o <<In(Def(Opt("max_tokens"), 10000), 0, NoHigh),
    In(Def(Opt("temperature"), 100), 0, 200), In(Def(Opt("top_p"), 100), 0, 100),
    Def(Opt("n"), 100), Def(Opt("stream"), Text), Opt("stop"),
    In(Opt("presence_penalty"), -200, 200), In(Opt("frequency_penalty"), -200, 200)>>
    \o Opts(<<"logit_bias", "user", "seed", "tools", "tool_choice", "response_format">>)
    \o <<Def(Opt("logprobs"), Text)>> \o Opts(<<"top_logprobs", "stream_options",
    "service_tier", "parallel_tool_calls", "max_completion_tokens", "store", "metadata",
    "modalities", "audio", "prediction", "reasoning_effort", "web_search_options",
    "prompt_cache_key", "prompt_cache_retention", "safety_identifier", "verbosity",
    "moderation">>)

MessagesBase ==
  Reqs(<<"model", "messages", "max_tokens">>) \o Opts(<<"container", "mcp_servers",
    "metadata", "service_tier", "stop_sequences", "stream", "system", "temperature",
    "thinking", "tool_choice", "tools", "top_k", "top_p", "output_config">>)

BedrockConverseMessages ==
  <<ViaNonZero(To(Opt("max_tokens"), "inferenceConfig"), MessagesInferenceConfig),
    Via(Opt("messages"), {"messages"}), To(Opt("metadata"), "requestMetadata"),
    ViaNonZero(To(Opt("stop_sequences"), "inferenceConfig"), MessagesInferenceConfig),
    Via(Opt("system"), {"system"}),
    ViaNonZero(To(Opt("temperature"), "inferenceConfig"), MessagesInferenceConfig),
    Via(To(Opt("tool_choice"), "toolChoice"), ToolsConfig),
    Via(To(Opt("tools"), "toolConfig"), ToolsConfig),
    ViaNonZero(To(Opt("top_p"), "inferenceConfig"), MessagesInferenceConfig),
    To(Opt("performance_config"), "performanceConfig")>>

OracleChatDetails ==
  <<To(In(Opt("frequency_penalty"), -200, 200), "frequencyPenalty"),
    Via(Def(Opt("messages"), Text), {"messages"}),
    To(In(Def(Opt("max_tokens"), 10000), 0, NoHigh), "maxTokens"),
    To(In(Def(Opt("max_completion_tokens"), 10000), 0, NoHigh), "maxTokens"),
    To(Opt("n"), "numGenerations"), In(Def(Opt("temperature"), 100), 0, 200),
    Via(To(Opt("tool_choice"), "toolChoice"), {"tool_choice"}),
    Via(Opt("tools"), {"tools"}), To(In(Def(Opt("top_p"), 100), 0, 100), "topP"),
    To(Opt("logit_bias"), "logitBias"), To(Opt("logprobs"), "logProbs"),
    To(In(Opt("presence_penalty"), -200, 200), "presencePenalty"), Opt("seed"),
    To(Def(Opt("stream"), Text), "isStream"), Via(Opt("stop"), {"stop"}),
    To(Opt("compartment_id"), "compartmentId"), To(Opt("serving_mode"), "servingMode"),
    To(Def(Req("api_format"), Text), "apiFormat"), To(Opt("is_echo"), "isEcho"),
    To(Opt("top_k"), "topK")>>

AI302ChatComplete ==
  <<Def(Req("model"), Text), Def(Opt("messages"), Text),
    In(Def(Opt("max_tokens"), 10000), 0, NoHigh),
    In(Def(Opt("temperature"), 100), 0, 200), In(Def(Opt("top_p"), 100), 0, 100),
    Def(Opt("stream"), Text), In(Def(Opt("frequency_penalty"), 0), -200, 200),
    In(Def(Opt("presence_penalty"), 0), -200, 200), Def(Opt("stop"), Text)>>

AI21ChatComplete ==
  <<Via(Req("messages"), {"messages"}), Via(To(Opt("messages"), "system"), {"messages"}),
    To(Def(Opt("n"), 100), "numResults"), To(Def(Opt("max_tokens"), 1600), "maxTokens"),
    To(Def(Opt("max_completion_tokens"), 1600), "maxTokens"), Def(Opt("minTokens"), 0),
    In(Def(Opt("temperature"), 70), 0, 100), To(Def(Opt("top_p"), 100), "topP"),
    To(Def(Opt("top_k"), 0), "topKReturn"), To(Opt("stop"), "stopSequences"),
    Via(To(Opt("presence_penalty"), "presencePenalty"), {"presence_penalty"}),
    Via(To(Opt("frequency_penalty"), "frequencyPenalty"), {"frequency_penalty"})>>
    \o Opts(<<"countPenalty", "frequencyPenalty", "presencePenalty">>)

AnyscaleChatComplete ==
  <<Def(Req("model"), Text), Via(Def(Opt("messages"), Text), {"messages"})>>
    \o Opts(<<"functions", "function_call">>)
    \o <<In(Def(Opt("max_tokens"), 10000), 0, NoHigh),
    To(In(Def(Opt("max_completion_tokens"), 10000), 0, NoHigh), "max_tokens"),
    In(Def(Opt("temperature"), 100), 0, 200), In(Def(Opt("top_p"), 100), 0, 100),
    Def(Opt("n"), 100), Def(Opt("stream"), Text), Opt("stop"),
    In(Opt("presence_penalty"), -200, 200), In(Opt("frequency_penalty"), -200, 200)>>
    \o Opts(<<"logit_bias", "user", "tools", "tool_choice", "response_format">>)
    \o <<Def(Opt("logprobs"), Text), Opt("top_logprobs")>>

AzureAIInferenceChatComplete ==
  <<Opt("model"), Via(Def(Opt("messages"), Text), {"messages"}),
    In(Def(Opt("max_tokens"), 10000), 0, NoHigh),
    In(Def(Opt("max_completion_tokens"), 10000), 0, NoHigh),
    In(Def(Opt("temperature"), 100), 0, 200), In(Def(Opt("top_p"), 100), 0, 100),
    Def(Opt("stream"), Text), Opt("stop"), In(Opt("presence_penalty"), -200, 200),
    In(Opt("frequency_penalty"), -200, 200)>> \o Opts(<<"user", "tools", "tool_choice",
    "response_format">>) \o <<Def(Opt("n"), 100), Def(Opt("logprobs"), Text)>>
    \o Opts(<<"top_logprobs", "logit_bias", "store", "metadata", "modalities", "audio",
    "seed", "prediction", "reasoning_effort", "stream_options", "web_search_options",
    "prompt_cache_key", "prompt_cache_retention", "safety_identifier", "verbosity">>)

AzureOpenAIChatComplete ==
  <<Via(Opt("model"), {"model"}), Def(Opt("messages"), Text)>> \o Opts(<<"functions",
    "function_call">>) \o <<In(Def(Opt("max_tokens"), 10000), 0, NoHigh),
    In(Def(Opt("max_completion_tokens"), 10000), 0, NoHigh),
    In(Def(Opt("temperature"), 100), 0, 200), In(Def(Opt("top_p"), 100), 0, 100),
    Def(Opt("n"), 100), Def(Opt("stream"), Text), Opt("stop"),
    In(Opt("presence_penalty"), -200, 200), In(Opt("frequency_penalty"), -200, 200)>>
    \o Opts(<<"logit_bias", "user", "tools", "tool_choice", "response_format", "store",
    "metadata", "modalities", "audio", "seed", "prediction", "reasoning_effort",
    "stream_options">>) \o <<Def(Opt("logprobs"), Text)>> \o Opts(<<"top_logprobs",
    "web_search_options", "prompt_cache_key", "prompt_cache_retention",
    "safety_identifier", "verbosity">>)

BedrockConverseAnthropicChatComplete ==
  Override(BedrockConverseChatComplete,
    <<Via(Opt("additionalModelRequestFields"), AnthropicFields),
    Via(To(Opt("additional_model_request_fields"), "additionalModelRequestFields"), AnthropicFields),
    Via(To(Opt("top_k"), "additionalModelRequestFields"), AnthropicFields),
    Via(To(Opt("anthropic_version"), "additionalModelRequestFields"), AnthropicFields),
    Via(To(Opt("user"), "additionalModelRequestFields"), AnthropicFields),
    Via(To(Opt("thinking"), "additionalModelRequestFields"), AnthropicFields),
    Via(To(Opt("anthropic_beta"), "additionalModelRequestFields"), AnthropicFields),
    Via(To(Opt("reasoning_effort"), "additionalModelRequestFields"), AnthropicFields),
    Via(To(Opt("response_format"), "additionalModelRequestFields"), AnthropicFields)>>)

BedrockConverseCohereChatComplete ==
  Override(BedrockConverseChatComplete,
    <<ViaNonZero(Opt("additionalModelRequestFields"), CohereFields),
    ViaNonZero(To(Opt("additional_model_request_fields"), "additionalModelRequestFields"), CohereFields),
    ViaNonZero(To(Opt("top_k"), "additionalModelRequestFields"), CohereFields),
    ViaNonZero(To(Opt("frequency_penalty"), "additionalModelRequestFields"), CohereFields),
    ViaNonZero(To(Opt("presence_penalty"), "additionalModelRequestFields"), CohereFields),
    ViaNonZero(To(Opt("logit_bias"), "additionalModelRequestFields"), CohereFields),
    ViaNonZero(To(Opt("n"), "additionalModelRequestFields"), CohereFields)>>)

BedrockConverseAI21ChatComplete ==
  Override(BedrockConverseChatComplete,
    <<ViaNonZero(Opt("additionalModelRequestFields"), AI21Fields),
    ViaNonZero(To(Opt("additional_model_request_fields"), "additionalModelRequestFields"), AI21Fields),
    ViaNonZero(To(Opt("top_k"), "additionalModelRequestFields"), AI21Fields),
    ViaNonZero(To(Opt("frequency_penalty"), "additionalModelRequestFields"), AI21Fields),
    ViaNonZero(To(Opt("presence_penalty"), "additionalModelRequestFields"), AI21Fields),
    ViaNonZero(To(Opt("frequencyPenalty"), "additionalModelRequestFields"), AI21Fields),
    ViaNonZero(To(Opt("presencePenalty"), "additionalModelRequestFields"), AI21Fields),
    ViaNonZero(To(Opt("countPenalty"), "additionalModelRequestFields"), AI21Fields)>>)

BedrockCohereChatComplete ==
  <<Via(To(Req("messages"), "prompt"), {"messages"}),
    In(Def(Opt("max_tokens"), 2000), 100, NoHigh),
    To(In(Def(Opt("max_completion_tokens"), 2000), 100, NoHigh), "max_tokens"),
    In(Def(Opt("temperature"), 75), 0, 500), To(In(Def(Opt("top_p"), 75), 0, 100), "p"),
    To(In(Def(Opt("top_k"), 0), NoLow, 50000), "k"),
    In(Def(Opt("frequency_penalty"), 0), 0, 100),
    In(Def(Opt("presence_penalty"), 0), 0, 100), Opt("logit_bias"),
    To(In(Def(Opt("n"), 100), 100, 500), "num_generations"),
    To(Opt("stop"), "end_sequences"), Opt("stream")>>

BedrockAI21ChatComplete ==
  <<Via(To(Req("messages"), "prompt"), {"messages"}),
    To(Def(Opt("max_tokens"), 20000), "maxTokens"),
    To(Def(Opt("max_completion_tokens"), 20000), "maxTokens"),
    In(Def(Opt("temperature"), 70), 0, 100), To(Def(Opt("top_p"), 100), "topP"),
    To(Opt("stop"), "stopSequences"),
    Via(To(Opt("presence_penalty"), "presencePenalty"), {"presence_penalty"}),
    Via(To(Opt("frequency_penalty"), "frequencyPenalty"), {"frequency_penalty"})>>
    \o Opts(<<"countPenalty", "frequencyPenalty", "presencePenalty">>)

BedrockConverseMessageCountTokens ==
  <<Via(To(Req("messages"), "input"), Inputs(BedrockConverseMessages))>>

BedrockAnthropicMessageCountTokens ==
  <<Via(To(Req("messages"), "input"), Inputs(MessagesBase))>>

BedrockAnthropicBatch ==
  <<Via(Req("messages"), {"messages"}), Via(To(Opt("messages"), "system"), {"messages"}),
    Via(Opt("tools"), {"tools"}), Via(Opt("tool_choice"), {"tool_choice"}),
    Req("max_tokens"), To(Opt("max_completion_tokens"), "max_tokens"),
    In(Def(Opt("temperature"), 100), 0, 100), In(Def(Opt("top_p"), -100), -100, NoHigh),
    Def(Opt("top_k"), -100), Via(To(Opt("stop"), "stop_sequences"), {"stop"}),
    To(Opt("user"), "metadata.user_id"), Def(Req("anthropic_version"), Text)>>

BedrockCohereBatch ==
  <<Via(To(Req("messages"), "prompt"), {"messages"}),
    In(Def(Opt("max_tokens"), 2000), 100, NoHigh),
    To(In(Def(Opt("max_completion_tokens"), 2000), 100, NoHigh), "max_tokens"),
    In(Def(Opt("temperature"), 75), 0, 500), To(In(Def(Opt("top_p"), 75), 0, 100), "p"),
    To(In(Def(Opt("top_k"), 0), NoLow, 50000), "k"),
    In(Def(Opt("frequency_penalty"), 0), 0, 100),
    In(Def(Opt("presence_penalty"), 0), 0, 100), Opt("logit_bias"),
    To(In(Def(Opt("n"), 100), 100, 500), "num_generations"),
    To(Opt("stop"), "end_sequences"), Opt("stream")>>

BedrockLlama2Batch ==
  <<Via(To(Req("messages"), "prompt"), {"messages"}),
    To(In(Def(Opt("max_tokens"), 51200), 100, 204800), "max_gen_len"),
    To(In(Def(Opt("max_completion_tokens"), 51200), 100, 204800), "max_gen_len"),
    In(Def(Opt("temperature"), 50), 0, 100), In(Def(Opt("top_p"), 90), 0, 100)>>

BedrockLlama3Batch ==
  <<Via(To(Req("messages"), "prompt"), {"messages"}),
    To(In(Def(Opt("max_tokens"), 51200), 100, NoHigh), "max_gen_len"),
    In(Def(Opt("temperature"), 50), 0, 100), In(Def(Opt("top_p"), 90), 0, 100)>>

BedrockMistralBatch ==
  <<Via(To(Req("messages"), "prompt"), {"messages"}),
    In(Def(Opt("max_tokens"), 2000), 100, NoHigh),
    To(In(Def(Opt("max_completion_tokens"), 2000), 100, NoHigh), "max_tokens"),
    In(Def(Opt("temperature"), 75), 0, 500), In(Def(Opt("top_p"), 75), 0, 100),
    In(Def(Opt("top_k"), 0), NoLow, 20000), Opt("stop")>>

BedrockTitanBatch ==
  <<Via(To(Req("messages"), "inputText"), {"messages"}),
    ViaNonZero(To(Opt("temperature"), "textGenerationConfig"), TitanChatConfig),
    ViaNonZero(To(Opt("max_tokens"), "textGenerationConfig"), TitanChatConfig),
    ViaNonZero(To(Opt("max_completion_tokens"), "textGenerationConfig"), TitanChatConfig),
    ViaNonZero(To(Opt("top_p"), "textGenerationConfig"), TitanChatConfig)>>

BedrockAI21Batch ==
  <<Via(To(Req("messages"), "prompt"), {"messages"}),
    To(Def(Opt("max_tokens"), 20000), "maxTokens"),
    To(Def(Opt("max_completion_tokens"), 20000), "maxTokens"),
    In(Def(Opt("temperature"), 70), 0, 100), To(Def(Opt("top_p"), 100), "topP"),
    To(Opt("stop"), "stopSequences"),
    Via(To(Opt("presence_penalty"), "presencePenalty"), {"presence_penalty"}),
    Via(To(Opt("frequency_penalty"), "frequencyPenalty"), {"frequency_penalty"})>>
    \o Opts(<<"countPenalty", "frequencyPenalty", "presencePenalty">>)

BytezInferenceChatComplete ==
  <<Req("messages"),
    To(In(Def(Opt("max_tokens"), 10000), 0, NoHigh), "params.max_new_tokens"),
    To(In(Def(Opt("temperature"), 100), 0, 200), "params.temperature"),
    To(In(Def(Opt("top_p"), 100), 0, 100), "params.top_p"), Def(Opt("stream"), Text)>>

CohereChatComplete ==
  <<Def(Opt("stream"), Text), Opt("model"), Via(Req("messages"), {"messages"}),
    Opt("max_tokens"), Via(To(Opt("stop"), "stop_sequences"), {"stop"})>>
    \o Opts(<<"temperature", "seed", "frequency_penalty", "presence_penalty",
    "response_format">>)
    \o <<Via(To(Opt("response_format"), "strict_tools"), {"response_format"}),
    To(Opt("top_p"), "p"), Opt("tools"), Via(Opt("tool_choice"), {"tool_choice"})>>
    \o Opts(<<"documents", "citation_options", "safety_mode", "k", "thinking">>)

CometAPIChatComplete ==
  Override(OpenAIChatComplete, <<Def(Req("model"), Text)>>)

DeepbricksChatComplete ==
  <<Def(Req("model"), Text), Via(Def(Opt("messages"), Text), {"messages"})>>
    \o Opts(<<"functions", "function_call">>)
    \o <<In(Def(Opt("max_tokens"), 10000), 0, NoHigh),
    To(In(Def(Opt("max_completion_tokens"), 10000), 0, NoHigh), "max_tokens"),
    In(Def(Opt("temperature"), 100), 0, 200), In(Def(Opt("top_p"), 100), 0, 100),
    Def(Opt("n"), 100), Def(Opt("stream"), Text), Opt("stop"),
    In(Opt("presence_penalty"), -200, 200), In(Opt("frequency_penalty"), -200, 200)>>
    \o Opts(<<"logit_bias", "user", "seed", "tools", "tool_choice", "response_format">>)
    \o <<Def(Opt("logprobs"), Text)>> \o Opts(<<"top_logprobs", "stream_options">>)

DeepInfraChatComplete ==
  <<Def(Req("model"), Text), Via(Def(Req("messages"), Text), {"messages"}),
    In(Def(Opt("frequency_penalty"), 0), -200, 200),
    In(Def(Opt("max_tokens"), 10000), 100, NoHigh),
    To(In(Def(Opt("max_completion_tokens"), 10000), 100, NoHigh), "max_tokens"),
    In(Def(Opt("n"), 100), 100, 100), In(Def(Opt("presence_penalty"), 0), -200, 200),
    In(Def(Opt("temperature"), 100), 0, 200), In(Def(Opt("top_p"), 100), 0, 100),
    Def(Opt("stop"), Text), Def(Opt("stream"), Text)>>

DeepSeekChatComplete ==
  <<Def(Req("model"), Text), Via(Def(Opt("messages"), Text), {"messages"}),
    Def(Opt("response_format"), Text), In(Def(Opt("max_tokens"), 10000), 0, NoHigh),
    To(In(Def(Opt("max_completion_tokens"), 10000), 0, NoHigh), "max_tokens"),
    In(Def(Opt("temperature"), 100), 0, 200), In(Def(Opt("top_p"), 100), 0, 100),
    Def(Opt("stream"), Text), In(Def(Opt("frequency_penalty"), 0), -200, 200),
    In(Def(Opt("presence_penalty"), 0), -200, 200), Def(Opt("stop"), Text),
    Def(Opt("logprobs"), Text), In(Def(Opt("top_logprobs"), 0), 0, 2000)>>

FireworksAIChatComplete ==
  <<Req("model"), Via(Def(Req("messages"), Text), {"messages"}), Opt("tools"),
    In(Def(Opt("max_tokens"), 20000), 100, NoHigh),
    To(In(Def(Opt("max_completion_tokens"), 20000), 100, NoHigh), "max_tokens"),
    Def(Opt("prompt_truncate_len"), 150000), In(Def(Opt("temperature"), 100), 0, 200),
    In(Def(Opt("top_p"), 100), 0, 100), In(Opt("top_k"), 100, 12800),
    In(Opt("frequency_penalty"), -200, 200), In(Opt("presence_penalty"), -200, 200),
    In(Def(Opt("n"), 100), 100, 12800)>> \o Opts(<<"stop", "response_format">>)
    \o <<Def(Opt("stream"), Text)>> \o Opts(<<"context_length_exceeded_behavior", "user",
    "logprobs", "top_logprobs", "prompt_cache_max_len">>)

VertexGoogleChatComplete ==
  <<Def(Req("model"), Text),
    Via(To(Def(Opt("messages"), Text), "contents"), {"messages", "model"}),
    Via(To(Def(Opt("messages"), Text), "systemInstruction"), {"messages", "model"}),
    Via(To(Opt("temperature"), "generationConfig"), GenerationConfig),
    Via(To(Opt("top_p"), "generationConfig"), GenerationConfig),
    Via(To(Opt("top_k"), "generationConfig"), GenerationConfig),
    Via(To(Opt("max_tokens"), "generationConfig"), GenerationConfig),
    Via(To(Opt("max_completion_tokens"), "generationConfig"), GenerationConfig),
    Via(To(Opt("stop"), "generationConfig"), GenerationConfig),
    Via(To(Opt("response_format"), "generationConfig"), GenerationConfig),
    Via(To(Opt("logprobs"), "generationConfig"), GenerationConfig),
    Via(To(Opt("top_logprobs"), "generationConfig"), GenerationConfig),
    Opt("safety_settings"), Via(Def(Opt("tools"), Text), {"tools"}),
    Via(To(Def(Req("tool_choice"), Text), "tool_config"), {"tool_choice", "tools"}),
    Opt("labels"), Via(To(Opt("thinking"), "generationConfig"), GenerationConfig),
    Via(To(Opt("seed"), "generationConfig"), GenerationConfig),
    Via(To(Opt("modalities"), "generationConfig"), GenerationConfig),
    Via(To(Opt("reasoning_effort"), "generationConfig"), GenerationConfig),
    Via(To(Opt("image_config"), "generationConfig"), GenerationConfig),
    Via(To(Opt("media_resolution"), "generationConfig"), GenerationConfig),
    To(Opt("cached_content"), "cachedContent")>>

VertexAnthropicChatComplete ==
  Override(AnthropicChatComplete,
    <<Via(Def(Req("anthropic_version"), Text), {"anthropic_version"}),
    Via(Opt("model"), {})>>)

VertexLlamaChatComplete ==
  <<Via(Def(Req("model"), Text), {"model"}), Def(Req("messages"), Text),
    In(Def(Opt("max_tokens"), 51200), 100, 204800),
    To(In(Def(Opt("max_completion_tokens"), 51200), 100, 204800), "max_tokens"),
    In(Def(Opt("temperature"), 50), 0, 100), In(Def(Opt("top_p"), 90), 0, 100),
    In(Def(Opt("top_k"), 0), 0, 204800), Def(Opt("stream"), Text)>>

GoogleChatComplete ==
  <<Def(Req("model"), Text),
    Via(To(Def(Opt("messages"), Text), "contents"), {"messages", "model"}),
    Via(To(Def(Opt("messages"), Text), "systemInstruction"), {"messages", "model"}),
    Via(To(Opt("temperature"), "generationConfig"), GenerationConfig),
    Via(To(Opt("top_p"), "generationConfig"), GenerationConfig),
    Via(To(Opt("top_k"), "generationConfig"), GenerationConfig),
    Via(To(Opt("max_tokens"), "generationConfig"), GenerationConfig),
    Via(To(Opt("max_completion_tokens"), "generationConfig"), GenerationConfig),
    Via(To(Opt("stop"), "generationConfig"), GenerationConfig),
    Via(To(Opt("response_format"), "generationConfig"), GenerationConfig),
    Via(To(Opt("logprobs"), "generationConfig"), GenerationConfig),
    Via(To(Opt("top_logprobs"), "generationConfig"), GenerationConfig),
    Via(Def(Opt("tools"), Text), {"tools"}),
    Via(To(Def(Opt("tool_choice"), Text), "tool_config"), {"tool_choice", "tools"}),
    Via(To(Opt("thinking"), "generationConfig"), GenerationConfig),
    Via(To(Opt("seed"), "generationConfig"), GenerationConfig),
    Via(To(Opt("modalities"), "generationConfig"), GenerationConfig),
    Via(To(Opt("reasoning_effort"), "generationConfig"), GenerationConfig),
    Via(To(Opt("image_config"), "generationConfig"), GenerationConfig),
    Via(To(Opt("media_resolution"), "generationConfig"), GenerationConfig),
    To(Opt("cached_content"), "cachedContent")>>

HuggingfaceChatComplete ==
  <<Opt("model"), Via(Def(Opt("messages"), Text), {"messages"})>> \o Opts(<<"functions",
    "function_call">>) \o <<In(Def(Opt("max_tokens"), 10000), 0, NoHigh),
    To(In(Def(Opt("max_completion_tokens"), 10000), 0, NoHigh), "max_tokens"),
    In(Def(Opt("temperature"), 100), 0, 200), In(Def(Opt("top_p"), 100), 0, 100),
    Def(Opt("n"), 100), Def(Opt("stream"), Text), Opt("stop"),
    In(Opt("presence_penalty"), -200, 200), In(Opt("frequency_penalty"), -200, 200)>>
    \o Opts(<<"logit_bias", "user", "tools", "tool_choice", "response_format">>)

LatitudeChatComplete ==
  <<Def(Req("model"), Text), Via(Def(Opt("messages"), Text), {"messages"}),
    Def(Opt("response_format"), Text), In(Def(Opt("max_tokens"), 10000), 0, NoHigh),
    To(In(Def(Opt("max_completion_tokens"), 10000), 0, NoHigh), "max_tokens"),
    In(Def(Opt("temperature"), 100), 0, 200), In(Def(Opt("top_p"), 100), 0, 100),
    Def(Opt("stream"), Text), In(Def(Opt("frequency_penalty"), 0), -200, 200),
    In(Def(Opt("presence_penalty"), 0), -200, 200), Def(Opt("stop"), Text),
    Def(Opt("seed"), Text), Def(Opt("tools"), Text), Def(Opt("tool_choice"), Text)>>

LeptonChatComplete ==
  Reqs(<<"model", "messages">>) \o <<In(Def(Opt("temperature"), 70), 0, 200),
    In(Def(Opt("top_p"), 100), 0, 100), Def(Opt("n"), 100),
    In(Def(Opt("max_tokens"), 25600), 0, NoHigh), Opt("stop"), Def(Opt("stream"), Text),
    Opt("stream_options"), In(Def(Opt("presence_penalty"), 0), -200, 200),
    In(Def(Opt("frequency_penalty"), 0), -200, 200)>> \o Opts(<<"logit_bias", "user",
    "tools", "seed">>) \o <<Def(Opt("logprobs"), Text), Def(Opt("top_logprobs"), 0),
    Opt("chat_template_kwargs"), Def(Opt("length_penalty"), 100),
    Def(Opt("repetition_penalty"), 100), Def(Opt("dry_multiplier"), 0),
    Def(Opt("dry_base"), 175), Def(Opt("dry_allowed_length"), 200),
    Def(Opt("do_early_stopping"), Text), Def(Opt("beam_size"), 100),
    Def(Opt("top_k"), 5000), Def(Opt("min_p"), 0), Opt("id"),
    Def(Opt("require_audio"), Text), Def(Opt("tts_preset_id"), Text),
    Def(Opt("tts_audio_format"), Text), Def(Opt("tts_audio_bitrate"), 6400),
    Opt("audio_history_b64"), Def(Opt("for_quant_calibration"), Text)>>

LingyiChatComplete ==
  <<Def(Req("model"), Text), Via(Def(Opt("messages"), Text), {"messages"}),
    In(Def(Opt("max_tokens"), 10000), 0, NoHigh),
    To(In(Def(Opt("max_completion_tokens"), 10000), 0, NoHigh), "max_tokens"),
    In(Def(Opt("temperature"), 100), 0, 200), In(Def(Opt("top_p"), 100), 0, 100),
    Def(Opt("stream"), Text)>>

MatterAIChatComplete ==
  Override(OpenAIChatComplete, <<Def(Req("model"), Text)>>)

MistralAIChatComplete ==
  <<Via(Def(Req("model"), Text), {"model"}),
    Via(Def(Opt("messages"), Text), {"messages"}),
    In(Def(Opt("temperature"), 70), 0, 100), In(Def(Opt("top_p"), 100), 0, 100),
    In(Def(Opt("max_tokens"), Text), 100, NoHigh),
    To(In(Def(Opt("max_completion_tokens"), Text), 100, NoHigh), "max_tokens"),
    Def(Opt("stream"), Text), To(Def(Opt("seed"), Text), "random_seed"),
    Def(Opt("safe_prompt"), Text), To(Def(Opt("safe_mode"), Text), "safe_prompt"),
    Def(Opt("prompt"), Text), Def(Opt("suffix"), Text), Def(Opt("tools"), Text),
    Via(Def(Opt("tool_choice"), Text), {"tool_choice"}),
    Def(Opt("parallel_tool_calls"), Text)>>

MonsterAPIChatComplete ==
  <<In(Opt("top_k"), 100, 2000), In(Opt("top_p"), 0, 100), In(Opt("temperature"), 0, 100),
    In(Opt("max_length"), 100, 204800), In(Opt("repetition_penalty"), 0, NoHigh),
    In(Opt("beam_size"), 100, NoHigh), Def(Req("model"), Text),
    Via(Def(Req("messages"), Text), {"messages"})>>

MoonshotChatComplete ==
  <<Def(Req("model"), Text), Via(Def(Opt("messages"), Text), {"messages"}),
    In(Def(Opt("max_tokens"), 10000), 0, NoHigh),
    To(In(Def(Opt("max_completion_tokens"), 10000), 0, NoHigh), "max_tokens"),
    In(Def(Opt("temperature"), 100), 0, 200), In(Def(Opt("top_p"), 100), 0, 100),
    Def(Opt("stream"), Text)>>

NCompassChatComplete ==
  <<Def(Req("model"), Text), Via(Def(Req("messages"), Text), {"messages"}),
    In(Def(Opt("frequency_penalty"), 0), -200, 200),
    In(Def(Opt("max_tokens"), 10000), 100, NoHigh),
    To(In(Def(Opt("max_completion_tokens"), 10000), 100, NoHigh), "max_tokens"),
    In(Def(Opt("n"), 100), 100, 100), In(Def(Opt("presence_penalty"), 0), -200, 200),
    In(Def(Opt("temperature"), 100), 0, 200), In(Def(Opt("top_p"), 100), 0, 100),
    Def(Opt("stop"), Text), Def(Opt("stream"), Text)>>

NovitaAIChatComplete ==
  <<Def(Req("model"), Text), Via(Def(Req("messages"), Text), {"messages"}),
    In(Def(Req("max_tokens"), 12800), 100, NoHigh),
    To(In(Def(Opt("max_completion_tokens"), 12800), 100, NoHigh), "max_tokens")>>
    \o Opts(<<"stop", "temperature", "top_p", "n", "top_k">>)
    \o <<In(Opt("presence_penalty"), -200, 200), In(Opt("frequency_penalty"), -200, 200),
    Def(Opt("stream"), Text)>> \o Opts(<<"logprobs", "tools", "tool_choice",
    "response_format">>)

OllamaChatComplete ==
  <<Def(Req("model"), Text), Via(Def(Opt("messages"), Text), {"messages"}),
    In(Opt("frequency_penalty"), -200, 200), In(Opt("presence_penalty"), -200, 200)>>
    \o Opts(<<"response_format", "seed", "stop">>) \o <<Def(Opt("stream"), Text),
    In(Def(Opt("temperature"), 100), 0, 200), In(Def(Opt("top_p"), 100), 0, 100),
    In(Def(Opt("max_tokens"), 10000), 0, NoHigh),
    To(In(Def(Opt("max_completion_tokens"), 10000), 0, NoHigh), "max_tokens"),
    Opt("tools"), Via(To(Opt("thinking"), "think"), {"thinking"})>>

OpenAICreateModelResponse ==
  Opts(<<"background", "conversation">>) \o Reqs(<<"input", "model">>)
    \o Opts(<<"include", "instructions", "max_tool_calls", "max_output_tokens",
    "metadata", "modalities", "parallel_tool_calls", "previous_response_id", "prompt",
    "prompt_cache_key", "prompt_cache_options", "reasoning", "safety_identifier",
    "service_tier", "store", "stream", "stream_options", "temperature", "text",
    "tool_choice", "tools", "top_logprobs", "top_p", "truncation", "user", "verbosity">>)

OpenrouterChatComplete ==
  <<Def(Req("model"), Text), Via(Def(Opt("messages"), Text), {"messages"}),
    In(Def(Opt("max_tokens"), 10000), 0, NoHigh),
    To(In(Def(Opt("max_completion_tokens"), 10000), 0, NoHigh), "max_tokens"),
    In(Def(Opt("temperature"), 100), 0, 200), Opt("modalities"),
    Via(Opt("reasoning"), ReasoningParams),
    Via(To(Opt("reasoning_effort"), "reasoning"), ReasoningParams),
    In(Def(Opt("top_p"), 100), 0, 100)>> \o Opts(<<"tools", "tool_choice", "transforms",
    "provider", "models">>) \o <<Via(Opt("usage"), UsageOptions),
    Def(Opt("stream"), Text), Via(To(Opt("stream_options"), "usage"), UsageOptions),
    Opt("response_format")>>

OracleChatComplete ==
  <<Via(To(Req("model"), "chatRequest"), Inputs(OracleChatDetails)),
    Via(To(Req("model"), "compartmentId"), {}),
    Via(To(Def(Req("model"), Text), "servingMode"), {"model"})>>

OVHcloudChatComplete ==
  Override(OpenAIChatComplete, <<Def(Req("model"), Text)>>)

PalmChatComplete ==
  <<Def(Req("model"), Text),
    Via(To(Def(Opt("messages"), Text), "prompt"), {"messages", "examples", "context"}),
    In(Def(Opt("temperature"), 100), 0, 100),
    To(In(Def(Opt("top_p"), 100), 0, 100), "topP"),
    To(In(Def(Opt("top_k"), 100), 0, 100), "topK"),
    To(In(Def(Opt("n"), 100), 100, 800), "candidateCount"),
    To(In(Def(Opt("max_tokens"), 10000), 100, NoHigh), "maxOutputTokens"),
    To(In(Def(Opt("max_completion_tokens"), 10000), 100, NoHigh), "maxOutputTokens"),
    To(Opt("stop"), "stopSequences")>>

PerplexityAIChatComplete ==
  <<Def(Req("model"), Text), Via(Def(Req("messages"), Text), {"messages"}),
    In(Req("max_tokens"), 100, NoHigh),
    To(In(Opt("max_completion_tokens"), 100, NoHigh), "max_tokens"),
    In(Opt("temperature"), 0, 200), In(Opt("top_p"), 0, 100), Opt("search_domain_filter"),
    In(Opt("top_k"), 0, 204800), Def(Opt("stream"), Text),
    In(Opt("presence_penalty"), -200, 200),
    To(Opt("frequency_penalty"), "repetition_penalty"), In(Opt("n"), 100, 100)>>
    \o Opts(<<"web_search_options", "response_format", "search_recency_filter">>)

PredibaseChatComplete ==
  <<Via(Def(Opt("model"), Text), {"model"}),
    Via(Def(Req("messages"), Text), {"messages"}),
    In(Def(Opt("max_tokens"), 409600), 0, NoHigh),
    To(In(Def(Opt("max_completion_tokens"), 409600), 0, NoHigh), "max_tokens"),
    In(Def(Opt("temperature"), 10), 0, 100), In(Def(Opt("top_p"), 100), 0, 100),
    Opt("response_format"), Def(Opt("stream"), Text), In(Def(Opt("n"), 100), 100, 100),
    Opt("stop"), Def(Opt("top_k"), -100), Opt("best_of")>>

RekaAIChatComplete ==
  <<To(Def(Req("model"), Text), "model_name"),
    Via(To(Opt("messages"), "conversation_history"), {"messages"}),
    To(Opt("max_tokens"), "request_output_len"),
    To(Opt("max_completion_tokens"), "request_output_len"), Opt("temperature"),
    To(Opt("top_p"), "runtime_top_p"), Via(To(Opt("stop"), "stop_words"), {"stop"}),
    To(Opt("seed"), "random_seed")>> \o Opts(<<"frequency_penalty", "presence_penalty">>)
    \o <<To(Opt("top_k"), "runtime_top_k")>> \o Opts(<<"length_penalty",
    "retrieval_dataset", "use_search_engine">>)

SiliconFlowChatComplete ==
  <<Def(Req("model"), Text), Via(Def(Opt("messages"), Text), {"messages"}),
    In(Def(Opt("max_tokens"), 10000), 0, NoHigh),
    To(In(Def(Opt("max_completion_tokens"), 10000), 0, NoHigh), "max_tokens"),
    In(Def(Opt("temperature"), 100), 0, 200), In(Def(Opt("top_p"), 100), 0, 100),
    Def(Opt("n"), 100), Def(Opt("stream"), Text), Opt("stop"),
    In(Opt("presence_penalty"), -200, 200), In(Opt("frequency_penalty"), -200, 200)>>

TogetherAIChatComplete ==
  <<Def(Req("model"), Text), Via(Def(Req("messages"), Text), {"messages"}),
    In(Def(Req("max_tokens"), 12800), 100, NoHigh),
    To(In(Def(Opt("max_completion_tokens"), 12800), 100, NoHigh), "max_tokens")>>
    \o Opts(<<"stop", "temperature", "top_p", "top_k">>)
    \o <<To(Opt("frequency_penalty"), "repetition_penalty"), Def(Opt("stream"), Text)>>
    \o Opts(<<"logprobs", "tools", "tool_choice", "response_format">>)

WorkersAiChatComplete ==
  <<Via(Def(Opt("messages"), Text), {"messages"}), Def(Opt("stream"), Text)>>
    \o Opts(<<"raw", "max_tokens">>) \o <<To(Opt("max_completion_tokens"), "max_tokens")>>

ZhipuChatComplete ==
  <<Def(Req("model"), Text), Via(Def(Opt("messages"), Text), {"messages"}),
    In(Def(Opt("max_tokens"), 10000), 0, NoHigh),
    In(Def(Opt("temperature"), 100), 0, 200), In(Def(Opt("top_p"), 100), 0, 100),
    Def(Opt("stream"), Text)>>

-----------------------------------------------------------------------------
(* The providers that use OpenAI's table: what they leave out of it, whether   *)
(* they name a default model of their own, and what they add.                  *)

Shares(exclude, ownModel, extra) == [exclude |-> exclude, ownModel |-> ownModel, extra |-> extra]

AibadgrChat == Shares({}, FALSE, <<>>)
AzureOpenaiResponses == Override(excludeObjectKeys({}, OpenAICreateModelResponse), <<Via(Opt("model"), {"model"})>>)
BedrockMantleChat == Shares({}, FALSE, <<>>)
BedrockMantleResponses == Override(excludeObjectKeys({}, OpenAICreateModelResponse), <<>>)
ByteplusChat == Shares({}, FALSE, <<>>)
CerebrasChat == Shares({"frequency_penalty", "logit_bias", "logprobs", "presence_penalty",
    "parallel_tool_calls", "service_tier"}, FALSE, <<>>)
CortexChat == Shares({}, TRUE, <<>>)
DashscopeChat == Shares({}, TRUE, Opts(<<"top_k", "repetition_penalty", "stop", "enable_search",
    "enable_thinking", "thinking_budget">>))
DatabricksChat == Shares({}, FALSE, Opts(<<"thinking", "reasoning_effort">>))
FeatherlessAiChat == Shares({}, TRUE, <<>>)
GoogleVertexAiChat == Shares({"model"}, FALSE, <<Via(Opt("model"), {"model"})>>)
GoogleVertexAiChatBatch == Shares({"model"}, FALSE, <<>>)
GroqChat == Shares({"logprobs", "logits_bias", "top_logprobs"}, FALSE, Opts(<<"service_tier", "reasoning_effort">>))
HyperbolicChat == Shares({}, FALSE, <<Def(Opt("top_k"), -100), In(Def(Opt("min_p"), 0), 0, 100),
    Def(Opt("repetition_penalty"), 100)>>)
InferenceNetChat == Shares({}, TRUE, <<>>)
IointelligenceChat == Shares({}, FALSE, <<>>)
IointelligenceResponses == Override(excludeObjectKeys({}, OpenAICreateModelResponse), <<>>)
KlusterAiChat == Shares({}, TRUE, <<Opt("store"), Req("metadata")>>)
KrutrimChat == Shares({}, TRUE, <<>>)
LambdaChat == Shares({}, TRUE, <<>>)
LemonfoxAiChat == Shares({"functions", "function_call", "n", "logit_bias", "user", "seed", "tools",
    "tool_choice", "response_format", "logprobs", "stream_options"}, TRUE, <<>>)
LightningAiChat == Shares({}, FALSE, <<>>)
MetaChat == Shares({}, FALSE, <<>>)
MetaModelApiChat == Shares({}, FALSE, <<>>)
MetaModelApiResponses == Override(excludeObjectKeys({}, OpenAICreateModelResponse), <<>>)
MinimaxChat == Shares({}, FALSE, <<>>)
ModalChat == Shares({}, FALSE, <<>>)
NebiusChat == Shares({}, TRUE, <<>>)
NextbitChat == Shares({}, TRUE, <<>>)
NscaleChat == Shares({"functions", "function_call", "user", "seed", "tools", "tool_choice",
    "stream_options"}, FALSE, <<>>)
OpenAiCompatibleChat == Shares({}, FALSE, <<>>)
OpenaiResponses == Override(excludeObjectKeys({}, OpenAICreateModelResponse), <<>>)
SambanovaChat == Shares({"functions", "function_call", "presence_penalty", "frequency_penalty",
    "logit_bias", "user", "seed", "tools", "tool_choice", "response_format", "logprobs"}, TRUE, <<>>)
ScxAiChat == Shares({}, FALSE, <<>>)
UpstageChat == Shares({}, TRUE, <<>>)
XAiChat == Shares({}, TRUE, <<>>)
ZAiChat == Shares({}, TRUE, <<>>)

(* All of them, by name.                                                     *)
ChatRows ==
  [AnthropicChatComplete |-> AnthropicChatComplete,
    BedrockConverseChatComplete |-> BedrockConverseChatComplete,
    OpenAIChatComplete |-> OpenAIChatComplete, MessagesBase |-> MessagesBase,
    BedrockConverseMessages |-> BedrockConverseMessages,
    OracleChatDetails |-> OracleChatDetails, AI302ChatComplete |-> AI302ChatComplete,
    AI21ChatComplete |-> AI21ChatComplete, AnyscaleChatComplete |-> AnyscaleChatComplete,
    AzureAIInferenceChatComplete |-> AzureAIInferenceChatComplete,
    AzureOpenAIChatComplete |-> AzureOpenAIChatComplete,
    BedrockConverseAnthropicChatComplete |-> BedrockConverseAnthropicChatComplete,
    BedrockConverseCohereChatComplete |-> BedrockConverseCohereChatComplete,
    BedrockConverseAI21ChatComplete |-> BedrockConverseAI21ChatComplete,
    BedrockCohereChatComplete |-> BedrockCohereChatComplete,
    BedrockAI21ChatComplete |-> BedrockAI21ChatComplete,
    BedrockConverseMessageCountTokens |-> BedrockConverseMessageCountTokens,
    BedrockAnthropicMessageCountTokens |-> BedrockAnthropicMessageCountTokens,
    BedrockAnthropicBatch |-> BedrockAnthropicBatch,
    BedrockCohereBatch |-> BedrockCohereBatch, BedrockLlama2Batch |-> BedrockLlama2Batch,
    BedrockLlama3Batch |-> BedrockLlama3Batch,
    BedrockMistralBatch |-> BedrockMistralBatch, BedrockTitanBatch |-> BedrockTitanBatch,
    BedrockAI21Batch |-> BedrockAI21Batch,
    BytezInferenceChatComplete |-> BytezInferenceChatComplete,
    CohereChatComplete |-> CohereChatComplete,
    CometAPIChatComplete |-> CometAPIChatComplete,
    DeepbricksChatComplete |-> DeepbricksChatComplete,
    DeepInfraChatComplete |-> DeepInfraChatComplete,
    DeepSeekChatComplete |-> DeepSeekChatComplete,
    FireworksAIChatComplete |-> FireworksAIChatComplete,
    VertexGoogleChatComplete |-> VertexGoogleChatComplete,
    VertexAnthropicChatComplete |-> VertexAnthropicChatComplete,
    VertexLlamaChatComplete |-> VertexLlamaChatComplete,
    GoogleChatComplete |-> GoogleChatComplete,
    HuggingfaceChatComplete |-> HuggingfaceChatComplete,
    LatitudeChatComplete |-> LatitudeChatComplete,
    LeptonChatComplete |-> LeptonChatComplete, LingyiChatComplete |-> LingyiChatComplete,
    MatterAIChatComplete |-> MatterAIChatComplete,
    MistralAIChatComplete |-> MistralAIChatComplete,
    MonsterAPIChatComplete |-> MonsterAPIChatComplete,
    MoonshotChatComplete |-> MoonshotChatComplete,
    NCompassChatComplete |-> NCompassChatComplete,
    NovitaAIChatComplete |-> NovitaAIChatComplete,
    OllamaChatComplete |-> OllamaChatComplete,
    OpenAICreateModelResponse |-> OpenAICreateModelResponse,
    OpenrouterChatComplete |-> OpenrouterChatComplete,
    OracleChatComplete |-> OracleChatComplete,
    OVHcloudChatComplete |-> OVHcloudChatComplete, PalmChatComplete |-> PalmChatComplete,
    PerplexityAIChatComplete |-> PerplexityAIChatComplete,
    PredibaseChatComplete |-> PredibaseChatComplete,
    RekaAIChatComplete |-> RekaAIChatComplete,
    SiliconFlowChatComplete |-> SiliconFlowChatComplete,
    TogetherAIChatComplete |-> TogetherAIChatComplete,
    WorkersAiChatComplete |-> WorkersAiChatComplete,
    ZhipuChatComplete |-> ZhipuChatComplete,
    AzureOpenaiResponses |-> AzureOpenaiResponses,
    BedrockMantleResponses |-> BedrockMantleResponses,
    IointelligenceResponses |-> IointelligenceResponses,
    MetaModelApiResponses |-> MetaModelApiResponses, OpenaiResponses |-> OpenaiResponses]

(* The providers that share OpenAI's table.                                  *)
Sharers ==
  [AibadgrChat |-> AibadgrChat, BedrockMantleChat |-> BedrockMantleChat,
    ByteplusChat |-> ByteplusChat, CerebrasChat |-> CerebrasChat,
    CortexChat |-> CortexChat, DashscopeChat |-> DashscopeChat,
    DatabricksChat |-> DatabricksChat, FeatherlessAiChat |-> FeatherlessAiChat,
    GoogleVertexAiChat |-> GoogleVertexAiChat,
    GoogleVertexAiChatBatch |-> GoogleVertexAiChatBatch, GroqChat |-> GroqChat,
    HyperbolicChat |-> HyperbolicChat, InferenceNetChat |-> InferenceNetChat,
    IointelligenceChat |-> IointelligenceChat, KlusterAiChat |-> KlusterAiChat,
    KrutrimChat |-> KrutrimChat, LambdaChat |-> LambdaChat,
    LemonfoxAiChat |-> LemonfoxAiChat, LightningAiChat |-> LightningAiChat,
    MetaChat |-> MetaChat, MetaModelApiChat |-> MetaModelApiChat,
    MinimaxChat |-> MinimaxChat, ModalChat |-> ModalChat, NebiusChat |-> NebiusChat,
    NextbitChat |-> NextbitChat, NscaleChat |-> NscaleChat,
    OpenAiCompatibleChat |-> OpenAiCompatibleChat, SambanovaChat |-> SambanovaChat,
    ScxAiChat |-> ScxAiChat, UpstageChat |-> UpstageChat, XAiChat |-> XAiChat,
    ZAiChat |-> ZAiChat]
=============================================================================
