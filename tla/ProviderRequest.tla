--------------------------- MODULE ProviderRequest ---------------------------
(***************************************************************************)
(* How the gateway turns a caller's parameters into a provider's request   *)
(* (src/gateway/src/services/transformToProviderRequest.ts).               *)
(*                                                                         *)
(* The tables are built once, while the modules load.  A provider that     *)
(* follows OpenAI copies OpenAI's table shallowly (chatCompleteParams), so *)
(* the entries stay shared, and then writes its own default model into the *)
(* shared entry.  After that every request walks its table row by row and  *)
(* writes one field at a time.                                             *)
(*                                                                         *)
(* ProviderTables has the chat tables; those of the other endpoints are    *)
(* at the beginning of this module.                                        *)
(*                                                                         *)
(* A call names at most two inputs, both of rows that write one field:     *)
(* rows that write different fields do not see each other.                 *)
(***************************************************************************)
EXTENDS ProviderTables

-----------------------------------------------------------------------------
(* Completion, embedding and rerank tables: the ParameterConfig rows every provider declares for
   complete, embed and rerank, in the order they are written. *)

(* completeParams and embedParams: the tables a provider that follows OpenAI   *)
(* builds for these endpoints, before it leaves entries out or adds its own.   *)
completeParams(ownModel) ==
  <<IF ownModel THEN Def(Req("model"), Text) ELSE Req("model"), Def(Opt("prompt"), Text),
    In(Opt("max_tokens"), 0, NoHigh), In(Opt("temperature"), 0, 200), In(Opt("top_p"), 0, 100),
    Def(Opt("n"), 100), Opt("stream"), In(Opt("logprobs"), NoLow, 500), Def(Opt("echo"), Text),
    Opt("stop"), In(Opt("presence_penalty"), -200, 200), In(Opt("frequency_penalty"), -200, 200)>>
    \o Opts(<<"best_of", "logit_bias", "user", "seed", "suffix">>)

embedParams(ownModel) ==
  <<IF ownModel THEN Def(Req("model"), Text) ELSE Req("model"), Req("input")>>
    \o Opts(<<"encoding_format", "dimensions", "user">>)

AI21Complete ==
  <<Req("prompt"), To(Def(Opt("n"), 100), "numResults"),
    To(Def(Opt("max_tokens"), 1600), "maxTokens"), Def(Opt("minTokens"), 0),
    In(Def(Opt("temperature"), 70), 0, 100), To(Def(Opt("top_p"), 100), "topP"),
    To(Def(Opt("top_k"), 0), "topKReturn"), To(Opt("stop"), "stopSequences"),
    Via(To(Opt("presence_penalty"), "presencePenalty"), {"presence_penalty"}),
    Via(To(Opt("frequency_penalty"), "frequencyPenalty"), {"frequency_penalty"})>>
    \o Opts(<<"countPenalty", "frequencyPenalty", "presencePenalty">>)

AI21Embed ==
  <<Via(To(Req("input"), "texts"), {"input"}), Opt("type")>>

AnthropicComplete ==
  <<Def(Req("model"), Text), Via(Req("prompt"), {"prompt"}),
    To(Req("max_tokens"), "max_tokens_to_sample"),
    In(Def(Opt("temperature"), 100), 0, 100), In(Def(Opt("top_p"), -100), -100, NoHigh),
    Def(Opt("top_k"), -100), Via(To(Opt("stop"), "stop_sequences"), {"stop"}),
    Def(Opt("stream"), Text), To(Opt("user"), "metadata.user_id")>>

AnyscaleComplete ==
  <<Def(Req("model"), Text), Def(Opt("prompt"), Text),
    In(Def(Opt("max_tokens"), 10000), 0, NoHigh),
    In(Def(Opt("temperature"), 100), 0, 200), In(Def(Opt("top_p"), 100), 0, 100),
    Def(Opt("n"), 100), Def(Opt("stream"), Text), In(Opt("logprobs"), NoLow, 500),
    Def(Opt("echo"), Text), Opt("stop"), In(Opt("presence_penalty"), -200, 200),
    In(Opt("frequency_penalty"), -200, 200)>> \o Opts(<<"best_of", "logit_bias", "user">>)

AnyscaleEmbed ==
  <<Def(Req("model"), Text), Def(Opt("input"), Text), Opt("user")>>

AzureAIInferenceComplete ==
  <<Opt("model"), Def(Opt("prompt"), Text), In(Def(Opt("max_tokens"), 10000), 0, NoHigh),
    In(Def(Opt("temperature"), 100), 0, 200), In(Def(Opt("top_p"), 100), 0, 100),
    Def(Opt("stream"), Text), Opt("stop"), In(Opt("presence_penalty"), -200, 200),
    In(Opt("frequency_penalty"), -200, 200), Opt("user")>>

AzureAIInferenceEmbed ==
  <<Opt("model"), Req("input"), Opt("user")>>

AzureOpenAIComplete ==
  <<Opt("model"), Def(Opt("prompt"), Text), In(Def(Opt("max_tokens"), 10000), 0, NoHigh),
    In(Def(Opt("temperature"), 100), 0, 200), In(Def(Opt("top_p"), 100), 0, 100),
    Def(Opt("n"), 100), Def(Opt("stream"), Text), In(Opt("logprobs"), NoLow, 500),
    Def(Opt("echo"), Text), Opt("stop"), In(Opt("presence_penalty"), -200, 200),
    In(Opt("frequency_penalty"), -200, 200)>> \o Opts(<<"best_of", "logit_bias", "user">>)

AzureOpenAIEmbed ==
  <<Via(Opt("model"), {"model"}), Req("input")>> \o Opts(<<"user", "dimensions",
    "encoding_format">>)

BedrockAnthropicComplete ==
  <<Via(Req("prompt"), {"prompt"}), To(Req("max_tokens"), "max_tokens_to_sample"),
    In(Def(Opt("temperature"), 100), 0, 100), In(Def(Opt("top_p"), -100), -100, NoHigh),
    Def(Opt("top_k"), -100), Via(To(Opt("stop"), "stop_sequences"), {"stop"}),
    To(Opt("user"), "metadata.user_id")>>

BedrockCohereComplete ==
  <<Req("prompt"), In(Def(Opt("max_tokens"), 2000), 100, NoHigh),
    In(Def(Opt("temperature"), 75), 0, 500), To(In(Def(Opt("top_p"), 75), 0, 100), "p"),
    To(In(Def(Opt("top_k"), 0), NoLow, 50000), "k"),
    In(Def(Opt("frequency_penalty"), 0), 0, 100),
    In(Def(Opt("presence_penalty"), 0), 0, 100), Opt("logit_bias"),
    To(In(Def(Opt("n"), 100), 100, 500), "num_generations"),
    To(Opt("stop"), "end_sequences"), Opt("stream")>>

BedrockLLamaComplete ==
  <<Req("prompt"), To(In(Def(Opt("max_tokens"), 51200), 100, 204800), "max_gen_len"),
    In(Def(Opt("temperature"), 50), 0, 100), In(Def(Opt("top_p"), 90), 0, 100)>>

BedrockMistralComplete ==
  <<Req("prompt"), In(Def(Opt("max_tokens"), 2000), 100, NoHigh),
    In(Def(Opt("temperature"), 75), 0, 500), In(Def(Opt("top_p"), 75), 0, 100),
    Def(Opt("top_k"), 0), Opt("stop")>>

BedrockTitanComplete ==
  <<To(Req("prompt"), "inputText"),
    ViaNonZero(To(Opt("temperature"), "textGenerationConfig"), TitanConfig),
    ViaNonZero(To(Opt("max_tokens"), "textGenerationConfig"), TitanConfig),
    ViaNonZero(To(Opt("top_p"), "textGenerationConfig"), TitanConfig)>>

BedrockAI21Complete ==
  <<Req("prompt"), To(Def(Opt("max_tokens"), 20000), "maxTokens"),
    In(Def(Opt("temperature"), 70), 0, 100), To(Def(Opt("top_p"), 100), "topP"),
    To(Opt("stop"), "stopSequences"),
    Via(To(Opt("presence_penalty"), "presencePenalty"), {"presence_penalty"}),
    Via(To(Opt("frequency_penalty"), "frequencyPenalty"), {"frequency_penalty"})>>
    \o Opts(<<"countPenalty", "frequencyPenalty", "presencePenalty">>)

BedrockCohereEmbed ==
  <<Via(To(Opt("input"), "texts"), {"input"}), Via(To(Opt("input"), "images"), {"input"}),
    Req("input_type"), Opt("truncate"),
    Via(To(Opt("encoding_format"), "embedding_types"), {"encoding_format"})>>

BedrockTitanEmbed ==
  <<Via(To(Opt("input"), "inputText"), {"input"}),
    Via(To(Opt("input"), "inputImage"), {"input"}),
    Via(Opt("dimensions"), {"dimensions", "input"}),
    Via(To(Opt("dimensions"), "embeddingConfig"), {"dimensions", "input"}),
    Via(To(Opt("encoding_format"), "embeddingTypes"), {"encoding_format", "foundationModel", "model"}),
    Opt("normalize")>>

BedrockRerank ==
  <<Via(To(Req("model"), "rerankingConfiguration"), {"model", "top_n"}),
    Via(To(Req("query"), "queries"), {"query"}),
    Via(To(Req("documents"), "sources"), {"documents"})>>

CohereComplete ==
  <<Def(Req("model"), Text), Req("prompt"), In(Def(Opt("max_tokens"), 2000), 100, NoHigh),
    In(Def(Opt("temperature"), 75), 0, 500), To(In(Def(Opt("top_p"), 75), 0, 100), "p"),
    To(In(Def(Opt("top_k"), 0), NoLow, 50000), "k"),
    In(Def(Opt("frequency_penalty"), 0), 0, 100),
    In(Def(Opt("presence_penalty"), 0), 0, 100), Opt("logit_bias"),
    To(In(Def(Opt("n"), 100), 100, 500), "num_generations"),
    To(Opt("stop"), "end_sequences"), Def(Opt("stream"), Text)>>

CohereEmbed ==
  <<Opt("model"), Via(To(Opt("input"), "texts"), {"input"}),
    Via(To(Opt("input"), "images"), {"input"}), Req("input_type"), Opt("truncate"),
    Via(To(Opt("encoding_format"), "embedding_types"), {"encoding_format"})>>

CohereRerank ==
  Reqs(<<"model", "query">>) \o <<Via(Req("documents"), {"documents"})>>
    \o Opts(<<"top_n", "max_tokens_per_doc", "priority">>)

FireworksAIComplete ==
  Reqs(<<"model", "prompt">>) \o <<In(Def(Opt("max_tokens"), 1600), 0, NoHigh),
    In(Opt("logprobs"), 0, 500), Opt("echo"), In(Def(Opt("temperature"), 100), 0, 200),
    In(Def(Opt("top_p"), 100), 0, 100), In(Opt("top_k"), 100, 12800),
    In(Opt("frequency_penalty"), -200, 200), In(Opt("presence_penalty"), -200, 200),
    In(Def(Opt("n"), 100), 100, 12800)>> \o Opts(<<"stop", "response_format">>)
    \o <<Def(Opt("stream"), Text)>> \o Opts(<<"context_length_exceeded_behavior",
    "user">>)

FireworksAIEmbed ==
  <<Def(Req("model"), Text), Via(Req("input"), {"input"}), Opt("dimensions")>>

VertexEmbed ==
  <<Via(To(Req("input"), "instances"), {"input", "task_type"}), Opt("parameters"),
    Via(To(Opt("dimensions"), "parameters"), {"parameters", "dimensions", "input"})>>

VertexBatchEmbed ==
  <<Via(To(Req("input"), "content"), {"input"})>>

GoogleEmbed ==
  <<Via(To(Req("input"), "content"), {"input"}), Def(Req("model"), Text)>>

HuggingfaceComplete ==
  <<Opt("model"), Def(Opt("prompt"), Text), In(Def(Opt("max_tokens"), 10000), 0, NoHigh),
    In(Def(Opt("temperature"), 100), 0, 200), In(Def(Opt("top_p"), 100), 0, 100),
    Def(Opt("n"), 100), Def(Opt("stream"), Text), In(Opt("logprobs"), NoLow, 500),
    Def(Opt("echo"), Text), Opt("stop"), In(Opt("presence_penalty"), -200, 200),
    In(Opt("frequency_penalty"), -200, 200)>> \o Opts(<<"best_of", "logit_bias", "user">>)

JinaEmbed ==
  <<Def(Req("model"), Text), Def(Opt("input"), Text)>> \o Opts(<<"encoding_format",
    "dimensions">>)

JinaRerank ==
  <<Def(Req("model"), Text), Req("query"), Via(Req("documents"), {"documents"})>>
    \o Opts(<<"top_n", "return_documents">>)

LeptonComplete ==
  Reqs(<<"model", "prompt">>) \o <<Opt("suffix"), In(Def(Opt("temperature"), 70), 0, 200),
    Def(Opt("n"), 100), In(Def(Opt("max_tokens"), 25600), 0, NoHigh), Opt("stop"),
    Def(Opt("stream"), Text), Opt("stream_options"), In(Def(Opt("top_p"), 100), 0, 100),
    Opt("logprobs"), Def(Opt("echo"), Text),
    In(Def(Opt("presence_penalty"), 0), -200, 200),
    In(Def(Opt("frequency_penalty"), 0), -200, 200)>> \o Opts(<<"logit_bias", "user",
    "seed">>) \o <<Def(Opt("length_penalty"), 100), Def(Opt("repetition_penalty"), 100),
    Def(Opt("dry_multiplier"), 0), Def(Opt("dry_base"), 175),
    Def(Opt("dry_allowed_length"), 200), Def(Opt("do_early_stopping"), Text),
    Def(Opt("beam_size"), 100), Def(Opt("top_k"), 5000), Def(Opt("min_p"), 0), Opt("id"),
    Def(Opt("require_audio"), Text), Def(Opt("tts_preset_id"), Text),
    Def(Opt("tts_audio_format"), Text), Def(Opt("tts_audio_bitrate"), 6400),
    Opt("audio_history_b64"), Def(Opt("for_quant_calibration"), Text)>>

MistralAIEmbed ==
  <<Def(Req("model"), Text), Via(Req("input"), {"input"})>>

NomicEmbed ==
  <<Def(Req("model"), Text), Via(To(Req("input"), "texts"), {"input"}), Opt("task_type")>>

NovitaAIComplete ==
  <<Def(Req("model"), Text), Def(Req("prompt"), Text),
    In(Def(Req("max_tokens"), 12800), 100, NoHigh)>> \o Opts(<<"stop", "temperature",
    "top_p", "top_k">>) \o <<To(Opt("frequency_penalty"), "repetition_penalty"),
    Def(Opt("stream"), Text), Opt("logprobs")>>

OllamaEmbed ==
  <<Opt("model"), To(Req("input"), "prompt")>>

OpenAIComplete ==
  <<Def(Req("model"), Text), Def(Opt("prompt"), Text),
    In(Def(Opt("max_tokens"), 10000), 0, NoHigh),
    In(Def(Opt("temperature"), 100), 0, 200), In(Def(Opt("top_p"), 100), 0, 100),
    Def(Opt("n"), 100), Def(Opt("stream"), Text), In(Opt("logprobs"), NoLow, 500),
    Def(Opt("echo"), Text), Opt("stop"), In(Opt("presence_penalty"), -200, 200),
    In(Opt("frequency_penalty"), -200, 200)>> \o Opts(<<"best_of", "logit_bias", "user",
    "seed", "suffix", "stream_options">>)

OpenAIEmbed ==
  <<Def(Req("model"), Text), Req("input")>> \o Opts(<<"encoding_format", "dimensions",
    "user">>)

PalmComplete ==
  <<Def(Req("model"), Text), Via(Def(Opt("prompt"), Text), {"prompt"}),
    In(Def(Opt("temperature"), 100), 0, 100),
    To(In(Def(Opt("top_p"), 100), 0, 100), "topP"),
    To(In(Def(Opt("top_k"), 100), 0, 100), "topK"),
    To(In(Def(Opt("n"), 100), 100, 800), "candidateCount"),
    To(In(Def(Opt("max_tokens"), 10000), 100, NoHigh), "maxOutputTokens"),
    To(Opt("stop"), "stopSequences")>>

PalmEmbed ==
  <<To(Req("input"), "text"), Def(Opt("model"), Text)>>

PineconeRerank ==
  Reqs(<<"model", "query">>) \o <<Via(Req("documents"), {"documents"})>>
    \o Opts(<<"top_n", "return_documents", "rank_fields", "parameters">>)

SiliconFlowEmbed ==
  <<Def(Req("model"), Text), Req("input"), Opt("encoding_format")>>

TogetherAIComplete ==
  <<Def(Req("model"), Text), Def(Req("prompt"), Text),
    In(Def(Req("max_tokens"), 12800), 100, NoHigh)>> \o Opts(<<"stop", "temperature",
    "top_p", "top_k">>) \o <<To(Opt("frequency_penalty"), "repetition_penalty"),
    Def(Opt("stream"), Text), Opt("logprobs")>>

TogetherAIEmbed ==
  <<Def(Req("model"), Text), Via(Req("input"), {"input"})>>

TritonComplete ==
  <<To(Req("prompt"), "text_input"), Def(Req("max_tokens"), 10000),
    In(Def(Req("temperature"), 70), 0, 100), Def(Req("top_p"), 70),
    Def(Req("top_k"), 5000), To(Opt("stop"), "stop_words"), Opt("bad_words")>>

VoyageEmbed ==
  <<Req("model"), Via(Req("input"), {"input"}), Def(Opt("input_type"), Text),
    Def(Opt("truncation"), Text), Def(Opt("encoding_format"), Text)>>

VoyageRerank ==
  Reqs(<<"model", "query">>) \o <<Via(Req("documents"), {"documents"}),
    To(Opt("top_n"), "top_k")>> \o Opts(<<"return_documents", "truncation">>)

WorkersAiComplete ==
  <<Via(Req("prompt"), {"prompt"}), Def(Opt("stream"), Text)>> \o Opts(<<"raw",
    "max_tokens">>)

WorkersAiEmbed ==
  <<Via(To(Req("input"), "text"), {"input"})>>

ZhipuEmbed ==
  <<Def(Req("model"), Text), Req("input")>>

ByteplusEmbed == Override(excludeObjectKeys({}, embedParams(FALSE)), <<>>)
CortexComplete == Override(excludeObjectKeys({}, completeParams(TRUE)), <<>>)
CortexEmbed == Override(excludeObjectKeys({}, embedParams(TRUE)), <<>>)
DashscopeEmbed == Override(excludeObjectKeys({}, embedParams(TRUE)), <<>>)
DatabricksComplete == Override(excludeObjectKeys({}, completeParams(FALSE)), <<>>)
DatabricksEmbed == Override(excludeObjectKeys({"model", "dimensions", "encoding_format", "user"},
    embedParams(FALSE)), <<>>)
FeatherlessAiComplete == Override(excludeObjectKeys({}, completeParams(TRUE)), <<>>)
GoogleVertexAiEmbedBatch == Override(excludeObjectKeys({"model"}, embedParams(FALSE)), <<>>)
IointelligenceEmbed == Override(excludeObjectKeys({}, embedParams(FALSE)), <<>>)
KlusterAiEmbed == Override(excludeObjectKeys({}, embedParams(TRUE)), <<>>)
LambdaComplete == Override(excludeObjectKeys({}, completeParams(TRUE)), <<>>)
ModalComplete == Override(excludeObjectKeys({}, completeParams(FALSE)), <<>>)
NebiusComplete == Override(excludeObjectKeys({}, completeParams(TRUE)), <<>>)
NebiusEmbed == Override(excludeObjectKeys({}, embedParams(TRUE)), <<>>)
NextbitComplete == Override(excludeObjectKeys({}, completeParams(TRUE)), <<>>)
OpenAiCompatibleEmbed == Override(excludeObjectKeys({}, embedParams(FALSE)), <<>>)
UpstageEmbed == Override(excludeObjectKeys({}, embedParams(TRUE)), <<>>)
XAiComplete == Override(excludeObjectKeys({}, completeParams(TRUE)), <<>>)
XAiEmbed == Override(excludeObjectKeys({}, embedParams(TRUE)), <<>>)

(* All of them, by name.                                                     *)
TextRows ==
  [AI21Complete |-> AI21Complete, AI21Embed |-> AI21Embed,
    AnthropicComplete |-> AnthropicComplete, AnyscaleComplete |-> AnyscaleComplete,
    AnyscaleEmbed |-> AnyscaleEmbed,
    AzureAIInferenceComplete |-> AzureAIInferenceComplete,
    AzureAIInferenceEmbed |-> AzureAIInferenceEmbed,
    AzureOpenAIComplete |-> AzureOpenAIComplete, AzureOpenAIEmbed |-> AzureOpenAIEmbed,
    BedrockAnthropicComplete |-> BedrockAnthropicComplete,
    BedrockCohereComplete |-> BedrockCohereComplete,
    BedrockLLamaComplete |-> BedrockLLamaComplete,
    BedrockMistralComplete |-> BedrockMistralComplete,
    BedrockTitanComplete |-> BedrockTitanComplete,
    BedrockAI21Complete |-> BedrockAI21Complete,
    BedrockCohereEmbed |-> BedrockCohereEmbed, BedrockTitanEmbed |-> BedrockTitanEmbed,
    BedrockRerank |-> BedrockRerank, CohereComplete |-> CohereComplete,
    CohereEmbed |-> CohereEmbed, CohereRerank |-> CohereRerank,
    FireworksAIComplete |-> FireworksAIComplete, FireworksAIEmbed |-> FireworksAIEmbed,
    VertexEmbed |-> VertexEmbed, VertexBatchEmbed |-> VertexBatchEmbed,
    GoogleEmbed |-> GoogleEmbed, HuggingfaceComplete |-> HuggingfaceComplete,
    JinaEmbed |-> JinaEmbed, JinaRerank |-> JinaRerank, LeptonComplete |-> LeptonComplete,
    MistralAIEmbed |-> MistralAIEmbed, NomicEmbed |-> NomicEmbed,
    NovitaAIComplete |-> NovitaAIComplete, OllamaEmbed |-> OllamaEmbed,
    OpenAIComplete |-> OpenAIComplete, OpenAIEmbed |-> OpenAIEmbed,
    PalmComplete |-> PalmComplete, PalmEmbed |-> PalmEmbed,
    PineconeRerank |-> PineconeRerank, SiliconFlowEmbed |-> SiliconFlowEmbed,
    TogetherAIComplete |-> TogetherAIComplete, TogetherAIEmbed |-> TogetherAIEmbed,
    TritonComplete |-> TritonComplete, VoyageEmbed |-> VoyageEmbed,
    VoyageRerank |-> VoyageRerank, WorkersAiComplete |-> WorkersAiComplete,
    WorkersAiEmbed |-> WorkersAiEmbed, ZhipuEmbed |-> ZhipuEmbed,
    ByteplusEmbed |-> ByteplusEmbed, CortexComplete |-> CortexComplete,
    CortexEmbed |-> CortexEmbed, DashscopeEmbed |-> DashscopeEmbed,
    DatabricksComplete |-> DatabricksComplete, DatabricksEmbed |-> DatabricksEmbed,
    FeatherlessAiComplete |-> FeatherlessAiComplete,
    GoogleVertexAiEmbedBatch |-> GoogleVertexAiEmbedBatch,
    IointelligenceEmbed |-> IointelligenceEmbed, KlusterAiEmbed |-> KlusterAiEmbed,
    LambdaComplete |-> LambdaComplete, ModalComplete |-> ModalComplete,
    NebiusComplete |-> NebiusComplete, NebiusEmbed |-> NebiusEmbed,
    NextbitComplete |-> NextbitComplete, OpenAiCompatibleEmbed |-> OpenAiCompatibleEmbed,
    UpstageEmbed |-> UpstageEmbed, XAiComplete |-> XAiComplete, XAiEmbed |-> XAiEmbed]

-----------------------------------------------------------------------------
(* Image, speech, batch and fine-tuning tables: the ParameterConfig rows every provider declares for
   imageGenerate, createSpeech, createTranscription, ocr, createBatch and createFinetune, in
    the order they are written. *)

createSpeechParams ==
  <<Def(Req("model"), Text), Req("input"), Def(Req("voice"), Text),
    Def(Opt("response_format"), Text), Def(Opt("speed"), 100)>>

AzureOpenAICreateBatch ==
  Reqs(<<"input_file_id", "endpoint">>) \o <<Def(Req("completion_window"), Text)>>
    \o Opts(<<"metadata", "output_expires_after", "input_blob", "output_folder">>)

AzureOpenAICreateSpeech ==
  <<Def(Req("model"), Text), Req("input"), Def(Req("voice"), Text),
    Def(Opt("response_format"), Text), Def(Opt("speed"), 100)>>

AzureOpenAIImageGenerate ==
  <<Req("prompt"), Def(Req("model"), Text), In(Opt("n"), 100, 1000)>> \o Opts(<<"quality",
    "response_format", "size", "style", "user", "moderation", "output_format">>)
    \o <<In(Opt("output_compression"), 0, 10000), Opt("background"),
    In(Opt("partial_images"), 0, 300), Opt("stream")>>

BedrockCreateBatch ==
  <<To(Req("model"), "modelId"),
    Via(To(Req("input_file_id"), "inputDataConfig"), {"input_file_id"}),
    To(Def(Req("job_name"), Text), "jobName"),
    To(Def(Req("output_data_config"), Text), "outputDataConfig"),
    To(Req("role_arn"), "roleArn")>>

BedrockCreateFinetune ==
  <<To(Req("model"), "baseModelIdentifier"), To(Req("suffix"), "customModelName"),
    Via(To(Opt("hyperparameters"), "hyperParameters"), {"hyperparameters", "method"}),
    Via(To(Req("training_file"), "trainingDataConfig"), {"training_file"}),
    Via(To(Opt("validation_file"), "validationDataConfig"), {"validation_file"}),
    To(Def(Req("output_file"), Text), "outputDataConfig"),
    To(Def(Req("job_name"), Text), "jobName"), To(Req("role_arn"), "roleArn"),
    To(Def(Req("customization_type"), Text), "customizationType")>>

BedrockStabilityAIImageGenerateV1 ==
  <<Via(To(Req("prompt"), "text_prompts"), {"prompt"}),
    To(In(Opt("n"), 100, 1000), "samples"),
    Num(To(In(Opt("size"), 32000, NoHigh), "height")),
    Num(To(In(Opt("size"), 32000, NoHigh), "width")), To(Opt("style"), "style_preset")>>

CohereCreateBatch ==
  <<Req("model"), To(Req("input_file_id"), "dataset_id")>> \o Opts(<<"input_type", "name",
    "embedding_types", "truncate">>)

DeepbricksImageGenerate ==
  <<Req("prompt"), Def(Req("model"), Text), In(Opt("n"), 100, 1000)>> \o Opts(<<"quality",
    "response_format", "size", "style", "user">>)

DeepgramCreateSpeech ==
  <<To(Req("input"), "text")>>

ElevenLabsCreateSpeech ==
  <<To(Req("input"), "text"), To(Def(Req("model"), Text), "model_id"),
    To(Opt("language"), "language_code"), To(Opt("speed"), "voice_settings.speed")>>

FalAIImageGenerate ==
  <<Req("prompt"), To(In(Opt("n"), 100, NoHigh), "num_images"),
    Via(To(Opt("size"), "image_size"), {"size"}), Opt("output_format"),
    Via(To(Opt("response_format"), "sync_mode"), {"response_format"})>> \o Opts(<<"seed",
    "negative_prompt", "num_inference_steps", "guidance_scale", "aspect_ratio",
    "enable_safety_checker">>)

FireworksFinetuneCreate ==
  <<To(Req("training_file"), "dataset"), To(Req("validation_file"), "evaluationDataset"),
    To(Req("suffix"), "displayName"), To(Req("model"), "baseModel"),
    Via(To(Req("hyperparameters"), "epochs"), {"hyperparameters", "method"}),
    Via(Def(Req("learning_rate"), Text), {"hyperparameters", "method"}),
    To(Req("output_model"), "outputModel")>>

FireworksAIImageGenerate ==
  <<Via(To(Req("prompt"), "text_prompts"), {"prompt"}), Def(Req("model"), Text),
    Num(To(In(Def(Opt("size"), 102400), 51200, 102400), "height")),
    Num(To(In(Def(Opt("size"), 102400), 51200, 102400), "width")),
    Def(Opt("cfg_scale"), 700), Opt("sampler"),
    To(In(Def(Opt("n"), 100), 100, 1000), "samples"), In(Opt("seed"), 0, NoHigh),
    In(Def(Opt("steps"), 5000), 1000, 15000)>> \o Opts(<<"safety_check",
    "lora_adapter_name", "lora_weight_filename">>)

VertexCreateBatch ==
  <<Via(Req("model"), {"model"}),
    Via(To(Req("input_file_id"), "inputConfig"), {"input_file_id"}),
    Via(To(Def(Req("output_data_config"), Text), "outputConfig"), {"output_data_config"}),
    To(Def(Req("job_name"), Text), "displayName"),
    To(Def(Req("instance_config"), Text), "instanceConfig")>>

VertexCreateFinetune ==
  <<To(Req("model"), "baseModel"),
    Via(To(Req("training_file"), "supervisedTuningSpec"), VertexFinetune),
    To(Req("suffix"), "tunedModelDisplayName"),
    Via(To(Opt("validation_file"), "supervisedTuningSpec"), VertexFinetune),
    Via(To(Opt("method"), "supervisedTuningSpec"), VertexFinetune),
    Via(To(Opt("hyperparameters"), "supervisedTuningSpec"), VertexFinetune)>>

VertexImageGenerate ==
  <<Via(To(Req("prompt"), "instances"), {"prompt"}),
    Via(To(In(Opt("n"), 100, 800), "parameters"), ImageParameters),
    ViaNonZero(To(Opt("quality"), "parameters"), ImageParameters),
    ViaNonZero(To(Opt("style"), "parameters"), ImageParameters),
    ViaNonZero(To(Opt("aspectRatio"), "parameters"), ImageParameters),
    ViaNonZero(To(Opt("seed"), "parameters"), ImageParameters),
    ViaNonZero(To(Opt("negativePrompt"), "parameters"), ImageParameters),
    ViaNonZero(To(Opt("personGeneration"), "parameters"), ImageParameters),
    ViaNonZero(To(Opt("safetySetting"), "parameters"), ImageParameters),
    ViaNonZero(To(Opt("addWatermark"), "parameters"), ImageParameters),
    ViaNonZero(To(Opt("mimeType"), "parameters"), ImageParameters)>>

HyperbolicImageGenerate ==
  Reqs(<<"model", "prompt">>) \o Opts(<<"height", "width", "backend">>)

LemonfoxAICreateTranscription ==
  <<Req("file")>> \o Opts(<<"response_format", "prompt", "language", "translate">>)

LemonfoxAIImageGenerate ==
  <<Req("prompt"), Opt("negative_prompt"), In(Def(Opt("n"), 100), 100, 800),
    Def(Opt("response_format"), Text), Opt("size")>>

MistralAIOcr ==
  <<Via(Def(Req("model"), Text), {"model"}), Opt("id"), Req("document")>>
    \o Opts(<<"pages", "include_image_base64", "image_limit", "image_min_size",
    "bbox_annotation_format", "document_annotation_format">>)

OpenAICreateBatch ==
  Reqs(<<"input_file_id", "endpoint">>) \o <<Def(Req("completion_window"), Text)>>
    \o Opts(<<"metadata", "output_expires_after">>)

OpenAICreateFinetune ==
  Reqs(<<"model", "suffix">>) \o <<Opt("hyperparameters"), Req("training_file")>>
    \o Opts(<<"validation_file", "integrations", "seed", "method">>)

OpenAICreateSpeech ==
  <<Def(Req("model"), Text), Req("input"), Def(Req("voice"), Text),
    Def(Opt("response_format"), Text), Def(Opt("speed"), 100)>>

OpenAIImageGenerate ==
  <<Req("prompt"), Def(Req("model"), Text), In(Opt("n"), 100, 1000)>> \o Opts(<<"quality",
    "response_format", "size", "style", "user", "moderation", "output_format">>)
    \o <<In(Opt("output_compression"), 0, 10000), Opt("background"),
    In(Opt("partial_images"), 0, 300), Opt("stream")>>

RecraftAIImageGenerate ==
  <<Req("prompt"), Def(Opt("style"), Text), Opt("style_id"),
    In(Def(Opt("n"), 100), 100, 200), Def(Opt("size"), Text),
    Def(Opt("response_format"), Text)>> \o Opts(<<"controls", "model", "artistic_level",
    "substyle">>)

SegmindImageGenerate ==
  <<Req("prompt"), To(In(Def(Opt("n"), 100), 100, 1000), "samples"),
    Num(To(Opt("size"), "img_height")), Num(To(Opt("size"), "img_width")),
    Def(Opt("style"), Text), To(Def(Req("steps"), 2000), "num_inference_steps"),
    Def(Opt("negative_prompt"), Text), Def(Opt("scheduler"), Text),
    Def(Opt("guidance_scale"), 750), Def(Opt("seed"), Text), Def(Opt("strength"), 75),
    Def(Opt("refiner"), Text), Def(Opt("high_noise_fraction"), 80),
    Via(Def(Req("base64"), Text), {}), Def(Opt("control_scale"), 180),
    Def(Opt("control_start"), 19), Def(Opt("control_end"), 100),
    Def(Opt("qr_text"), Text), Def(Opt("invert"), Text),
    To(Def(Opt("qr_size"), 76800), "size")>>

SiliconFlowImageGenerate ==
  <<Req("prompt"), To(Def(Opt("size"), Text), "image_size"),
    Def(Opt("num_inference_steps"), 2000), Def(Opt("batch_size"), 100),
    Def(Opt("guidance_scale"), 750)>>

StabilityAIImageGenerateV1 ==
  <<Via(To(Req("prompt"), "text_prompts"), {"prompt"}),
    To(In(Opt("n"), 100, 1000), "samples"),
    Num(To(In(Opt("size"), 32000, NoHigh), "height")),
    Num(To(In(Opt("size"), 32000, NoHigh), "width")), To(Opt("style"), "style_preset")>>
    \o Opts(<<"cfg_scale", "clip_guidance_preset", "sampler", "seed", "steps", "extras">>)

StabilityAIImageGenerateV2 ==
  <<Req("prompt")>> \o Opts(<<"negative_prompt", "aspect_ratio", "seed", "style_preset",
    "mode", "output_format", "image", "strength">>)

WorkersAiImageGenerate ==
  <<Req("prompt"), Opt("negative_prompt"), To(Opt("steps"), "num_steps"), Opt("steps"),
    Num(To(Opt("size"), "height")), Num(To(Opt("size"), "width")), Opt("seed")>>

ZAIImageGenerate ==
  <<Req("prompt"), Def(Req("model"), Text), In(Opt("n"), 100, 1000)>> \o Opts(<<"size",
    "response_format">>) \o <<To(Opt("user"), "user_id")>>

GroqSpeech == Override(excludeObjectKeys({}, createSpeechParams), <<>>)

(* All of them, by name.                                                     *)
MediaRows ==
  [AzureOpenAICreateBatch |-> AzureOpenAICreateBatch,
    AzureOpenAICreateSpeech |-> AzureOpenAICreateSpeech,
    AzureOpenAIImageGenerate |-> AzureOpenAIImageGenerate,
    BedrockCreateBatch |-> BedrockCreateBatch,
    BedrockCreateFinetune |-> BedrockCreateFinetune,
    BedrockStabilityAIImageGenerateV1 |-> BedrockStabilityAIImageGenerateV1,
    CohereCreateBatch |-> CohereCreateBatch,
    DeepbricksImageGenerate |-> DeepbricksImageGenerate,
    DeepgramCreateSpeech |-> DeepgramCreateSpeech,
    ElevenLabsCreateSpeech |-> ElevenLabsCreateSpeech,
    FalAIImageGenerate |-> FalAIImageGenerate,
    FireworksFinetuneCreate |-> FireworksFinetuneCreate,
    FireworksAIImageGenerate |-> FireworksAIImageGenerate,
    VertexCreateBatch |-> VertexCreateBatch,
    VertexCreateFinetune |-> VertexCreateFinetune,
    VertexImageGenerate |-> VertexImageGenerate,
    HyperbolicImageGenerate |-> HyperbolicImageGenerate,
    LemonfoxAICreateTranscription |-> LemonfoxAICreateTranscription,
    LemonfoxAIImageGenerate |-> LemonfoxAIImageGenerate, MistralAIOcr |-> MistralAIOcr,
    OpenAICreateBatch |-> OpenAICreateBatch,
    OpenAICreateFinetune |-> OpenAICreateFinetune,
    OpenAICreateSpeech |-> OpenAICreateSpeech,
    OpenAIImageGenerate |-> OpenAIImageGenerate,
    RecraftAIImageGenerate |-> RecraftAIImageGenerate,
    SegmindImageGenerate |-> SegmindImageGenerate,
    SiliconFlowImageGenerate |-> SiliconFlowImageGenerate,
    StabilityAIImageGenerateV1 |-> StabilityAIImageGenerateV1,
    StabilityAIImageGenerateV2 |-> StabilityAIImageGenerateV2,
    WorkersAiImageGenerate |-> WorkersAiImageGenerate,
    ZAIImageGenerate |-> ZAIImageGenerate, GroqSpeech |-> GroqSpeech]

-----------------------------------------------------------------------------
CONSTANT Values        \* the numbers a caller may give, in hundredths

(* The caller's numbers, unlike text and defaults, are within the range.   *)
ASSUME ValuesAreNumbers == \A v \in Values : NoLow < v /\ v < NoHigh

VARIABLES
  loaded,       \* how many of the sharing providers' modules have run
  modelDefault, \* whose default the shared `model` entry carries
  phase,        \* "loading", "idle", "build", "sent"
  table,        \* the table of the current call
  given,        \* the caller's parameters
  at,           \* the next row
  request       \* what each field was given, in order

requestVars == <<loaded, modelDefault, phase, table, given, at, request>>

-----------------------------------------------------------------------------
(* The tables.                                                             *)

(* The order in which providers/index.ts imports the sharing providers.    *)
ImportOrder ==
  <<"GoogleVertexAiChatBatch", "DatabricksChat", "GroqChat", "CerebrasChat", "InferenceNetChat", "SambanovaChat",
    "LemonfoxAiChat", "UpstageChat", "LambdaChat", "DashscopeChat", "XAiChat",
    "NebiusChat", "KlusterAiChat", "NscaleChat", "HyperbolicChat", "FeatherlessAiChat",
    "KrutrimChat", "NextbitChat", "ZAiChat", "ModalChat", "IointelligenceChat",
    "AibadgrChat", "MinimaxChat", "ByteplusChat", "LightningAiChat",
    "OpenAiCompatibleChat", "MetaChat", "ScxAiChat", "BedrockMantleChat",
    "MetaModelApiChat">>

(* chatCompleteParams: OpenAI's rows with the message rewriting, less what *)
(* the provider leaves out, with what it adds.                             *)
chatCompleteParams(s) ==
  Override(excludeObjectKeys(s.exclude,
             Override(OpenAIChatComplete, <<Via(Def(Opt("messages"), Text), {"messages"})>>)),
           s.extra)

Rows ==
  [t \in DOMAIN Sharers |-> chatCompleteParams(Sharers[t])] @@ ChatRows @@ TextRows @@ MediaRows

TableNames == DOMAIN Rows

(* The tables whose `model` row is the shared object.                      *)
SharesModel(t) ==
  \/ t = "OpenAIChatComplete"
  \/ t \in DOMAIN Sharers /\ "model" \notin Sharers[t].exclude \cup Inputs(Sharers[t].extra)

(* transformToFormData: Stability's second image API takes a form.         *)
IsForm(t) == t = "StabilityAIImageGenerateV2"

-----------------------------------------------------------------------------
(* The value of a row.                                                     *)

Ask == 1000000003            \* the literal 'portkey-default'

IsNumber(v) == NoLow < v /\ v < NoHigh

\* Mutant: no upper bound.
MutClamp(row, v) == IF IsNumber(v) /\ v < row.lo THEN row.lo ELSE v

Clamp(row, v) ==
  CASE IsNumber(v) /\ v < row.lo -> row.lo
    [] IsNumber(v) /\ v > row.hi -> row.hi
    [] OTHER -> v

(* What a transform takes from the caller.                                 *)
Taken(row, g) ==
  [n \in {n \in row.reads \cap DOMAIN g : row.kind = "nonzero" => g[n] # 0} |-> g[n]]

Value(by, num, of, whose) == [by |-> by, num |-> num, of |-> of, whose |-> whose]

getValue(row, g) ==
  IF row.kind \in {"object", "nonzero"}
    THEN Value("transform", Text, Taken(row, g), "")
    ELSE LET asked == g[row.from] = Ask /\ row.def # NoDefault
             num == Clamp(row, IF asked THEN row.def ELSE g[row.from])
         IN IF asked THEN Value("default", num, <<>>, "") ELSE Value("caller", num, row.from :> num, "")

Whose(row) == IF row.from = "model" /\ SharesModel(table) THEN modelDefault ELSE table

HasDefault(row) == row.req /\ row.def # NoDefault

(* A form keeps every value appended to a field, an object the last.       *)
Put(f, v) ==
  request' = (f :> IF IsForm(table) /\ f \in DOMAIN request THEN Append(request[f], v) ELSE <<v>>)
             @@ request

-----------------------------------------------------------------------------
(* Actions.                                                                *)

RequestInit ==
  /\ loaded = 0 /\ modelDefault = "OpenAIChatComplete" /\ phase = "loading"
  /\ table = "" /\ given = <<>> /\ at = 0 /\ request = <<>>

(* A provider's module runs: param.default = defaultValues[key] writes the *)
(* shared entry.                                                           *)
LoadProvider ==
  /\ phase = "loading"
  /\ loaded' = loaded + 1
  /\ LET p == ImportOrder[loaded + 1]
     IN modelDefault' = IF Sharers[p].ownModel THEN p ELSE modelDefault
  /\ phase' = IF loaded' = Len(ImportOrder) THEN "idle" ELSE "loading"
  /\ UNCHANGED <<table, given, at, request>>

InputsOf(rows, f) == {rows[k].from : k \in {k \in DOMAIN rows : rows[k].to = f}}

(* A size is always two numbers.                                           *)
MayGive(rows, n) ==
  IF \E k \in DOMAIN rows : rows[k].from = n /\ rows[k].kind = "number"
    THEN Values ELSE Values \cup {Text, Ask}

(* Up to two inputs of one field.                                          *)
GivenTogether(rows) ==
  UNION {{{}} \cup {{n, k} : n, k \in InputsOf(rows, rows[i].to)} : i \in DOMAIN rows}

CallOf(t, rows) ==
  \E S \in GivenTogether(rows) : \E g \in [S -> Values \cup {Text, Ask}] :
    /\ \A n \in S : g[n] \in MayGive(rows, n)
    /\ table' = t /\ given' = g

Call ==
  /\ phase = "idle"
  /\ \E t \in TableNames : CallOf(t, Rows[t])
  /\ phase' = "build" /\ at' = 1 /\ request' = <<>>
  /\ UNCHANGED <<loaded, modelDefault>>

(* The body of the loop of transformUsingProviderConfig.                   *)
Build(row) ==
  IF row.from \in DOMAIN given
    THEN Put(row.to, getValue(row, given))
    ELSE IF HasDefault(row)
           THEN Put(row.to, Value("default", row.def, <<>>, Whose(row)))
           ELSE UNCHANGED request

BuildFrom(rows) ==
  /\ Build(rows[at])
  /\ phase' = IF at = Len(rows) THEN "sent" ELSE "build"

BuildRow ==
  /\ phase = "build"
  /\ BuildFrom(Rows[table])
  /\ at' = at + 1
  /\ UNCHANGED <<loaded, modelDefault, table, given>>

Sent ==
  /\ phase = "sent"
  /\ phase' = "idle" /\ table' = "" /\ given' = <<>> /\ at' = 0 /\ request' = <<>>
  /\ UNCHANGED <<loaded, modelDefault>>

RequestNext == LoadProvider \/ Call \/ BuildRow \/ Sent

-----------------------------------------------------------------------------
(* Properties.                                                             *)

(* Requests are served once every module has run, and a request holds only *)
(* what the caller, a default or a transform wrote.                        *)
RequestTypeOK ==
  /\ loaded \in 0..Len(ImportOrder)
  /\ modelDefault \in {"OpenAIChatComplete"} \cup DOMAIN Sharers
  /\ phase \in {"loading", "idle", "build", "sent"}
  /\ phase = "loading" <=> loaded < Len(ImportOrder)
  /\ table \in TableNames \cup {""}
  /\ \A n \in DOMAIN given : given[n] \in Values \cup {Text, Ask}
  /\ \A f \in DOMAIN request : \A k \in DOMAIN request[f] :
       request[f][k].by \in {"caller", "default", "transform"}

Within(row, v) == IsNumber(v) => row.lo <= v /\ v <= row.hi

(* The one input with bounds that goes to the provider through a transform *)
(* of its row: getValue returns what the transform gives, and only a plain *)
(* number is clamped.                                                      *)
Unclamped == {<<"VertexImageGenerate", "n">>}

(* "It also ensures the values for each parameter are within the minimum   *)
(* and maximum constraints defined in the provider's configuration": a     *)
(* number taken from an input is within the bounds of that input's row,    *)
(* wherever in the request it ends up, and so is a default of that field.  *)
(* Vertex's number of images (min 1, max 8) is the exception: its bounds   *)
(* are never applied, and what the caller gave is sent as it is.           *)
BoundsAreKept(rows) ==
  \A i \in DOMAIN rows : rows[i].to \in DOMAIN request =>
    \A k \in DOMAIN request[rows[i].to] :
      LET row == rows[i]
          v == request[row.to][k]
      IN /\ row.from \in DOMAIN v.of =>
              IF <<table, row.from>> \in Unclamped THEN v.of[row.from] = given[row.from]
                                                  ELSE Within(row, v.of[row.from])
         /\ v.by = "default" => Within(row, v.num)

(* A field the caller set is not left at a default, whatever other rows    *)
(* write the same field and in whichever order: only 'portkey-default'     *)
(* asks for it.                                                            *)
CallerWins(rows) ==
  \A i \in DOMAIN rows :
    (rows[i].from \in DOMAIN given /\ given[rows[i].from] # Ask) =>
      LET all == request[rows[i].to]
      IN all[Len(all)].by = "default" =>
           \E j \in DOMAIN rows : /\ rows[j].to = rows[i].to /\ rows[j].from \in DOMAIN given
                                 /\ given[rows[j].from] = Ask

(* Inputs the provider is not meant to get: Vertex sends Claude's model in *)
(* the URL, Fireworks' learning rate is that of the hyperparameters, and   *)
(* Segmind always answers in base64.                                       *)
Switches ==
  {<<"VertexAnthropicChatComplete", "model">>, <<"FireworksFinetuneCreate", "learning_rate">>,
   <<"SegmindImageGenerate", "base64">>}

(* An input that has a row reaches the provider: the request holds a value *)
(* taken from it, or another of the caller's inputs wrote that field       *)
(* later.  The rows that share one transform must all be read by it.       *)
GivenIsSent(rows) ==
  \A n \in DOMAIN given :
    (given[n] # 0 /\ given[n] # Ask /\ <<table, n>> \notin Switches) =>
      \E k \in DOMAIN rows :
        /\ rows[k].from = n
        /\ \/ \E v \in DOMAIN request[rows[k].to] : n \in DOMAIN request[rows[k].to][v].of
           \/ \E l \in DOMAIN rows :
                l > k /\ rows[l].to = rows[k].to /\ rows[l].from \in DOMAIN given \ {n}

(* "If a required parameter is missing, it assigns the default value from  *)
(* the provider's configuration."                                          *)
RequiredIsSent(rows) ==
  \A k \in DOMAIN rows :
    rows[k].req /\ rows[k].def # NoDefault => rows[k].to \in DOMAIN request

FaithfulTo(rows) ==
  BoundsAreKept(rows) /\ CallerWins(rows) /\ GivenIsSent(rows) /\ RequiredIsSent(rows)

(* transformUsingProviderConfig as a whole: whichever table a provider has *)
(* and whatever the caller gives, bounds are kept (but Vertex's n), the    *)
(* caller wins over defaults, what is given is sent (but the Switches) and *)
(* what is required is there.                                              *)
RequestKept ==
  RequestTypeOK /\ (phase = "sent" => FaithfulTo(Rows[table]))

=============================================================================
