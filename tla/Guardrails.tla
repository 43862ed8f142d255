----------------------------- MODULE Guardrails -----------------------------
(***************************************************************************)
(* One guardrail check from its call by executeFunction to its result      *)
(* (gateway/plugins, gateway/src/middlewares/hooks/index.ts): the early    *)
(* returns, the access token, the calls to the vendor's service, which run *)
(* at the same time, and what the check makes of their answers.            *)
(***************************************************************************)
EXTENDS Naturals, Sequences, SequencesExt

-----------------------------------------------------------------------------
(***************************************************************************)
(* The part of a request or a response that a guardrail check reads and    *)
(* rewrites (gateway/plugins/utils.ts): the last message, the prompt, the  *)
(* input, the last choice or the blocks of an answer.                      *)
(*                                                                         *)
(* A text is what a check can tell of it: empty (an image has no text      *)
(* either), clean, harmful, with one or with two pieces of personal data,  *)
(* with a secret, and what masking makes of it.                            *)
(***************************************************************************)
Harmful == {"harm"}
Personal == {"pii", "pii2"}
Secrets == {"secret"}
Texts == {"empty", "clean", "masked", "half", "null"} \cup Harmful \cup Personal \cup Secrets

Events == {"before", "after"}
RequestTypes == {"chatComplete", "complete", "messages", "createModelResponse", "embed"}

\* How the content may come: a string, a list of parts, the output of a
\* function call, or not at all (a streamed answer, a tool call, an embedding).
Forms(event, type) ==
    IF event = "before"
    THEN IF type = "createModelResponse" THEN {"string", "array", "output", "none"}
         ELSE {"string", "array"}
    ELSE CASE type \in {"chatComplete", "complete"} -> {"string", "none"}
           [] type \in {"messages", "createModelResponse"} -> {"array", "none"}
           [] type = "embed" -> {"none"}

\* The texts of the part, one per item of a list (getCurrentContentPart).
TextArray(content) == content.parts

\* What `!content` is true of: nothing, or an empty string.
NoContent(content) ==
    content.form = "none" \/ (content.form = "string" /\ content.parts = <<"empty">>)

\* getText joins the texts that are not empty.
NoText(content) == \A i \in DOMAIN content.parts : content.parts[i] = "empty"

Truthy(text) == text \notin {"null", "empty"}

\* A text that is missing or empty leaves the part as it was.
Replace(content, texts, indexes) ==
    [i \in indexes |-> IF i \in DOMAIN texts /\ Truthy(texts[i])
                       THEN texts[i] ELSE content.parts[i]]

\* setRequestContentPart: an embedding's input is not written back; the prompt
\* of a completion takes whatever it is given, a list of prompts as many texts
\* as there are.
SetRequest(type, content, texts) ==
    CASE type = "embed" -> content
      [] type = "complete" /\ content.form = "string" ->
            [content EXCEPT !.parts = <<texts[1]>>]
      [] type = "complete" /\ content.form = "array" ->
            [content EXCEPT !.parts = Replace(content, texts, DOMAIN texts)]
      [] OTHER -> [content EXCEPT !.parts = Replace(content, texts, DOMAIN content.parts)]

\* setResponseContentPart: the blocks of a Messages answer become strings.
SetResponse(type, content, texts) ==
    IF type = "messages"
    THEN [content EXCEPT !.parts = Replace(content, texts, DOMAIN texts),
                         !.bare = {i \in DOMAIN texts : Truthy(texts[i])}]
    ELSE [content EXCEPT !.parts = Replace(content, texts, DOMAIN content.parts)]

\* setCurrentContentPart: no texts, no change.
SetContent(event, type, content, texts) ==
    IF texts = << >> THEN content
    ELSE IF event = "before" THEN SetRequest(type, content, texts)
    ELSE SetResponse(type, content, texts)

-----------------------------------------------------------------------------
(***************************************************************************)
(* What each guardrail check that asks a service does before and after it  *)
(* asks (gateway/plugins/<vendor>).  One row per handler:                  *)
(*                                                                         *)
(*   events   the hooks it works in; elsewhere it is an error              *)
(*   missing  without credentials: "error", "passing error", or "refused"  *)
(*            (it asks anyway, and the service refuses)                    *)
(*   needs    "content" or "text": without it the check is an error        *)
(*   sends    one call with the text ("joined"), with the list of texts    *)
(*            ("all"), or one call for every text ("each")                 *)
(*   detects  the texts that the service flags                             *)
(*   odd      a reply without the fields it reads: "error", "deny", "pass" *)
(*   inverts  it has a `not` parameter                                     *)
(*   redacts  what its redact parameter does with a flagged text           *)
(*   guardsEmbed  refuses to redact an embedding                           *)
(*   token    asks for an access token first                               *)
(*   extra    replies of this service that need a case of their own        *)
(***************************************************************************)
Asks == [events |-> Events, missing |-> "error", needs |-> "none",
         sends |-> "joined", detects |-> Harmful, odd |-> "error", inverts |-> FALSE,
         redacts |-> "never", guardsEmbed |-> FALSE, token |-> FALSE, extra |-> {}]

\* Patronus: the judges of an answer, and the two that can mask.
Judge == [Asks EXCEPT !.events = {"after"}, !.extra = {"warn"}]
PatronusIsConcise == Judge
PatronusIsHelpful == Judge
PatronusIsPolite == Judge
PatronusNoApologies == Judge
PatronusNoGenderBias == Judge
PatronusNoRacialBias == Judge
PatronusAnswerRelevance == Judge
PatronusToxicity == Judge
PatronusCustom == Judge
Masker == [Asks EXCEPT !.needs = "content", !.sends = "each", !.detects = Personal,
                       !.redacts = "full", !.guardsEmbed = TRUE]
PatronusPii == [Masker EXCEPT !.redacts = "longest", !.extra = {"warn", "bare"}]
PatronusPhi == [Masker EXCEPT !.redacts = "longest", !.extra = {"warn", "bare"}]

\* Qualifire takes every status but 'failed' for a pass.
Qualifire == [Asks EXCEPT !.odd = "pass"]
QualifirePii == [Qualifire EXCEPT !.detects = Personal]
QualifireContentModeration == Qualifire
QualifirePolicy == Qualifire
QualifirePromptInjections == [Qualifire EXCEPT !.events = {"before"}]
QualifireGrounding == [Qualifire EXCEPT !.events = {"after"}]
QualifireHallucinations == [Qualifire EXCEPT !.events = {"after"}]
QualifireToolUseQuality == [Qualifire EXCEPT !.events = {"after"}]

Portkey == [Asks EXCEPT !.needs = "content", !.inverts = TRUE]
PortkeyModerateContent == Portkey
PortkeyLanguage == Portkey
PortkeyGibberish == Portkey
PortkeyPii == [Portkey EXCEPT !.sends = "all", !.detects = Personal, !.redacts = "full",
                              !.guardsEmbed = TRUE]

AporiaValidate == [Asks EXCEPT !.odd = "deny"]
Sydeguard == Asks
PillarScanPrompt == [Asks EXCEPT !.odd = "deny"]
PillarScanResponse == [Asks EXCEPT !.odd = "deny"]
PromptfooGuard == [Asks EXCEPT !.missing = "none"]
PromptfooHarm == [Asks EXCEPT !.missing = "none"]
PromptfooPii == [Masker EXCEPT !.missing = "none"]
ProtectPrompt == Asks
ProtectResponse == Asks
MistralModerate == [Asks EXCEPT !.needs = "text", !.odd = "pass"]
PangeaTextGuard == [Asks EXCEPT !.needs = "text"]
PangeaPii == [Masker EXCEPT !.sends = "all", !.redacts = "whole", !.odd = "pass"]
BedrockGuard == [Masker EXCEPT !.detects = Harmful \cup Personal, !.guardsEmbed = FALSE,
                               !.missing = "passing error"]
AcuvityScan == [Masker EXCEPT !.detects = Harmful \cup Personal \cup Secrets,
                              !.sends = "all", !.redacts = "typed", !.guardsEmbed = FALSE]
LassoClassify == [Asks EXCEPT !.missing = "refused", !.odd = "pass"]
PrismaAirs == Asks
Walledprotect == [Asks EXCEPT !.needs = "content"]
JavelinGuardrails == [Asks EXCEPT !.needs = "content"]
F5Scan == [Masker EXCEPT !.detects = Harmful \cup Personal, !.guardsEmbed = FALSE]

\* Azure asks for a token unless there is an API key.
Azure == [Asks EXCEPT !.needs = "text", !.odd = "pass", !.token = TRUE]
AzureContentSafety == Azure
AzureProtectedMaterial == [Azure EXCEPT !.events = {"after"}]
AzureShieldPrompt == [Azure EXCEPT !.events = {"before"}, !.needs = "none"]
AzurePii == [Masker EXCEPT !.sends = "all", !.redacts = "whole", !.guardsEmbed = FALSE,
                           !.token = TRUE]

\* The caller's own services: a webhook decides and may send back a
\* body of its own, a log is only told.
Webhook == [Asks EXCEPT !.odd = "deny", !.extra = {"rewrite"}]
LogCall == [Asks EXCEPT !.detects = {}, !.odd = "pass"]

\* plugins/index.ts
Rows ==
    [is_concise |-> PatronusIsConcise, is_helpful |-> PatronusIsHelpful,
     is_polite |-> PatronusIsPolite, no_apologies |-> PatronusNoApologies,
     no_gender_bias |-> PatronusNoGenderBias, no_racial_bias |-> PatronusNoRacialBias,
     answer_relevance |-> PatronusAnswerRelevance, toxicity |-> PatronusToxicity,
     custom |-> PatronusCustom, patronus_pii |-> PatronusPii, patronus_phi |-> PatronusPhi,
     qualifire_pii |-> QualifirePii, content_moderation |-> QualifireContentModeration,
     policy |-> QualifirePolicy, prompt_injections |-> QualifirePromptInjections,
     grounding |-> QualifireGrounding, hallucinations |-> QualifireHallucinations,
     tool_use_quality |-> QualifireToolUseQuality,
     moderate_content |-> PortkeyModerateContent, language |-> PortkeyLanguage,
     gibberish |-> PortkeyGibberish, portkey_pii |-> PortkeyPii,
     aporia |-> AporiaValidate, sydeguard |-> Sydeguard,
     pillar_prompt |-> PillarScanPrompt, pillar_response |-> PillarScanResponse,
     promptfoo_guard |-> PromptfooGuard, promptfoo_harm |-> PromptfooHarm,
     promptfoo_pii |-> PromptfooPii, protect_prompt |-> ProtectPrompt,
     protect_response |-> ProtectResponse, mistral |-> MistralModerate,
     text_guard |-> PangeaTextGuard, pangea_pii |-> PangeaPii, bedrock |-> BedrockGuard,
     acuvity |-> AcuvityScan, lasso |-> LassoClassify, prisma_airs |-> PrismaAirs,
     walledai |-> Walledprotect, javelin |-> JavelinGuardrails, f5 |-> F5Scan,
     content_safety |-> AzureContentSafety, protected_material |-> AzureProtectedMaterial,
     shield_prompt |-> AzureShieldPrompt, azure_pii |-> AzurePii,
     webhook |-> Webhook, log |-> LogCall]

-----------------------------------------------------------------------------
(* The machine. *)
CONSTANT Extras  \* the unusual replies that services give

VARIABLES check,    \* the check that runs
          row,      \* its row
          call,     \* [event, type, content]: the hook, and what the check reads
          cfg,      \* [configured, redact, not]: its parameters
          phase,    \* "new", "token", "calls" or "done"
          replies,  \* the reply to each call that has one
          out,      \* the content that goes on
          result    \* what the handler returned: [verdict, error, transformed]

vars == <<check, row, call, cfg, phase, replies, out, result>>

Parts == TextArray(call.content)
Redacting == cfg.redact # {}

NoResult == [verdict |-> FALSE, error |-> FALSE, transformed |-> FALSE]
Returned(verdict, error) == [verdict |-> verdict, error |-> error, transformed |-> FALSE]
Errored == Returned(FALSE, TRUE)

\* Redaction is on or off, but for Acuvity, which has a switch for each kind.
Redactions ==
    CASE row.redacts = "never" -> {{}}
      [] row.redacts = "typed" -> SUBSET {"pii", "secret"}
      [] OTHER -> {{}, {"pii"}}

ContentOf(form, detects) ==
    LET texts == {"empty", "clean"} \cup detects
        long == IF form = "array" THEN {1, 2} ELSE {1} IN
    IF form = "none" THEN {[form |-> form, parts |-> << >>, bare |-> {}]}
    ELSE {[form |-> form, parts |-> s, bare |-> {}] : s \in UNION {[1..n -> texts] : n \in long}}

Init ==
    /\ check \in DOMAIN Rows /\ row = Rows[check]
    /\ \E e \in Events, t \in RequestTypes :
          /\ ~(e = "after" /\ t = "embed")            \* such a hook is skipped
          /\ \E f \in Forms(e, t) : \E c \in ContentOf(f, row.detects) :
                call = [event |-> e, type |-> t, content |-> c]
    /\ cfg \in [configured : {TRUE, row.missing = "none"}, redact : Redactions,
                not : {FALSE, row.inverts}]
    /\ phase = "new" /\ replies = << >> /\ out = call.content /\ result = NoResult

----------------------------------------------------------------------------
(* Before the first call.                                                  *)

Finish(r) == phase' = "done" /\ result' = r /\ UNCHANGED <<replies, out>>

Ready ==
    /\ call.event \in row.events
    /\ ~(row.guardsEmbed /\ Redacting /\ call.type = "embed")
    /\ cfg.configured \/ row.missing \notin {"error", "passing error"}
    /\ ~(row.needs = "content" /\ NoContent(call.content))
    /\ ~(row.needs = "text" /\ NoText(call.content))

\* Bedrock alone returns its initial verdict, true, with that error.
Refusal ==
    IF ~cfg.configured /\ row.missing = "passing error" THEN Returned(TRUE, TRUE)
    ELSE Errored

Start ==
    /\ phase = "new"
    /\ \/ ~Ready /\ Finish(Refusal)
       \/ /\ Ready
          /\ phase' = IF row.token THEN "token" ELSE "calls"
          /\ UNCHANGED <<replies, out, result>>
    /\ UNCHANGED <<check, row, call, cfg>>

\* getAccessToken: an API key is a token already, an identity has to ask.
GetAccessToken ==
    /\ phase = "token"
    /\ \/ phase' = "calls" /\ UNCHANGED <<replies, out, result>>
       \/ Finish(Errored)
    /\ UNCHANGED <<check, row, call, cfg>>

----------------------------------------------------------------------------
(* The calls.                                                              *)

\* One call, or one for each text that is not empty.
Calls == IF row.sends = "each" THEN {i \in DOMAIN Parts : Parts[i] # "empty"} ELSE {1}

Answers == IF cfg.configured THEN {"ok", "odd", "fail"} \cup (row.extra \cap Extras) ELSE {"fail"}

\* pluginRequest ends every call, with an answer or, after its timeout, with an
\* error; one error rejects the Promise.all of the calls.
Reply(i, r) ==
    /\ phase = "calls" /\ i \in Calls \ DOMAIN replies
    /\ row.sends = "each" => Parts[i] # "empty"
    /\ IF r = "fail" THEN Finish(Errored)
       ELSE /\ replies' = [j \in DOMAIN replies \cup {i} |-> IF j = i THEN r ELSE replies[j]]
            /\ UNCHANGED <<phase, out, result>>
    /\ UNCHANGED <<check, row, call, cfg>>

----------------------------------------------------------------------------
(* What the handlers make of the answers.                                  *)

Some(r) == \E i \in DOMAIN replies : replies[i] = r
Flagged == {i \in DOMAIN Parts : Parts[i] \in row.detects}
Has(kinds) == \E i \in DOMAIN Parts : Parts[i] \in kinds

\* [verdict, error, texts]: texts = << >> leaves the content alone.
Says(verdict, error, texts) == [verdict |-> verdict, error |-> error, texts |-> texts]
Failed == Says(FALSE, TRUE, << >>)
OddReply == Says(row.odd = "pass", row.odd = "error", << >>)

\* A check that only judges.
Judged ==
    IF Some("odd") THEN OddReply
    ELSE Says((Flagged = {}) # cfg.not, Some("warn"), << >>)

\* Patronus masks the longest of the entities that its positions name
\* (findAllLongestPositions), and nothing when there are no positions.
LongestMask(i) ==
    CASE replies[i] = "bare" -> "null"
      [] Parts[i] = "pii" -> "masked"
      [] Parts[i] = "pii2" -> "half"
      [] OTHER -> "null"

\* One text per part: Pangea and Azure return every text, the others give null
\* for one that needs no mask.
Masks ==
    CASE row.redacts = "longest" ->
            [i \in DOMAIN Parts |-> IF i \in Calls THEN LongestMask(i) ELSE "null"]
      [] row.redacts = "whole" ->
            [i \in DOMAIN Parts |-> IF i \in Flagged THEN "masked" ELSE Parts[i]]
      [] OTHER -> [i \in DOMAIN Parts |-> IF i \in Flagged THEN "masked" ELSE "null"]

\* The checks for personal data: a redaction lifts the block.
Redacted ==
    IF Some("odd") THEN OddReply
    ELSE LET hasPII == Flagged # {} IN
         Says(IF row.inverts /\ cfg.not THEN hasPII ELSE ~hasPII \/ Redacting,
              Some("warn"), IF hasPII /\ Redacting THEN Masks ELSE << >>)

\* phi.ts takes its error from the first text that was masked, else from the
\* first one, and that is null when it was empty.
PhiRedacted ==
    LET masked == {i \in Calls : LongestMask(i) # "null"}
        source == IF masked = {} THEN 1 ELSE CHOOSE i \in masked : \A j \in masked : i <= j IN
    IF Some("odd") \/ source \notin Calls THEN Failed
    ELSE [Redacted EXCEPT !.error = replies[source] = "warn"]

\* Mutant: a redaction lifts the block whatever else was flagged.
MutBedrock ==
    Says(Flagged = {} \/ (Has(Personal) /\ Redacting), FALSE,
         IF Has(Personal) /\ Redacting
         THEN [i \in DOMAIN Parts |-> IF Parts[i] \in Personal THEN "masked" ELSE "null"]
         ELSE << >>)

\* bedrock/index.ts: a redaction lifts the block when personal data is all
\* that was flagged; redactPii masks no other text.
Bedrock ==
    IF Some("odd") THEN Failed
    ELSE LET redacts == Has(Personal) /\ Redacting IN
         Says(Flagged = {} \/ (redacts /\ ~Has(Harmful)), FALSE,
              IF redacts THEN [i \in DOMAIN Parts |->
                                IF Parts[i] \in Personal THEN "masked" ELSE "null"]
              ELSE << >>)

\* acuvity/scan.ts: which guards matched, and what each redaction masks.
Guards == {g \in {"pii", "secret", "harm"} :
              Has(CASE g = "pii" -> Personal [] g = "secret" -> Secrets [] g = "harm" -> Harmful)}
Typed(text) ==
    IF \/ text \in Personal /\ "pii" \in cfg.redact
       \/ text \in Secrets /\ "secret" \in cfg.redact THEN "masked" ELSE text

Acuvity ==
    IF Some("odd") THEN Failed
    ELSE LET found == Guards \cap {"pii", "secret"} # {} IN
         Says(\/ Guards = {}
              \/ Guards = {"pii", "secret"} /\ cfg.redact = {"pii", "secret"}
              \/ found /\ Guards \in {{"pii"}, {"secret"}} /\ Redacting,
              FALSE,
              IF found /\ Redacting THEN [i \in DOMAIN Parts |-> Typed(Parts[i])] ELSE << >>)

\* f5-guardrails/scan.ts: the service returns every text it was given, with
\* what it could mask masked; a text it was not given counts as flagged.
F5 ==
    IF Some("odd") THEN Failed
    ELSE LET redacted == [i \in DOMAIN Parts |->
                            CASE Parts[i] = "empty" -> "null"
                              [] Parts[i] \in Personal -> "masked"
                              [] OTHER -> Parts[i]]
             hasRedacted == Redacting /\ Calls # {}
             flagged == Flagged # {} \/ Calls # DOMAIN Parts IN
         Says(~flagged \/ hasRedacted, FALSE, IF Redacting THEN redacted ELSE << >>)

\* default/webhook.ts: the webhook decides, also after it rewrote the body.
Webhooked ==
    IF Some("rewrite")
    THEN Says(TRUE, FALSE, [i \in DOMAIN Parts |-> IF i \in Flagged THEN "masked" ELSE Parts[i]])
    ELSE Judged

Handled ==
    CASE check = "patronus_phi" -> PhiRedacted
      [] check = "bedrock" -> Bedrock
      [] check = "acuvity" -> Acuvity
      [] check = "f5" -> F5
      [] check = "webhook" -> Webhooked
      [] row.redacts = "never" -> Judged
      [] OTHER -> Redacted

Settle ==
    /\ phase = "calls" /\ Calls \subseteq DOMAIN replies
    /\ LET h == Handled IN
       /\ result' = [verdict |-> h.verdict, error |-> h.error, transformed |-> h.texts # << >>]
       /\ out' = IF check = "webhook" /\ h.texts # << >>
                 THEN [call.content EXCEPT !.parts = h.texts]
                 ELSE SetContent(call.event, call.type, call.content, h.texts)
    /\ phase' = "done"
    /\ UNCHANGED <<check, row, call, cfg, replies>>

Idle == phase = "done" /\ UNCHANGED vars

Next == \/ Start \/ GetAccessToken \/ Settle \/ Idle
        \/ \E i \in Calls : \E r \in Answers : Reply(i, r)

Spec == Init /\ [][Next]_vars
----------------------------------------------------------------------------
(* What must hold.                                                         *)

\* executeFunction: an error is never a pass of its own.
Verdict == IF result.error THEN FALSE ELSE result.verdict

\* executeEachHook: an error fails the hook only with failOnError.
Passes(failOnError) == Verdict \/ (result.error /\ ~failOnError)

Done == phase = "done"

\* One check on one piece of content.
TypeOK ==
    /\ check \in DOMAIN Rows /\ row = Rows[check]
    /\ call.event \in Events /\ call.type \in RequestTypes
    /\ phase \in {"new", "token", "calls", "done"}
    /\ \A i \in DOMAIN replies : replies[i] \in {"ok", "odd", "warn", "bare", "rewrite"}
    /\ \A i \in DOMAIN out.parts : out.parts[i] \in Texts
    /\ result \in [verdict : BOOLEAN, error : BOOLEAN, transformed : BOOLEAN]

\* The prompt of a completion, which takes whatever it is given.
PromptString ==
    call.event = "before" /\ call.type = "complete" /\ call.content.form = "string"

\* Where something flagged passes: the service's answer was odd and the check
\* takes that for a pass; the input of an embedding is not written back
\* (utils.ts), which these four do not refuse; Patronus masks the longest
\* entity only, or nothing without positions; Acuvity counts a redaction of
\* the other kind; F5 counts a text that came back as masked.
Shortfall ==
    \/ row.odd = "pass" /\ Some("odd") /\ Flagged # {}
    \/ /\ Redacting
       /\ \/ /\ check \in {"azure_pii", "bedrock", "acuvity", "f5"}
             /\ call.type = "embed" /\ Flagged # {}
          \/ /\ check \in {"patronus_pii", "patronus_phi"}
             /\ \E i \in Flagged :
                   IF replies[i] = "bare" THEN ~PromptString ELSE Parts[i] = "pii2"
          \/ check = "acuvity" /\ \E g \in {"pii", "secret"} \ cfg.redact : Guards = {g}
          \/ check = "f5" /\ Has(Harmful)

\* What passes a check with failOnError holds nothing that the check finds,
\* masked or not found, also when a call fails or the service answers
\* nonsense (handlers, executeFunction), but in the cases of Shortfall; and in
\* each of those it does.
UnsafeIsStopped ==
    Done /\ Passes(TRUE) /\ ~cfg.not =>
      ((\E i \in DOMAIN out.parts : out.parts[i] \in row.detects \cup {"half"}) <=> Shortfall)

\* A redaction rewrites what was flagged and nothing else: the other parts of
\* a message stay as they were, in their places (setCurrentContentPart).
CleanTextSurvives ==
    Done => /\ DOMAIN out.parts = DOMAIN Parts
            /\ \A i \in DOMAIN Parts :
                  Parts[i] \notin row.detects => out.parts[i] = Parts[i]

\* Content without anything to find passes when the service says so: F5 takes
\* an image for flagged, phi.ts fails on a first part without text.
CleanIsNotDenied ==
    /\ Done /\ Ready /\ ~cfg.not /\ Flagged = {}
    /\ DOMAIN replies = Calls /\ (\A i \in Calls : replies[i] = "ok")
    /\ check \in {"f5", "patronus_phi"} => Calls = DOMAIN Parts
    => Passes(TRUE) /\ out.parts = Parts

\* With `not`, exactly the content that has what the check looks for passes,
\* masked or not (portkey).
NotInverts ==
    /\ Done /\ cfg.not /\ Ready /\ DOMAIN replies = Calls /\ (\A i \in Calls : replies[i] = "ok")
    => (Passes(TRUE) <=> Flagged # {})
=============================================================================
