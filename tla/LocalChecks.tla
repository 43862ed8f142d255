---------------------------- MODULE LocalChecks -----------------------------
(***************************************************************************)
(* The guardrail checks that decide by themselves                          *)
(* (gateway/plugins/default).  A check is run on one input with and        *)
(* without `not`, in either order, as two hooks of a config would.         *)
(*                                                                         *)
(* An input is what the check looks at: the parameters it needs (`param`   *)
(* is FALSE when one is missing or malformed), whether there is any text,  *)
(* and the facts it derives from the text, the model or the metadata.      *)
(***************************************************************************)
EXTENDS Naturals, Sequences, FiniteSets

CONSTANTS Counts,   \* words, sentences or characters of a text, and bounds
          Names,    \* words, keys, models, request types or key ids
          Items,    \* how many objects or URLs a text holds at most
          Irregular \* checks whose `not` is known not to invert

VARIABLES check, input,
          results   \* results[not], for the runs so far
vars == <<check, input, results>>

\* Mutant: an error has no verdict.
Outcome(error, verdict) ==
    IF error THEN IF verdict THEN "passing error" ELSE "error"
    ELSE IF verdict THEN "pass" ELSE "fail"

\* `verdict = not ? !holds : holds`, after the checks that throw.
Tested(able, holds, not) == Outcome(~able, able /\ holds # not)

----------------------------------------------------------------------------
(* Predicates of the text.                                                 *)

EndsWith(in, not) ==
    Tested(in.text /\ in.param, in.last \in {"suffix", "suffix."}, not)
AllLowerCase(in, not) == Tested(in.text, "upper" \notin in.letters, not)
AllUpperCase(in, not) == Tested(in.text, "lower" \notin in.letters, not)

\* Mutant: the bounds are exclusive with `not`.
InRange(in, not) == in.count >= in.min /\ in.count <= in.max

\* A text without any is a text of no sentences, but has no words to count.
SentenceCount(in, not) == Tested(in.param, InRange(in, not), not)
WordCount(in, not) == Tested(in.count > 0 /\ in.param, InRange(in, not), not)
CharacterCount(in, not) == Tested(in.count > 0 /\ in.param, InRange(in, not), not)

RegexMatch(in, not) == Tested(in.text /\ in.param, in.matches, not)
NotNull(in, not) == Tested(TRUE, in.content # "none" /\ in.text, not)

\* Without a code block the verdict is `not`.
ContainsCode(in, not) ==
    IF in.text /\ in.param /\ in.languages = {} THEN Outcome(FALSE, not)
    ELSE Tested(in.text /\ in.param, in.format \in in.languages, not)

\* The first object that is valid, else the first that parses; without one
\* the verdict stays false.
JsonSchema(in, not) ==
    LET parsed == {i \in DOMAIN in.objects : in.objects[i] \in {"valid", "invalid"}} IN
    IF ~in.param THEN Outcome(TRUE, FALSE)
    ELSE IF parsed = {} THEN Outcome(FALSE, FALSE)
    ELSE Tested(TRUE, \E i \in parsed : in.objects[i] = "valid", not)

\* Every URL is asked for at the same time; no URL is a failure.
ValidUrls(in, not) ==
    IF in.text /\ in.urls = << >> THEN Outcome(FALSE, FALSE)
    ELSE Tested(in.text, \A i \in DOMAIN in.urls : in.urls[i], not)

----------------------------------------------------------------------------
(* The operators any, all and none.                                        *)

\* No operator, no verdict: false.
Holds(op, wanted, present) ==
    CASE op = "any" -> wanted \cap present # {}
      [] op = "all" -> wanted \subseteq present
      [] op = "none" -> wanted \cap present = {}
      [] OTHER -> FALSE

Contains(in) == Outcome(~in.param, in.param /\ Holds(in.op, in.wanted, in.present))

\* The early returns keep the initial verdict, true.
RequiredMetadataKeys(in) ==
    IF ~in.param \/ in.wanted = {} \/ in.op = "missing" THEN Outcome(TRUE, TRUE)
    ELSE Outcome(FALSE, Holds(in.op, in.wanted, in.present))

\* The first object for which the operator holds decides.
JsonKeys(in) ==
    IF ~in.text \/ in.wanted = {} \/ in.op = "missing" THEN Outcome(TRUE, FALSE)
    ELSE Outcome(FALSE, \E i \in DOMAIN in.objects : Holds(in.op, in.wanted, in.objects[i]))

----------------------------------------------------------------------------
(* The model, the request type, the token.                                 *)

ModelWhitelist(in, not) == Tested(in.param /\ in.model # "missing", in.model \in in.models, not)

\* The models of the metadata rules that match, else the defaults.
ModelRules(in, not) ==
    LET matched == UNION {in.rules[v] : v \in in.metadata \cap DOMAIN in.rules}
        allowed == IF matched = {} THEN in.defaults ELSE matched IN
    Tested(in.param /\ in.model # "missing" /\ allowed # {}, in.model \in allowed, not)

\* The parameters' list, else the metadata's.
Effective(own, metadata) == IF own # {} THEN own ELSE metadata

AllowedRequestTypes(in, metadata) ==
    LET allowed == Effective(in.allowed, IF metadata THEN in.metaAllowed ELSE {})
        blocked == Effective(in.blocked, IF metadata THEN in.metaBlocked ELSE {}) IN
    Outcome(allowed \cap blocked # {},
            /\ allowed \cap blocked = {}
            /\ in.type \notin blocked
            /\ allowed = {} \/ in.type \in allowed)

\* getMatchingKey on the keys fetched; when none fits they are fetched again.
MatchingKey(in) == in.kid \in in.first \/ (in.kid \in in.second /\ in.refetched)

Jwt(in) ==
    IF ~in.param \/ (in.header /\ ~in.fetched) THEN Outcome(TRUE, FALSE)
    ELSE IF in.header /\ in.kid \notin in.first /\ ~in.refetched THEN Outcome(TRUE, FALSE)
    ELSE Outcome(FALSE, in.header /\ MatchingKey(in) /\ in.genuine)

----------------------------------------------------------------------------
Ops == {"any", "all", "none", "missing"}
Lists(S) == UNION {[1..n -> S] : n \in 0..Items}
Ranges == [param : BOOLEAN, count : Counts, min : Counts, max : Counts]
Matches == [text : BOOLEAN, param : BOOLEAN, matches : BOOLEAN]
Model == Names \cup {"missing"}

Cases ==
    [ends_with |-> [text : BOOLEAN, param : BOOLEAN, last : {"suffix", "suffix.", "other"}],
     lower |-> [text : BOOLEAN, letters : SUBSET {"lower", "upper"}],
     upper |-> [text : BOOLEAN, letters : SUBSET {"lower", "upper"}],
     sentences |-> Ranges, words |-> Ranges, characters |-> Ranges,
     regex |-> Matches,
     not_null |-> [content : {"none", "string", "array"}, text : BOOLEAN],
     code |-> [text : BOOLEAN, param : BOOLEAN, format : Names, languages : SUBSET Names],
     json_schema |-> [param : BOOLEAN, objects : Lists({"valid", "invalid", "broken"})],
     urls |-> {in \in [text : BOOLEAN, urls : Lists(BOOLEAN)] : in.text \/ in.urls = << >>},
     contains |-> [param : BOOLEAN, op : Ops, wanted : SUBSET Names, present : SUBSET Names],
     metadata_keys |-> [param : BOOLEAN, op : Ops, wanted : SUBSET Names, present : SUBSET Names],
     json_keys |-> [text : BOOLEAN, op : Ops, wanted : SUBSET Names, objects : Lists(SUBSET Names)],
     whitelist |-> [param : BOOLEAN, model : Model, models : SUBSET Names],
     rules |-> [param : BOOLEAN, model : Model, defaults : SUBSET Names,
                metadata : SUBSET {"team", "tier"}, rules : [{"team", "tier"} -> SUBSET Names]],
     request_types |-> [type : Names, allowed : SUBSET Names, blocked : SUBSET Names,
                        metaAllowed : SUBSET Names, metaBlocked : SUBSET Names],
     jwt |-> [param : BOOLEAN, header : BOOLEAN, kid : Names, first : SUBSET Names,
              second : SUBSET Names, fetched : BOOLEAN, refetched : BOOLEAN, genuine : BOOLEAN]]

Inverting == {"ends_with", "lower", "upper", "sentences", "words", "characters", "regex",
              "not_null", "code", "json_schema", "urls", "whitelist", "rules"}

\* The second run of a check without `not`: of the keys, with "any" for
\* "none"; of the request types, without the metadata.
Dual(in, second) == IF second /\ in.op = "none" THEN [in EXCEPT !.op = "any"] ELSE in

Result(not) ==
    CASE check = "ends_with" -> EndsWith(input, not)
      [] check = "lower" -> AllLowerCase(input, not)
      [] check = "upper" -> AllUpperCase(input, not)
      [] check = "sentences" -> SentenceCount(input, not)
      [] check = "words" -> WordCount(input, not)
      [] check = "characters" -> CharacterCount(input, not)
      [] check = "regex" -> RegexMatch(input, not)
      [] check = "not_null" -> NotNull(input, not)
      [] check = "code" -> ContainsCode(input, not)
      [] check = "json_schema" -> JsonSchema(input, not)
      [] check = "urls" -> ValidUrls(input, not)
      [] check = "contains" -> Contains(Dual(input, not))
      [] check = "metadata_keys" -> RequiredMetadataKeys(Dual(input, not))
      [] check = "json_keys" -> JsonKeys(Dual(input, not))
      [] check = "whitelist" -> ModelWhitelist(input, not)
      [] check = "rules" -> ModelRules(input, not)
      [] check = "request_types" -> AllowedRequestTypes(input, ~not)
      [] check = "jwt" -> Jwt(input)

Init == check \in DOMAIN Cases /\ input \in Cases[check] /\ results = << >>

Run(not) ==
    /\ not \notin DOMAIN results
    /\ results' = [n \in DOMAIN results \cup {not} |-> IF n = not THEN Result(not) ELSE results[n]]
    /\ UNCHANGED <<check, input>>

Idle == DOMAIN results = BOOLEAN /\ UNCHANGED vars
Next == (\E not \in BOOLEAN : Run(not)) \/ Idle
Spec == Init /\ [][Next]_vars

----------------------------------------------------------------------------
Both == DOMAIN results = BOOLEAN
Errors == {"error", "passing error"}

\* The results of one case, with and without `not`.
TypeOK == /\ check \in DOMAIN Cases
          /\ \A n \in DOMAIN results : results[n] \in Errors \cup {"pass", "fail"}

\* `not` gives the opposite verdict on whatever can be judged at all, and the
\* same error on what cannot: a check and its inversion never both pass, and
\* never both fail (the handlers' `not`).
NotIsNegation ==
    Both /\ check \in Inverting \ Irregular =>
        \/ results[FALSE] \in Errors /\ results[TRUE] = results[FALSE]
        \/ {results[FALSE], results[TRUE]} = {"pass", "fail"}

\* `none` passes exactly when `any` does not (contains, requiredMetadataKeys).
NoneIsNotAny ==
    (Both /\ check \in {"contains", "metadata_keys", "json_keys"} \ Irregular /\ input.op = "none")
    => \/ results[FALSE] \in Errors /\ results[TRUE] = results[FALSE]
       \/ {results[FALSE], results[TRUE]} = {"pass", "fail"}
\* What a request says of itself in its metadata never admits a request type
\* that the parameters alone would not (allowedRequestTypes).
MetadataNeverWidens ==
    Both /\ check = "request_types" =>
        (results[FALSE] = "pass" => results[TRUE] = "pass")

\* A token whose key is published when the keys are read again is judged by
\* its signature, and one that has no key never passes (jwt).
RotatedKeyIsFound ==
    check = "jwt" => \A n \in DOMAIN results :
        /\ results[n] = "pass" => input.kid \in input.first \cup input.second
        /\ (/\ input.param /\ input.header /\ input.fetched /\ input.refetched /\ input.genuine
            /\ input.kid \in input.second) => results[n] = "pass"
=============================================================================
