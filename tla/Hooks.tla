------------------------------- MODULE Hooks -------------------------------
(***************************************************************************)
(* HooksManager.executeHooks (gateway/src/middlewares/hooks/index.ts): the *)
(* hooks of one event run at the same time on one shared span context, and *)
(* so do the checks of a guardrail hook that is not sequential.  A check   *)
(* reads the context's text when it starts and may replace it with a       *)
(* transformed copy when it is done.  A copy that cannot be applied (it    *)
(* lacks its request or response) throws out of the hook, and executeHooks *)
(* lets the request pass, while the other hooks go on.                     *)
(*                                                                         *)
(* The text is the set of transformations it has been through: a check     *)
(* that rewrites the text it read adds itself to what it read.             *)
(***************************************************************************)
EXTENDS Naturals, Sequences, FiniteSets, SequencesExt, FiniteSetsExt

CONSTANTS HookCount,   \* hooks of the event, in the order of the config
          CheckCount,  \* checks of each hook
          Kinds        \* "mutator", "sequential" or "parallel" guardrail

HookIds == 1..HookCount
CheckIds == 1..CheckCount
HookConfigs == [kind : Kinds, deny : BOOLEAN, async : BOOLEAN,
                failOnError : BOOLEAN, lastEnabled : BOOLEAN]
Contexts ==
    { x \in [event : {"before", "after"}, endpoint : {"chat", "embed", "file"},
             status : {0, 200, 500}] :
        /\ (x.event = "before") <=> (x.status = 0)  \* no response yet
        /\ x.endpoint = "file" => x.event = "before" }

VARIABLES hook,     \* configuration of each hook
          ctx,      \* what shouldSkipHook looks at
          check,    \* state or outcome of each check
          read,     \* the text each check read
          text,     \* context.request.text / context.response.text
          isTransformed,
          results,  \* span.hooksResult, in the order the hooks finish
          deny,     \* what executeHooks returned: "no", "yes" or "pending"
          events    \* security events recordHookResults reported

vars == <<hook, ctx, check, read, text, isTransformed, results, deny, events>>

Outcomes == {"pass", "rewrite", "fail", "error", "broken"}
Pairs == HookIds \X CheckIds

\* The hooks of one request and the checks of each.
TypeOK ==
    /\ hook \in [HookIds -> HookConfigs] /\ ctx \in Contexts
    /\ check \in [Pairs -> {"off", "new", "running"} \cup Outcomes]
    /\ read \in [Pairs -> SUBSET Pairs]
    /\ text \subseteq Pairs /\ isTransformed \in BOOLEAN
    /\ results \in Seq([hook : HookIds, verdict : BOOLEAN])
    /\ Len(results) <= HookCount
    /\ deny \in {"pending", "no", "yes"}
    /\ \A e \in events : e.check \in Pairs

Init ==
    /\ hook \in [HookIds -> HookConfigs] /\ ctx \in Contexts
    /\ check = [p \in Pairs |-> "off"] /\ read = [p \in Pairs |-> {}]
    /\ text = {} /\ isTransformed = FALSE
    /\ results = << >> /\ deny = "pending" /\ events = {}

-----------------------------------------------------------------------------
\* shouldSkipHook: endpoints without inspectable content, output hooks of an
\* answer that is not a 200, mutators of an embedding.
Skipped(h) ==
    \/ ctx.endpoint = "file"
    \/ ctx.endpoint = "embed" /\ (ctx.event = "after" \/ hook[h].kind = "mutator")
    \/ ctx.event = "after" /\ ctx.status # 200

\* getHooksToExecute with the sync presets, the only ones the gateway uses.
Executed == {h \in HookIds : ~hook[h].async}

\* A mutator runs every check, a guardrail those that are enabled.
ChecksOf(h) ==
    {c \in CheckIds : hook[h].kind = "mutator" \/ c < CheckCount
                      \/ hook[h].lastEnabled}

Running == {h \in Executed : ~Skipped(h)}
Serial(h) == hook[h].kind \in {"mutator", "sequential"}
FirstOf(h) == Min(ChecksOf(h))
After(h, c) == {d \in ChecksOf(h) : d > c}

\* A hook passes when each of its checks does; an error fails it only with
\* failOnError.
Verdict(chk, h) ==
    \A c \in ChecksOf(h) :
        \/ chk[<<h, c>>] \in {"pass", "rewrite"}
        \/ chk[<<h, c>>] = "error" /\ ~hook[h].failOnError

Finished(h) == \E i \in DOMAIN results : results[i].hook = h
Threw == \E p \in Pairs : check[p] = "broken"

\* The start of executeHooks: every hook runs up to its first await, a
\* parallel guardrail with all its checks.
Start ==
    /\ deny = "pending" /\ results = << >>
    /\ \A p \in Pairs : check[p] = "off"
    /\ Running # {}
    /\ check' = [p \in Pairs |->
         IF p[1] \notin Running \/ p[2] \notin ChecksOf(p[1]) THEN "off"
         ELSE IF Serial(p[1]) /\ p[2] # FirstOf(p[1]) THEN "new" ELSE "running"]
    /\ results' = SetToSeq({[hook |-> h, verdict |-> TRUE] :
                              h \in {g \in Running : ChecksOf(g) = {}}})
    /\ UNCHANGED <<hook, ctx, read, text, isTransformed, deny, events>>

\* A check of a serial hook: its text is written back at once, and the next
\* check reads the context as it is then.  What cannot be applied ends the hook
\* without a result.
SerialCheckDone(h, c, o) ==
    LET written == IF o = "rewrite" THEN read[<<h, c>>] \cup {<<h, c>>} ELSE text
        chk == [check EXCEPT ![<<h, c>>] = o] IN
    /\ text' = written
    /\ isTransformed' = (isTransformed \/ o = "rewrite")
    /\ \/ /\ o # "broken" /\ After(h, c) # {}
          /\ check' = [chk EXCEPT ![<<h, Min(After(h, c))>>] = "running"]
          /\ read' = [read EXCEPT ![<<h, Min(After(h, c))>>] = written]
          /\ UNCHANGED results
       \/ /\ o # "broken" /\ After(h, c) = {}
          /\ check' = chk /\ UNCHANGED read
          /\ results' = Append(results, [hook |-> h, verdict |-> Verdict(chk, h)])
       \/ /\ o = "broken"
          /\ check' = chk /\ UNCHANGED <<read, results>>

\* A check of a parallel guardrail: when the last one is done, their texts
\* are written back in the order of the checks, each over the one before, up
\* to the first that cannot be applied.
ParallelCheckDone(h, c, o) ==
    LET chk == [check EXCEPT ![<<h, c>>] = o]
        over == \A d \in ChecksOf(h) : chk[<<h, d>>] \in Outcomes
        whole == \A d \in ChecksOf(h) : chk[<<h, d>>] # "broken"
        writers == {d \in ChecksOf(h) :
                      /\ chk[<<h, d>>] = "rewrite"
                      /\ \A e \in ChecksOf(h) : e < d => chk[<<h, e>>] # "broken"} IN
    /\ check' = chk
    /\ IF over /\ writers # {}
         THEN /\ text' = read[<<h, Max(writers)>>] \cup {<<h, Max(writers)>>}
              /\ isTransformed' = TRUE
         ELSE UNCHANGED <<text, isTransformed>>
    /\ results' = IF over /\ whole
                  THEN Append(results, [hook |-> h, verdict |-> Verdict(chk, h)])
                  ELSE results
    /\ UNCHANGED read

CheckDone ==
    \E h \in Running : \E c \in ChecksOf(h), o \in Outcomes :
      /\ check[<<h, c>>] = "running"
      /\ IF Serial(h) THEN SerialCheckDone(h, c, o) ELSE ParallelCheckDone(h, c, o)
      /\ UNCHANGED <<hook, ctx, deny, events>>

\* Promise.all gives the results in the order of the hooks: a failed hook
\* denies when it is configured to.
Denies ==
    \E i \in DOMAIN results : ~results[i].verdict /\ hook[results[i].hook].deny

\* recordHookResults: did this check make its hook deny?
Blocked(h, o) ==
    hook[h].deny /\ (o = "fail" \/ (o = "error" /\ hook[h].failOnError))

\* The events of one check: its verdict, and a detection when it is a check
\* for personal data that found some (and failed or redacted it) or one for
\* injections that failed.  The last check of a hook is of that sort.
EventsOf(h, c) ==
    LET o == check[<<h, c>>]
        event(name) == [name |-> name, check |-> <<h, c>>, blocked |-> Blocked(h, o)] IN
    {event("guardrail.verdict")}
      \cup IF c = CheckCount /\ o \in {"fail", "rewrite"} THEN {event("detected")} ELSE {}

\* The hooks have finished: executeHooks reports each check that ran and
\* returns whether to deny.
Return ==
    /\ deny = "pending"
    /\ \A h \in Running : Finished(h)
    /\ deny' = IF Denies THEN "yes" ELSE "no"
    /\ events' = UNION {EventsOf(p[1], p[2]) :
                          p \in {q \in Running \X CheckIds : q[2] \in ChecksOf(q[1])}}
    /\ UNCHANGED <<hook, ctx, check, read, text, isTransformed, results>>

\* The catch of executeHooks: a hook threw, whatever the others found or find.
LetPass ==
    /\ deny = "pending" /\ Threw
    /\ deny' = "no"
    /\ UNCHANGED <<hook, ctx, check, read, text, isTransformed, results, events>>

\* The caller goes on with the verdict.
Returned == deny # "pending" /\ UNCHANGED vars

Next == Start \/ CheckDone \/ Return \/ LetPass \/ Returned

Spec == Init /\ [][Next]_vars

-----------------------------------------------------------------------------
\* The request is denied exactly when a check failed, or erred under
\* failOnError, in a hook that denies, in whatever order hooks and checks
\* finished; a skipped or async hook never denies.  One exception, which the
\* code makes on purpose: once any hook of the event throws, nothing denies.
DenyFollowsTheChecks ==
    deny # "pending" =>
        (deny = "yes" <=>
           /\ ~Threw
           /\ \E h \in Running : \E c \in ChecksOf(h) :
               /\ hook[h].deny
               /\ \/ check[<<h, c>>] = "fail"
                  \/ check[<<h, c>>] = "error" /\ hook[h].failOnError)

\* What the security events say is what happened to the request: an event says
\* "blocked" exactly when executeHooks denied because of its check, and a denied
\* request always has one.  The reporter decides this from the checks, the hooks
\* manager from the verdicts of the hooks.
EventsTellTheOutcome ==
    deny # "pending" => (deny = "yes" <=> \E e \in events : e.blocked)

\* The rewritings that were applied: those of a parallel guardrail once all its
\* checks are done, up to the first that cannot be applied.
Applied ==
    {p \in Pairs :
        /\ check[p] = "rewrite"
        /\ ~Serial(p[1]) =>
             /\ \A c \in ChecksOf(p[1]) : check[<<p[1], c>>] \in Outcomes
             /\ \A c \in ChecksOf(p[1]) : c < p[2] => check[<<p[1], c>>] # "broken"}

\* A rewriting is lost only to one that overlaps it: it is in the text that is
\* sent on, or another check, of another hook or of the same parallel one, that
\* had read the text before it was written wrote its own.  (The code does lose
\* it then: setContextAfterTransform replaces the whole text.)
LostOnlyToOverlap ==
    \A p \in Applied :
        p \in text \/ \E q \in text : /\ p \notin read[q]
                                   /\ q[1] = p[1] => ~Serial(p[1])

\* Nothing rewritten is sent as the original: what is sent on is marked as
\* transformed exactly when a rewriting was applied, and then it holds one.
RewrittenIsMarked ==
    /\ isTransformed <=> Applied # {}
    /\ isTransformed <=> text # {}
    /\ text \subseteq Applied
=============================================================================
