----------------------------- MODULE TargetTree -----------------------------
(***************************************************************************)
(* tryTargetsRecursively (gateway/src/handlers/handlerUtils.ts): the walk  *)
(* through a config's tree of targets, with what targets inherit, and the  *)
(* loop of tryTargetsWithRouteFailover (middlewares/router/failover.ts)    *)
(* that walks it once per candidate model.                                 *)
(*                                                                         *)
(* Node 0 is the root.  A guardrail written in the config's shorthand is   *)
(* an object that convertHooksShorthand turns into a hook and, doing so,   *)
(* takes its deny key out of: denyKey says which objects still have it.    *)
(* The object is the config's own, shared by every walk of the request.    *)
(***************************************************************************)
EXTENDS Naturals, Sequences, FiniteSets, SequencesExt

CONSTANTS Nodes,      \* the nodes of a tree, 0 among them
          Trees,      \* the configs to try
          LeafAnswers,\* statuses a provider answers with
          Defaults    \* the root's default guardrails, one more object

VARIABLES tree,    \* the request's config, as the schema accepts it
          denyKey, \* guardrail objects that still carry deny
          stack,   \* the nested calls, innermost last
          ret,     \* what the last call returned, or Going
          calls,   \* tryPost calls of the current walk, oldest first
          visited, \* nodes the current walk entered
          walk,    \* number of the walk (the candidate it is for)
          final    \* what the client is answered

vars == <<tree, denyKey, stack, ret, calls, visited, walk, final>>

GuardObjects == Nodes \cup {Defaults}

Going == [status |-> 0, exception |-> FALSE]  \* no answer yet
Undef == [status |-> 1, exception |-> FALSE]  \* a walk that chose no target
RouterFailed == [status |-> 400, exception |-> TRUE]
Ok(r) == r.status \in 200..299

Top == stack[Len(stack)]
Popped == SubSeq(stack, 1, Len(stack) - 1)

-----------------------------------------------------------------------------
\* The guardrail objects a node converts when it is entered.
Converts(n) ==
    (IF tree.guard[n] # "none" THEN {n} ELSE {}) \cup
    (IF n = 0 /\ tree.defaults # "none" THEN {Defaults} ELSE {})

HookOf(g) == [owner |-> g, deny |-> g \in denyKey]

\* The circuit breaker's filter: with an id, open targets are left out unless
\* all are open; what is left remembers its place in the config.
Kids(n, id) ==
    LET all == [i \in DOMAIN tree.kids[n] |->
                  [node |-> tree.kids[n][i], original |-> i - 1]]
        healthy == SelectSeq(all, LAMBDA t : ~tree.open[t.node]) IN
    IF id /\ healthy # << >> THEN healthy
    ELSE [i \in DOMAIN all |-> [all[i] EXCEPT !.original = 0]]

\* The config a node runs with: its own hooks or the inherited ones, and the
\* root's default guardrails.
FrameOf(n, inherited, path) ==
    LET id == inherited.id \/ tree.cb[n]
        hooks == IF tree.guard[n] # "none" THEN {HookOf(n)} ELSE inherited.hooks
        defaults == IF n = 0 /\ tree.defaults # "none" THEN {HookOf(Defaults)}
                    ELSE inherited.defaults IN
    [node |-> n, path |-> path, next |-> 1,
     kids |-> Kids(n, id),
     config |-> [id |-> id, hooks |-> hooks, defaults |-> defaults]]

NoConfig == [id |-> FALSE, hooks |-> {}, defaults |-> {}]

\* tryTargetsRecursively is called on node n: the merge, with the keys that
\* converting its guardrails removes.
Enter(rest, n, inherited, path) ==
    /\ stack' = Append(rest, FrameOf(n, inherited, path))
    /\ visited' = visited \cup {n}
    /\ denyKey' = denyKey \ Converts(n)
    /\ ret' = Going

\* target.originalIndex || index.
PathIndex(i) == IF Top.kids[i].original # 0 THEN Top.kids[i].original ELSE i - 1

EnterKid(i) ==
    /\ Enter([stack EXCEPT ![Len(stack)].next = i + 1], Top.kids[i].node,
             Top.config, Append(Top.path, PathIndex(i)))
    /\ UNCHANGED <<tree, calls, walk, final>>

ReturnWith(r) ==
    /\ stack' = Popped /\ ret' = r
    /\ UNCHANGED <<tree, denyKey, calls, visited, walk, final>>

\* tryPost on the innermost frame ends; the call is recorded.
LeafReturns(status, exception, failing) ==
    /\ stack' = Popped
    /\ ret' = [status |-> status, exception |-> exception]
    /\ calls' = Append(calls, [node |-> Top.node, path |-> Top.path,
                              hooks |-> Top.config.hooks \cup Top.config.defaults,
                              failing |-> failing])
    /\ UNCHANGED <<tree, denyKey, visited, walk, final>>

Mode == IF stack = << >> THEN "none" ELSE tree.mode[Top.node]

Init ==
    /\ tree \in Trees
    /\ denyKey = {n \in Nodes : tree.guard[n] = "deny"} \cup
                 (IF tree.defaults = "deny" THEN {Defaults} ELSE {})
    /\ stack = << >> /\ ret = Going /\ calls = << >> /\ visited = {}
    /\ walk = 0 /\ final = Going

\* The handler calls tryTargetsRecursively on the root, once per candidate.
StartWalk ==
    /\ stack = << >> /\ ret = Going /\ final = Going
    /\ walk' = walk + 1 /\ calls' = << >>
    /\ stack' = <<FrameOf(0, NoConfig, << >>)>>
    /\ visited' = {0} /\ denyKey' = denyKey \ Converts(0)
    /\ UNCHANGED <<tree, ret, final>>

(***************************************************************************)
(* A leaf: tryPost.  The provider answers or the call throws, which        *)
(* becomes a marked response.  A guardrail that fails on a 200 turns it    *)
(* into a 446 when it denies and a 246 otherwise.                          *)
(***************************************************************************)
LeafCall ==
    /\ Mode = "leaf"
    /\ \/ \E s \in LeafAnswers : LeafReturns(s, FALSE, {})
       \/ LeafReturns(500, TRUE, {})
       \/ \E failing \in SUBSET (Top.config.hooks \cup Top.config.defaults) \ {{}} :
            LeafReturns(IF \E h \in failing : h.deny THEN 446 ELSE 246, FALSE,
                        failing)

\* Whether a fallback group is content with a target's answer: a status it
\* does not list, without a list a success, or an exception.
FallbackStops(r) ==
    \/ tree.codes[Top.node] # {} /\ r.status \notin tree.codes[Top.node]
    \/ tree.codes[Top.node] = {} /\ Ok(r)
    \/ r.exception

Fallback ==
    /\ Mode = "fallback"
    /\ \/ /\ ret = Going \/ ~FallbackStops(ret)
          /\ Top.next <= Len(Top.kids)
          /\ EnterKid(Top.next)
       \/ /\ ret # Going
          /\ FallbackStops(ret) \/ Top.next > Len(Top.kids)
          /\ ReturnWith(ret)

\* A random number below the total weight picks a target with weight; when no
\* target has any, none is picked and the walk returns undefined.
LoadBalance ==
    /\ Mode = "loadbalance"
    /\ \/ /\ ret = Going
          /\ \E i \in DOMAIN Top.kids :
               tree.weight[Top.kids[i].node] > 0 /\ EnterKid(i)
       \/ /\ ret = Going
          /\ \A i \in DOMAIN Top.kids : tree.weight[Top.kids[i].node] = 0
          /\ ReturnWith(Undef)
       \/ ret # Going /\ ReturnWith(ret)

\* The conditional router resolves to a target, or throws a RouterError that
\* no group catches: it ends the whole walk.
Conditional ==
    /\ Mode = "conditional"
    /\ \/ ret = Going /\ \E i \in DOMAIN Top.kids : EnterKid(i)
       \/ /\ ret = Going
          /\ stack' = << >> /\ ret' = RouterFailed
          /\ UNCHANGED <<tree, denyKey, calls, visited, walk, final>>
       \/ ret # Going /\ ReturnWith(ret)

Single ==
    /\ Mode = "single"
    /\ \/ ret = Going /\ EnterKid(1)
       \/ ret # Going /\ ReturnWith(ret)

\* configAllowsRouteFailover and the failure matrix: only a config without a
\* strategy is walked again, for the next candidate, after a 429 or a 5xx.
WalksAgain(r) ==
    /\ walk < tree.candidates
    /\ tree.mode[0] = "leaf"
    /\ r.status = 429 \/ r.status \in 500..599

WalkDone ==
    /\ stack = << >> /\ ret # Going /\ final = Going
    /\ final' = IF WalksAgain(ret) THEN Going ELSE ret
    /\ ret' = IF WalksAgain(ret) THEN Going ELSE ret
    /\ UNCHANGED <<tree, denyKey, stack, calls, visited, walk>>

\* The client has its answer.
Answered == final # Going /\ UNCHANGED vars

Next ==
    \/ StartWalk \/ LeafCall
    \/ Fallback \/ LoadBalance \/ Conditional \/ Single
    \/ WalkDone \/ Answered

Spec == Init /\ [][Next]_vars

-----------------------------------------------------------------------------
Frames == [node : Nodes, path : Seq(Nat), next : Nat, kids : Seq([node : Nodes, original : Nat]),
           config : [id : BOOLEAN, hooks : SUBSET [owner : GuardObjects, deny : BOOLEAN],
                     defaults : SUBSET [owner : GuardObjects, deny : BOOLEAN]]]
Answers == [status : Nat, exception : BOOLEAN]

\* The walk down the tree of targets: its stack and its answer.
TypeOK ==
    /\ denyKey \subseteq GuardObjects
    /\ \A i \in DOMAIN stack : stack[i] \in Frames
    /\ ret \in Answers /\ final \in Answers
    /\ visited \subseteq Nodes
    /\ walk \in 0..tree.candidates

\* The nodes from the root to the end of a path through the config.
NodesOn(path) ==
    LET at[d \in 0..Len(path)] ==
          IF d = 0 THEN 0 ELSE tree.kids[at[d - 1]][path[d] + 1] IN
    [d \in 1..(Len(path) + 1) |-> at[d - 1]]

\* The path a call is reported under (x-portkey-last-used-option-index)
\* leads through the config to the target that was called, whatever targets
\* the circuit breaker left out.
PathNamesTheTarget ==
    \A i \in DOMAIN calls : Last(NodesOn(calls[i].path)) = calls[i].node

\* A target whose circuit is open is called only when its whole group is
\* open, at every level below a breaker id.
OpenTargetsAreSpared ==
    \A i \in DOMAIN calls :
      LET on == NodesOn(calls[i].path) IN
      \A d \in 2..Len(on) :
        (tree.open[on[d]] /\ \E u \in 1..(d - 1) : tree.cb[on[u]]) =>
          \A j \in DOMAIN tree.kids[on[d - 1]] : tree.open[tree.kids[on[d - 1]][j]]

\* The guardrails a call ran with are those of the nearest target with
\* guardrails of its own and the root's defaults.  In the first walk they deny
\* as configured.  In the walks for the next candidates none of them denies:
\* convertHooksShorthand has taken the deny key out of the config's own
\* objects, so what a guardrail should have denied is only marked.
GuardrailsAreInherited ==
    \A i \in DOMAIN calls :
      LET on == NodesOn(calls[i].path)
          guarded == {d \in DOMAIN on : tree.guard[on[d]] # "none"}
          nearest == {on[d] : d \in {e \in guarded : \A f \in guarded : f <= e}}
          owners == nearest \cup (IF tree.defaults = "none" THEN {} ELSE {Defaults})
          denies == {g \in owners : IF g = Defaults THEN tree.defaults = "deny"
                                    ELSE tree.guard[g] = "deny"} IN
      /\ {h.owner : h \in calls[i].hooks} = owners
      /\ {h.owner : h \in {x \in calls[i].hooks : x.deny}} = IF walk = 1 THEN denies ELSE {}

\* When a fallback group at the root answers with a failure it should have
\* fallen back from, every target it may call was entered.
FailureMeansAllTried ==
    (final # Going /\ tree.mode[0] = "fallback" /\ ~final.exception
       /\ IF tree.codes[0] = {} THEN ~Ok(final) ELSE final.status \in tree.codes[0]) =>
        \A j \in DOMAIN tree.kids[0] :
            tree.kids[0][j] \in visited \/ (tree.open[tree.kids[0][j]] /\ tree.cb[0])

\* A walk returns no response only if a load balancer it entered had no target
\* with weight to choose from.
NoAnswerOnlyWithoutWeight ==
    final = Undef =>
        \E n \in visited :
            /\ tree.mode[n] = "loadbalance"
            /\ \A j \in DOMAIN tree.kids[n] :
                 \/ tree.weight[tree.kids[n][j]] = 0
                 \/ tree.open[tree.kids[n][j]]
=============================================================================
