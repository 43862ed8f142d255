------------------------------ MODULE McpProxy ------------------------------
(***************************************************************************)
(* gateway/src/mcp (handler.ts, policy.ts, guardrails.ts, sse.ts): the     *)
(* proxy in front of one MCP server.  Requests overlap at every await: the *)
(* guardrails, the upstream call, each event of a stream, and, while a     *)
(* tools/list result is filtered, the hash of each pinned tool.  What the  *)
(* filter learns of the tools decides later calls.                         *)
(***************************************************************************)
EXTENDS Integers, Sequences, FiniteSets

CONSTANTS
  Requests,     \* requests in flight
  Tools,        \* tool names
  Allowed,      \* those that the server's allow or deny list lets through
  GroupTools,   \* those that the groupRule of each request lets through
  Pinned,       \* tools with a pinned definition
  Block,        \* on_description_change is "block"
  Lists,        \* tools/list results: sequences of [name, def, header]
  Kinds,        \* the methods that clients use
  Conformant,   \* the server answers a request at most once
  MaxEvents,    \* bound: events of a stream
  MaxPosts,     \* bound: requests
  None

VARIABLES
  drifted,   \* pinned tools last seen with another definition
  invalid,   \* tools last seen with a bad x-mcp-header annotation
  req,       \* requests
  posts,     \* requests so far
  shown      \* per tool: how the lists that may have the last word show it
             \* (history: set when a list arrives, before it is filtered)

vars == <<drifted, invalid, req, posts, shown>>

Idle == [phase |-> "idle", kind |-> None, tool |-> None, stream |-> FALSE, events |-> 0,
         left |-> <<>>, kept |-> {}, names |-> {}, verdict |-> None, answered |-> FALSE,
         abandoned |-> FALSE, gone |-> FALSE, forwarded |-> FALSE,
         requests |-> 0, calls |-> 0, out |-> {}]

----------------------------------------------------------------------------
(* Answers and their record.                                               *)

Released(st, type, body) == [st EXCEPT !.out = @ \cup {[type |-> type, body |-> body]}]

\* finish: recordRequest, and recordToolCall for a call that was neither
\* denied nor invalid.
Finish(st, outcome) ==
  [st EXCEPT !.requests = @ + 1,
             !.calls = @ + IF st.kind = "call" /\ outcome \notin {"denied", "invalid"} THEN 1 ELSE 0]

Done(st) == [st EXCEPT !.phase = "done", !.left = <<>>, !.names = {}, !.kept = {}, !.verdict = None]

\* rpcError with the outcome recorded.
Refused(st, outcome) == Done(Released(Finish(st, outcome), "error", None))

Becomes(r, st) == req' = [req EXCEPT ![r] = st]
Learnt == <<drifted, invalid>>
Policy == <<drifted, invalid, shown>>

Inspect(st) == st.kind \in {"list", "call"}

----------------------------------------------------------------------------
(* tools/call: the policy.                                                 *)

\* toolCallDecision
ToolCallDecision(t) ==
  /\ t \in Allowed
  /\ Block => t \notin drifted
  /\ t \notin invalid

\* The first part of mcpHandler: authentication, the group's servers and the
\* message (wellFormed) and, for a call, the tool policy, the group's rule
\* and the mirrored headers.
Post(r, kind, t, wellFormed, headersMatch) ==
  LET st == [Idle EXCEPT !.kind = kind, !.tool = t, !.phase = "upstream", !.forwarded = TRUE]
      ask == [st EXCEPT !.phase = "input guardrails", !.forwarded = FALSE]
      refused == [st EXCEPT !.forwarded = FALSE]
  IN  /\ req[r].phase = "idle" /\ posts < MaxPosts
      /\ posts' = posts + 1
      /\ UNCHANGED Policy
      /\ CASE ~wellFormed -> Becomes(r, Refused(refused, "invalid"))
           [] wellFormed /\ kind = "task" -> Becomes(r, Refused(refused, "denied"))
           [] wellFormed /\ kind = "call" ->
                Becomes(r, IF ~ToolCallDecision(t) \/ t \notin GroupTools[r]
                           THEN Refused(refused, "denied")
                           ELSE IF ~headersMatch THEN Refused(refused, "invalid") ELSE ask)
           [] OTHER -> Becomes(r, st)

\* mcpGuardrailsBlock on the arguments.
InputGuardrails(r, blocked) ==
  /\ req[r].phase = "input guardrails"
  /\ Becomes(r, IF blocked THEN Refused(req[r], "blocked")
                ELSE [req[r] EXCEPT !.phase = "upstream", !.forwarded = TRUE])
  /\ UNCHANGED <<posts, Policy>>

----------------------------------------------------------------------------
(* The upstream's answer.                                                  *)

\* The server is unreachable or too slow, refuses the gateway, or answers a
\* request with 202, an unreadable body or a body that is not its response.
\* A client that leaves now looks like an unreachable server.
UpstreamFails(r) ==
  /\ req[r].phase = "upstream"
  /\ Becomes(r, Refused(req[r], "upstream_error"))
  /\ UNCHANGED <<posts, Policy>>

\* A notification is acknowledged without a body, and so is a GET or DELETE
\* that opens no stream.
Acknowledged(r) ==
  /\ req[r].phase = "upstream" /\ req[r].kind \in {"notification", "get"}
  /\ Becomes(r, Done(Finish(req[r], "ok")))
  /\ UNCHANGED <<posts, Policy>>

\* The response to the request: a list, and in verdict whether the output
\* guardrails will block a result or tools/list failed.
Response(st, l, bad) ==
  [st EXCEPT !.phase = "inspect", !.verdict = bad, !.left = l, !.names = {}, !.kept = {}]

Shows(l, t) == {l[i] : i \in {j \in DOMAIN l : l[j].name = t
                                            /\ \A k \in 1..j - 1 : l[k].name # t}}

\* A list is being filtered that has this tool ahead.
Ahead(t) ==
  \E r \in Requests : /\ req[r].phase = "inspect" /\ req[r].kind = "list" /\ ~req[r].verdict
                      /\ t \notin req[r].names /\ Shows(req[r].left, t) # {}

\* A list that arrives has the last word on the tools it shows, unless one that
\* is being filtered then comes to them later.
Arrives(l, bad) ==
  shown' = [t \in Tools |->
              IF bad \/ Shows(l, t) = {} THEN shown[t]
              ELSE Shows(l, t) \cup IF Ahead(t) THEN shown[t] ELSE {}]

\* An HTTP error: a JSON-RPC error in its body is checked like a response.
HttpError(r, rpcErrorBody, bad) ==
  /\ req[r].phase = "upstream" /\ req[r].kind \notin {"notification", "get"}
  /\ Becomes(r, IF rpcErrorBody /\ req[r].kind = "call" THEN Response(req[r], <<>>, bad)
                ELSE Done(Released(Finish(req[r], "error"), "error", None)))
  /\ UNCHANGED <<posts, Policy>>

JsonAnswer(r, l, bad) ==
  /\ req[r].phase = "upstream" /\ req[r].kind \notin {"notification", "get"}
  /\ Becomes(r, IF Inspect(req[r]) THEN Response(req[r], l, bad)
                ELSE Done(Released(Finish(req[r], "ok"), "response", bad)))
  /\ Arrives(l, bad)
  /\ UNCHANGED <<posts, Learnt>>

OpenStream(r) ==
  /\ req[r].phase = "upstream" /\ req[r].kind # "notification"
  /\ LET st == [req[r] EXCEPT !.phase = "stream", !.stream = TRUE]
     IN  Becomes(r, IF Inspect(st) THEN st ELSE Finish(st, "ok"))
  /\ UNCHANGED <<posts, Policy>>

----------------------------------------------------------------------------
(* filterSseStream.                                                        *)

Event(r) ==
  /\ req[r].phase = "stream" /\ req[r].events < MaxEvents
  /\ UNCHANGED <<posts, Learnt>>

Seen(st) == [st EXCEPT !.events = @ + 1]

\* A request or notification of the server.
StreamMessage(r) ==
  Event(r) /\ Becomes(r, Released(Seen(req[r]), "message", None)) /\ UNCHANGED shown

\* A response to another request, or data that is no JSON-RPC message.
StreamOther(r) == Event(r) /\ Becomes(r, Seen(req[r])) /\ UNCHANGED shown

\* The response to this request; on a GET stream there is none.
StreamResponse(r, l, bad) ==
  /\ Event(r) /\ Arrives(l, bad)
  /\ Conformant => ~req[r].answered
  /\ req[r].kind # "get"
  /\ LET st == [Seen(req[r]) EXCEPT !.answered = TRUE]
     IN  Becomes(r, IF Inspect(st) THEN Response(st, l, bad) ELSE Released(st, "response", bad))

\* An event over maxEventBytes ends the stream.
StreamTooLarge(r) ==
  LET st == [Seen(req[r]) EXCEPT !.answered = TRUE]
      f == IF Inspect(st) /\ ~req[r].answered THEN Finish(st, "upstream_error") ELSE st
  IN  /\ Event(r) /\ UNCHANGED shown
      /\ Becomes(r, Done(IF f.kind = "get" THEN f ELSE Released(f, "error", None)))

StreamEnds(r) ==
  LET st == req[r] IN
  /\ st.phase = "stream"
  /\ Becomes(r, Done(IF Inspect(st) /\ ~st.answered THEN Finish(st, "upstream_error") ELSE st))
  /\ UNCHANGED <<posts, Policy>>

\* The connection to the server or to the client is lost: nothing is flushed.
StreamBreaks(r) ==
  /\ req[r].phase = "stream"
  /\ Becomes(r, [Done(req[r]) EXCEPT !.abandoned = ~req[r].answered /\ Inspect(req[r])])
  /\ UNCHANGED <<posts, Policy>>

\* The client leaves while a response of the stream is checked.
ClientLeaves(r) ==
  /\ req[r].phase = "inspect" /\ req[r].stream /\ ~req[r].gone
  /\ Becomes(r, [req[r] EXCEPT !.gone = TRUE])
  /\ UNCHANGED <<posts, Policy>>

----------------------------------------------------------------------------
(* onResponse.                                                             *)

\* The checked response goes to the client.
Answer(st, type, body) ==
  LET sent == IF st.gone THEN st ELSE Released(st, type, body) IN
  IF st.stream /\ ~st.gone
  THEN [sent EXCEPT !.phase = "stream", !.left = <<>>, !.names = {}, !.kept = {}, !.verdict = None]
  ELSE Done(sent)

\* The output guardrails on the result of a call.
OutputGuardrails(r) ==
  /\ req[r].phase = "inspect" /\ req[r].kind = "call"
  /\ LET st == req[r] IN
     Becomes(r, IF st.verdict THEN Answer(Finish(st, "blocked"), "error", None)
                ELSE Answer(Finish(st, "ok"), "response", st.verdict))
  /\ UNCHANGED <<posts, Policy>>

\* What of a listed tool the filter keeps.
Keeps(r, tool) ==
  /\ tool.header # "invalid"
  /\ ~(Block /\ tool.name \in Pinned /\ tool.def # "pinned")
  /\ tool.name \in GroupTools[r]

\* Mutant: only a tool of the group that lists is compared with its pin.
MutLearn(r, tool) ==
  LET changed == tool.name \in Pinned /\ tool.def # "pinned" IN
  /\ drifted' = IF tool.name \notin GroupTools[r] THEN drifted
                ELSE IF changed THEN drifted \cup {tool.name} ELSE drifted \ {tool.name}
  /\ invalid' = IF changed /\ Block THEN invalid
                ELSE IF tool.header = "invalid" THEN invalid \cup {tool.name}
                ELSE invalid \ {tool.name}

\* What later calls of every group go by: the pin and the annotations of the
\* tool as it is listed now.
Learn(r, tool) ==
  LET changed == tool.name \in Pinned /\ tool.def # "pinned" IN
  /\ drifted' = IF changed THEN drifted \cup {tool.name} ELSE drifted \ {tool.name}
  /\ invalid' = IF changed /\ Block THEN invalid
                ELSE IF tool.header = "invalid" THEN invalid \cup {tool.name}
                ELSE invalid \ {tool.name}

\* filterToolsList, one tool: a repeated name and a name outside the policy
\* are dropped unseen.
FilterTool(r) ==
  LET st == req[r]
      tool == Head(st.left)
      skip == tool.name \in st.names \/ tool.name \notin Allowed
      next == [st EXCEPT !.left = Tail(@), !.names = @ \cup {tool.name}]
  IN  /\ st.phase = "inspect" /\ st.kind = "list" /\ ~st.verdict /\ st.left # <<>>
      /\ IF skip THEN UNCHANGED Learnt ELSE Learn(r, tool)
      /\ Becomes(r, IF ~skip /\ Keeps(r, tool) THEN [next EXCEPT !.kept = @ \cup {tool}] ELSE next)
      /\ UNCHANGED <<posts, shown>>

ListFiltered(r) ==
  LET st == req[r] IN
  /\ st.phase = "inspect" /\ st.kind = "list" /\ ~st.verdict /\ st.left = <<>>
  /\ Becomes(r, Answer(Finish(st, "ok"), "response", st.kept))
  /\ UNCHANGED <<posts, Policy>>

ListFailed(r) ==
  /\ req[r].phase = "inspect" /\ req[r].kind = "list" /\ req[r].verdict
  /\ Becomes(r, Answer(Finish(req[r], "error"), "error", None))
  /\ UNCHANGED <<posts, Policy>>

----------------------------------------------------------------------------
Forget(r) ==
  /\ req[r].phase = "done"
  /\ Becomes(r, Idle)
  /\ UNCHANGED <<posts, Policy>>

Init ==
  /\ drifted = {} /\ invalid = {} /\ posts = 0
  /\ req = [r \in Requests |-> Idle]
  /\ shown = [t \in Tools |-> {}]

\* The results that a server can send to a request of this kind.
Results(r) == IF req[r].kind = "list" THEN Lists ELSE {<<>>}

Receive(r) ==
  \/ \E k \in Kinds, t \in Tools, wf, hm \in BOOLEAN :
       /\ k # "call" => t = CHOOSE u \in Tools : TRUE
       /\ Post(r, k, t, wf, hm)
  \/ Forget(r) \/ StreamBreaks(r) \/ ClientLeaves(r)

Serve(r) ==
  \/ \E b \in BOOLEAN : InputGuardrails(r, b)
  \/ OutputGuardrails(r) \/ FilterTool(r) \/ ListFiltered(r) \/ ListFailed(r)

Upstream(r) ==
  \/ UpstreamFails(r) \/ Acknowledged(r) \/ OpenStream(r)
  \/ \E e, b \in BOOLEAN : HttpError(r, e, b)
  \/ \E l \in Results(r), b \in BOOLEAN : JsonAnswer(r, l, b)

Stream(r) ==
  \/ StreamMessage(r) \/ StreamOther(r) \/ StreamTooLarge(r) \/ StreamEnds(r)
  \/ \E l \in Results(r), b \in BOOLEAN : StreamResponse(r, l, b)

Next == \E r \in Requests : Receive(r) \/ Serve(r) \/ Upstream(r) \/ Stream(r)

Spec == Init /\ [][Next]_vars

----------------------------------------------------------------------------
(* Properties.                                                             *)

\* The type invariant.
TypeOK ==
  /\ drifted \subseteq Pinned \cap Allowed /\ invalid \subseteq Allowed
  /\ posts \in 0..MaxPosts
  /\ \A r \in Requests :
       /\ req[r].phase \in {"idle", "input guardrails", "upstream", "stream", "inspect", "done"}
       /\ req[r].phase = "inspect" <=> req[r].verdict # None
       /\ req[r].forwarded => req[r].kind \notin {"task", None}

\* handler.ts: a response reaches the client only where it was checked: never
\* on a GET stream or under another id, no blocked tool result, and no list
\* with a tool that the policy, the pin or the caller's group refuses.
OnlyCheckedIsReleased ==
  \A r \in Requests : \A m \in req[r].out :
    /\ m.type # "other response"
    /\ m.type = "response" =>
         /\ req[r].kind # "get"
         /\ req[r].kind = "call" => ~m.body
         /\ req[r].kind = "list" => \A tool \in m.body :
              /\ tool.name \in Allowed \cap GroupTools[r] /\ tool.header # "invalid"
              /\ Block /\ tool.name \in Pinned => tool.def = "pinned"

\* policy.ts: once no list is being filtered that still has a tool ahead, a call
\* to that tool is decided by one list, the last that arrived or one that was
\* filtered while it arrived, whichever group asked for it: its pin and its
\* annotations are never those of two lists.
PolicyFollowsTheLists ==
  \A t \in Allowed : shown[t] # {} /\ ~Ahead(t) =>
    \E tool \in shown[t] :
      /\ t \in drifted <=> t \in Pinned /\ tool.def # "pinned"
      /\ ~(Block /\ t \in drifted) => (t \in invalid <=> tool.header = "invalid")

\* telemetry.ts: a request that reached its end is recorded once, and a call
\* that passed the policy has one tool call event, if the server answers it
\* once and its stream is not cut off.
RecordedOnce ==
  \A r \in Requests : req[r].phase = "done" /\ ~req[r].abandoned =>
    /\ req[r].requests = 1
    /\ req[r].kind = "call" /\ req[r].forwarded => req[r].calls = 1
=============================================================================
