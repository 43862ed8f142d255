--------------------------- MODULE MessagesStream ---------------------------
(***************************************************************************)
(* adapters/messages/streamTransform.ts: Chat Completions chunks become    *)
(* Messages API events.  A chunk says which deltas it carries; the events  *)
(* of a chunk are applied to a client that rebuilds the answer.  A tool    *)
(* call's arguments are counted in pieces.                                 *)
(***************************************************************************)
EXTENDS Integers, Sequences, FiniteSets, SequencesExt

CONSTANTS
  Chunks,      \* the chunks a provider may send
  MaxChunks,   \* bound
  None

VARIABLES
  state,       \* StreamState
  client,
  given,       \* pieces of arguments sent for each call, in order of opening
  late,        \* text, thinking or a finish came after a call had begun
  seen,        \* chunks so far
  end          \* of the source: open, ended, or broken by an error

vars == <<state, client, given, late, seen, end>>

\* Thinking and text blocks are blocks of nothing in particular.
Nothing == 0

NewCall(id) == [id |-> id, index |-> None, args |-> 0]

----------------------------------------------------------------------------
(* A client of the Messages API rebuilding an answer from its stream: the  *)
(* grammar that every adapter producing such streams has to keep           *)
(* (message_start, content blocks one at a time and numbered from zero,    *)
(* then message_delta and message_stop, or an error).                      *)

\* phase is idle, open, stopped or failed; open is the index of the open
\* block or -1; a block has its type, what it is a block of and its pieces.
FreshClient == [phase |-> "idle", blocks |-> <<>>, open |-> -1, ok |-> TRUE]

MessageStart == [event |-> "message_start"]
BlockStart(index, type, of) ==
  [event |-> "content_block_start", index |-> index, type |-> type, of |-> of]
BlockDelta(index, type, n, of) ==
  [event |-> "content_block_delta", index |-> index, type |-> type, n |-> n, of |-> of]
BlockStop(index) == [event |-> "content_block_stop", index |-> index]
MessageStop == [event |-> "message_stop"]
ErrorEvent == [event |-> "error"]

Legal(c, e) ==
  CASE e.event = "message_start" -> c.phase = "idle"
    [] e.event = "content_block_start" ->
         c.phase = "open" /\ c.open = -1 /\ e.index = Len(c.blocks)
    [] e.event = "content_block_delta" ->
         /\ c.phase = "open" /\ c.open = e.index
         /\ c.blocks[e.index + 1].type = e.type
    [] e.event = "content_block_stop" -> c.phase = "open" /\ c.open = e.index
    [] e.event = "message_stop" -> c.phase = "open" /\ c.open = -1
    [] e.event = "error" -> c.phase \in {"idle", "open"}

Effect(c, e) ==
  CASE e.event = "message_start" -> [c EXCEPT !.phase = "open"]
    [] e.event = "content_block_start" ->
         [c EXCEPT !.open = e.index,
                   !.blocks = Append(@, [type |-> e.type, of |-> e.of, pieces |-> 0, own |-> TRUE])]
    [] e.event = "content_block_delta" ->
         [c EXCEPT !.blocks[e.index + 1].pieces = @ + e.n,
                   !.blocks[e.index + 1].own = @ /\ c.blocks[e.index + 1].of = e.of]
    [] e.event = "content_block_stop" -> [c EXCEPT !.open = -1]
    [] e.event = "message_stop" -> [c EXCEPT !.phase = "stopped"]
    [] e.event = "error" -> [c EXCEPT !.phase = "failed"]

Accept(c, e) == IF c.ok /\ Legal(c, e) THEN Effect(c, e) ELSE [c EXCEPT !.ok = FALSE]

----------------------------------------------------------------------------
(* Each operator takes and returns the stream state, to whose out it       *)
(* appends the events.                                                     *)

Emit(st, e) == [st EXCEPT !.out = Append(@, e)]

CloseOpenBlock(st) ==
  IF st.open = None THEN st
  ELSE [Emit(st, BlockStop(st.open.index)) EXCEPT !.open = None]

OpenBlock(st, type, of) ==
  LET s == CloseOpenBlock(st) IN
  [Emit(s, BlockStart(s.next, type, of)) EXCEPT
     !.open = [index |-> s.next, type |-> type], !.next = s.next + 1]

EnsureBlock(st, type) ==
  IF st.open # None /\ st.open.type = type THEN st ELSE OpenBlock(st, type, Nothing)

\* A delta of the thinking or text block, which is opened when needed.
Delta(st, type) ==
  LET s == EnsureBlock(st, type) IN Emit(s, BlockDelta(s.open.index, type, 1, Nothing))

\* One complete block for a buffered call.
FlushOne(st, k) ==
  LET s == OpenBlock(st, "tool_use", k)
      args == s.calls[k].args
      t == IF args > 0 THEN Emit(s, BlockDelta(s.open.index, "tool_use", args, k)) ELSE s
  IN  CloseOpenBlock([t EXCEPT !.calls[k].index = s.open.index])

FlushBufferedTools(st) ==
  [FoldLeft(FlushOne, st, st.buffered) EXCEPT !.buffered = <<>>]

Start(st) == IF st.hasStarted THEN st ELSE [Emit(st, MessageStart) EXCEPT !.hasStarted = TRUE]

\* content_blocks with thinking and signatures, else a reasoning string.
Thinking(st, c) ==
  LET s == IF c.thinking THEN Delta(st, "thinking") ELSE st
      t == IF c.signature THEN Delta(s, "thinking") ELSE s
  IN  IF c.reasoning /\ ~c.thinking /\ ~c.signature THEN Delta(t, "thinking") ELSE t

Text(st, c) == IF c.text THEN Delta(st, "text") ELSE st

\* The call a tool_calls entry belongs to: a new id on a known index is a
\* new call.
Known(st, tc) ==
  /\ tc.index \in DOMAIN st.toolBlocks
  /\ tc.id \in {None, st.calls[st.toolBlocks[tc.index]].id}

\* A new call streams live unless another tool_use block is open.
Begin(st, tc) ==
  LET k == Len(st.calls) + 1
      s == [st EXCEPT !.calls = Append(@, NewCall(tc.id)), !.hasToolUse = TRUE,
                      !.toolBlocks = (tc.index :> k) @@ @]
  IN  IF (s.open # None /\ s.open.type = "tool_use") \/ s.buffered # <<>>
      THEN [s EXCEPT !.buffered = Append(@, k)]
      ELSE [OpenBlock(s, "tool_use", k) EXCEPT !.calls[k].index = s.next]

\* Arguments are buffered with their call, sent to its open block, or lost
\* when another block has taken its place.
Arguments(st, k) ==
  CASE st.calls[k].index = None -> [st EXCEPT !.calls[k].args = @ + 1]
    [] st.calls[k].index # None /\ st.open # None /\ st.open.index = st.calls[k].index ->
         Emit(st, BlockDelta(st.open.index, "tool_use", 1, k))
    [] OTHER -> st

ToolCall(st, tc) ==
  LET s == IF Known(st, tc) THEN st ELSE Begin(st, tc)
  IN  IF tc.args THEN Arguments(s, s.toolBlocks[tc.index]) ELSE s

Finish(st, c) ==
  IF c.finish THEN FlushBufferedTools(CloseOpenBlock([st EXCEPT !.finished = TRUE])) ELSE st

Transformed(st, c) ==
  Finish(FoldLeft(ToolCall, Text(Thinking(Start(st), c), c), c.tools), c)

----------------------------------------------------------------------------
\* What the events do at the client; the state keeps none of them.
Sent(st) ==
  /\ client' = FoldLeft(Accept, client, st.out)
  /\ state' = [st EXCEPT !.out = <<>>]

\* Pieces of arguments per call, counted as the provider sends them.
Given(st, c) ==
  FoldLeft(LAMBDA acc, tc :
             LET n == IF Known(acc.st, tc) THEN acc.st.toolBlocks[tc.index]
                      ELSE Len(acc.st.calls) + 1
             IN  [st |-> ToolCall(acc.st, tc),
                  given |-> IF n > Len(acc.given) THEN Append(acc.given, IF tc.args THEN 1 ELSE 0)
                            ELSE [acc.given EXCEPT ![n] = @ + IF tc.args THEN 1 ELSE 0]],
           [st |-> st, given |-> given], c.tools).given

OnChunk(c) ==
  /\ seen < MaxChunks /\ end = "open"
  /\ seen' = seen + 1
  /\ Sent(Transformed(state, c))
  /\ given' = Given(state, c)
  /\ late' = \/ late
             \/ given' # <<>> /\ c.finish
             \/ given # <<>> /\ (c.text \/ c.thinking \/ c.signature \/ c.reasoning)
  /\ UNCHANGED end

\* A provider error: an error event, without message_stop.
OnError ==
  /\ seen < MaxChunks /\ ~state.completed /\ end = "open"
  /\ seen' = seen + 1
  /\ Sent(Emit([state EXCEPT !.completed = TRUE], ErrorEvent))
  /\ UNCHANGED <<given, late, end>>


\* What [DONE] does: nothing before the first chunk or after the end.
OnDone ==
  IF state.hasStarted /\ ~state.completed
    THEN LET s == [state EXCEPT !.completed = TRUE] IN
         Sent(Emit(FlushBufferedTools(CloseOpenBlock(s)), MessageStop))
    ELSE UNCHANGED <<state, client>>

ProviderDone ==
  /\ end = "open" /\ state.hasStarted /\ ~state.completed
  /\ OnDone
  /\ UNCHANGED <<given, late, seen, end>>

\* The source ends, after [DONE] or in the middle of the answer: the adapter
\* sends [DONE] itself, for the providers that do not.
SourceEnds ==
  /\ end = "open" /\ end' = "ended"
  /\ OnDone
  /\ UNCHANGED <<given, late, seen>>

\* Reading the source throws: the client's stream is closed as it is.
SourceBreaks ==
  /\ end = "open" /\ end' = "broken"
  /\ UNCHANGED <<state, client, given, late, seen>>

Init ==
  /\ state = [hasStarted |-> FALSE, completed |-> FALSE, finished |-> FALSE, next |-> 0,
              open |-> None, calls |-> <<>>, toolBlocks |-> <<>>, buffered |-> <<>>,
              hasToolUse |-> FALSE, out |-> <<>>]
  /\ client = FreshClient /\ given = <<>> /\ late = FALSE /\ seen = 0
  /\ end = "open"

Ends == ProviderDone \/ SourceEnds \/ SourceBreaks

Next == (\E c \in Chunks : OnChunk(c)) \/ OnError \/ Ends

Spec == Init /\ [][Next]_vars

\* A provider that sends nothing after its error or [DONE].
OrderlyNext == (\E c \in Chunks : ~state.completed /\ OnChunk(c)) \/ OnError \/ Ends

----------------------------------------------------------------------------
(* Properties.                                                             *)

\* The type invariant: what the state points at exists.
TypeOK ==
  /\ seen \in 0..MaxChunks /\ end \in {"open", "ended", "broken"}
  /\ \A i \in DOMAIN state.toolBlocks : state.toolBlocks[i] \in DOMAIN state.calls
  /\ \A i \in DOMAIN state.buffered : state.calls[state.buffered[i]].index = None
  /\ Len(given) = Len(state.calls) /\ state.out = <<>>

\* The events are a legal stream however parallel tool calls, thinking, text
\* and finishes are mixed: one block at a time, numbered from zero, deltas of
\* the block's type, one end.
WellFormed == client.ok

\* A source that breaks never looks complete, and an answer whose source
\* ends has an end.  It has the same end, message_stop, whether the provider
\* had finished or was cut off without an error: the adapter's own [DONE]
\* does not tell them apart.
EndsAsTheSource ==
  /\ client.phase = "stopped" => state.hasStarted /\ state.completed
  /\ end = "broken" /\ ~state.completed => client.phase \in {"idle", "open"}
  /\ end = "ended" /\ state.hasStarted => client.phase \in {"stopped", "failed"}

\* "Anthropic blocks never interleave, but OpenAI-compatible streams may send
\* parallel calls' arguments interleaved, so these are buffered and sent, in
\* order": at the end the client has one block per call and no block with the
\* arguments of another.  The blocks are in order and have every piece of
\* their arguments unless text, thinking or the finish came before some of
\* them: arguments that come when another block has taken the call's place
\* are lost.
ToolCallsAreWhole ==
  LET tools == SelectSeq(client.blocks, LAMBDA b : b.type = "tool_use") IN
  client.phase = "stopped" =>
    /\ Len(tools) = Len(state.calls)
    /\ \A i \in DOMAIN tools :
         tools[i].own /\ (~late => tools[i].of = i /\ tools[i].pieces = given[i])
=============================================================================
