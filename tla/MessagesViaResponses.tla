------------------------ MODULE MessagesViaResponses ------------------------
(***************************************************************************)
(* adapters/messagesViaResponses/streamTransform.ts: the events of a       *)
(* Responses stream become Messages events.  The provider opens output     *)
(* items and streams their content; it may open an item while function     *)
(* calls are unfinished, as the gateway's own Responses streams do.  Items *)
(* are numbered in order of opening.                                       *)
(***************************************************************************)
EXTENDS Integers, Sequences, FiniteSets, SequencesExt

CONSTANTS
  MaxItems, MaxDeltas,   \* bounds
  None

VARIABLES
  state,     \* ResponsesToMessagesStreamState
  client,
  items,     \* the provider's output items
  upstream   \* open, terminated and then over, truncated, or broken by an error

vars == <<state, client, items, upstream>>

\* The events go to the client that MessagesStream's go to.
Stream == INSTANCE MessagesStream WITH Chunks <- {}, MaxChunks <- 0, given <- <<>>,
                                       late <- FALSE, seen <- 0, end <- "open"

Types == {"reasoning", "message", "function_call", "web_search_call"}

BlockType(t) ==
  CASE t = "reasoning" -> "thinking" [] t = "message" -> "text" [] OTHER -> "tool_use"

----------------------------------------------------------------------------
Emit(st, e) == [st EXCEPT !.out = Append(@, e)]

Start(st) == IF st.started THEN st ELSE [Emit(st, Stream!MessageStart) EXCEPT !.started = TRUE]

Close(st) ==
  IF st.open = None THEN st
  ELSE [Emit(st, Stream!BlockStop(st.open.index)) EXCEPT !.open = None]

Open(st, type, item) ==
  LET s == Close(st) IN
  [Emit(s, Stream!BlockStart(s.nextIndex, type, item)) EXCEPT
     !.open = [index |-> s.nextIndex, type |-> type, item |-> item, sentArgs |-> FALSE],
     !.nextIndex = s.nextIndex + 1]

BlockFor(st, type, item) ==
  IF st.open # None /\ st.open.type = type /\ st.open.item = item THEN st
  ELSE Open(st, type, item)

\* A whole block at once.
EmitBlock(st, type, item) ==
  LET s == Close(st) IN
  [s EXCEPT !.nextIndex = @ + 1,
            !.out = @ \o <<Stream!BlockStart(s.nextIndex, type, item),
                         Stream!BlockStop(s.nextIndex)>>]

IsOpen(st, type, item) == st.open # None /\ st.open.type = type /\ st.open.item = item

----------------------------------------------------------------------------
(* The cases of transformResponsesStreamChunk.                             *)

ItemAdded(st, n, type) ==
  IF type = "function_call" THEN Open(Start(st), "tool_use", n) ELSE Start(st)

\* Deltas of a function call whose block is not the open one are dropped.
ArgumentsDelta(st, n) ==
  IF IsOpen(st, "tool_use", n)
  THEN [Emit(st, Stream!BlockDelta(st.open.index, "tool_use", 1, n)) EXCEPT !.open.sentArgs = TRUE]
  ELSE st

ContentDelta(st, n, type) ==
  LET s == BlockFor(Start(st), BlockType(type), n)
  IN  Emit(s, Stream!BlockDelta(s.open.index, s.open.type, 1, n))

\* A finished function call whose arguments were not streamed.
LateArguments(st, n, item) ==
  IF item.type = "function_call" /\ item.pieces > 0
     /\ st.open # None /\ st.open.type = "tool_use" /\ ~st.open.sentArgs
  THEN Emit(st, Stream!BlockDelta(st.open.index, "tool_use", item.pieces, n)) ELSE st

\* The encrypted content of a reasoning item is the signature of its open
\* block, or a block of its own.
ReasoningDone(st, n, encrypted) ==
  LET s == Start(st) IN
  CASE encrypted /\ IsOpen(s, "thinking", n) ->
         Emit(s, Stream!BlockDelta(s.open.index, "thinking", 0, n))
    [] encrypted /\ ~IsOpen(s, "thinking", n) -> EmitBlock(s, "redacted_thinking", n)
    [] OTHER -> s

SearchDone(st, n) ==
  EmitBlock(EmitBlock(Start(st), "server_tool_use", n), "web_search_tool_result", n)

CloseItem(st, n) == IF st.open # None /\ st.open.item = n THEN Close(st) ELSE st

ItemDone(st, n, item, encrypted) ==
  LET s == LateArguments(st, n, item)
      t == CASE item.type = "reasoning" -> ReasoningDone(s, n, encrypted)
             [] item.type = "web_search_call" -> SearchDone(s, n)
             [] OTHER -> s
  IN  CloseItem(t, n)

Completed(st) ==
  Emit([Close(Start(st)) EXCEPT !.completed = TRUE], Stream!MessageStop)

Failed(st) == Emit([st EXCEPT !.completed = TRUE], Stream!ErrorEvent)

----------------------------------------------------------------------------
\* Nothing is written once the answer is complete.
Transform(st) ==
  IF state.completed THEN UNCHANGED <<client, state>>
  ELSE /\ client' = FoldLeft(Stream!Accept, client, st.out)
       /\ state' = [st EXCEPT !.out = <<>>]

(* The provider's stream.                                                  *)

Unfinished == {n \in DOMAIN items : ~items[n].done}

Created ==
  /\ upstream = "open" /\ items = <<>>
  /\ Transform(Start(state))
  /\ UNCHANGED <<items, upstream>>

AddItem(type) ==
  /\ upstream = "open" /\ Len(items) < MaxItems
  /\ \A n \in Unfinished : items[n].type = "function_call"
  /\ items' = Append([n \in DOMAIN items |-> [items[n] EXCEPT !.alone = @ /\ items[n].done]],
                     [type |-> type, pieces |-> 0, streamed |-> 0, done |-> FALSE,
                      alone |-> Unfinished = {}])
  /\ Transform(ItemAdded(state, Len(items) + 1, type))
  /\ UNCHANGED upstream

StreamDelta(n) ==
  /\ upstream = "open" /\ n \in Unfinished /\ items[n].pieces < MaxDeltas
  /\ items[n].type # "web_search_call" /\ items[n].pieces = items[n].streamed
  /\ items' = [items EXCEPT ![n].pieces = @ + 1, ![n].streamed = @ + 1]
  /\ Transform(IF items[n].type = "function_call" THEN ArgumentsDelta(state, n)
               ELSE ContentDelta(state, n, items[n].type))
  /\ UNCHANGED upstream

\* A provider that sends a call's arguments only with the finished item.
UnstreamedArguments(n) ==
  /\ upstream = "open" /\ n \in Unfinished
  /\ items[n].type = "function_call" /\ items[n].pieces = 0
  /\ items' = [items EXCEPT ![n].pieces = 1]
  /\ UNCHANGED <<state, client, upstream>>

FinishItem(n) ==
  /\ upstream = "open" /\ n \in Unfinished
  /\ items' = [items EXCEPT ![n].done = TRUE]
  /\ \E encrypted \in BOOLEAN : Transform(ItemDone(state, n, items[n], encrypted))
  /\ UNCHANGED upstream

Terminate ==
  /\ upstream = "open"
  /\ upstream' = "terminated"
  /\ Transform(Completed(state)) \/ Transform(Failed(state))
  /\ UNCHANGED items

\* The source ends: transformResponsesStreamChunk(null).
End ==
  /\ upstream \in {"open", "terminated"}
  /\ upstream' = IF upstream = "open" THEN "truncated" ELSE "over"
  /\ Transform(Failed(state))
  /\ UNCHANGED items

\* Reading the source throws: the client's stream is closed as it is.
Break ==
  /\ upstream = "open"
  /\ upstream' = "broken"
  /\ UNCHANGED <<state, client, items>>

Init ==
  /\ state = [started |-> FALSE, completed |-> FALSE, nextIndex |-> 0, open |-> None, out |-> <<>>]
  /\ client = Stream!FreshClient /\ items = <<>> /\ upstream = "open"

Next ==
  \/ Created \/ Terminate \/ End \/ Break
  \/ \E t \in Types : AddItem(t)
  \/ \E n \in 1..MaxItems : StreamDelta(n) \/ UnstreamedArguments(n) \/ FinishItem(n)

Spec == Init /\ [][Next]_vars

----------------------------------------------------------------------------
(* Properties.                                                             *)

\* The type invariant.
TypeOK ==
  /\ upstream \in {"open", "terminated", "truncated", "over", "broken"} /\ state.out = <<>>
  /\ state.open # None => /\ state.open.item \in DOMAIN items
                          /\ state.open.index = state.nextIndex - 1

\* The Messages stream is legal whatever the Responses stream holds.
WellFormed == client.ok

\* "an upstream that ends without a terminal event, so the truncation stays
\* visible to the client (no message_stop is invented)": a stopped message
\* was terminated upstream, a truncated one has failed, and none is left open
\* but where the source breaks.
TruncationIsVisible ==
  /\ client.phase = "stopped" => upstream \in {"terminated", "over"}
  /\ upstream = "truncated" => client.phase = "failed"
  /\ upstream = "broken" => client.phase \in {"idle", "open"}
  /\ upstream = "over" => client.phase \in {"stopped", "failed"}

\* A block of its own for call n, holding its own arguments and all of them.
HasItsBlock(n) ==
  LET mine == SelectSeq(client.blocks, LAMBDA b : b.type = "tool_use" /\ b.of = n) IN
  Len(mine) = 1 /\ mine[1].own /\ mine[1].pieces = items[n].pieces

FinishedCalls == {n \in DOMAIN items : items[n].type = "function_call" /\ items[n].done}

\* The arguments of a finished call that no other item overlapped reach the
\* client in the call's block, streamed or sent with the finished item.  A
\* call that another item overlapped may lose them: deltas that come while
\* another block is open are dropped, and arguments that come with the
\* finished item go to whichever call's block is open.
CallsKeepTheirArguments ==
  client.phase = "stopped" => \A n \in FinishedCalls : items[n].alone => HasItsBlock(n)
=============================================================================
