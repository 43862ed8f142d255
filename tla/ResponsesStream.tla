-------------------------- MODULE ResponsesStream --------------------------
(***************************************************************************)
(* adapters/responses/streamTransform.ts: Chat Completions chunks become   *)
(* the events of a Responses API stream.  The events of a chunk are        *)
(* applied to a client that rebuilds the response; what it has rebuilt     *)
(* must be what the terminal event says.  Text, arguments and annotations  *)
(* are counted.                                                            *)
(***************************************************************************)
EXTENDS Integers, Sequences, FiniteSets, SequencesExt

CONSTANTS
  Chunks,      \* the chunks a provider may send
  Carry,       \* carriesThinking(provider)
  MaxChunks,   \* bound
  None

VARIABLES
  state,    \* StreamState
  client,   \* the client's copy of the response
  seen,     \* chunks so far
  end       \* of the source: open, ended, or broken by an error

vars == <<state, client, seen, end>>

----------------------------------------------------------------------------
(* The client.                                                             *)

FreshClient == [phase |-> "idle", items |-> <<>>, ok |-> TRUE]

LiveItem(c, e) ==
  c.phase = "open" /\ e.item \in DOMAIN c.items /\ ~c.items[e.item].done

\* What a .done event repeats and the final snapshot holds of an item.
Content(it) == [kind |-> it.kind, text |-> it.text, notes |-> it.notes, search |-> it.search]

Legal(c, e) ==
  CASE e.event = "created" -> c.phase = "idle"
    [] e.event = "added" -> c.phase = "open" /\ e.item = Len(c.items) + 1
    [] e.event = "delta" -> LiveItem(c, e) /\ c.items[e.item].kind = e.kind
    [] e.event = "annotation" ->
         LiveItem(c, e) /\ c.items[e.item].kind = "message"
           /\ e.index = c.items[e.item].notes
           /\ e.start <= e.end /\ e.end <= c.items[e.item].text
    [] e.event = "searching" -> LiveItem(c, e) /\ c.items[e.item].search = "in_progress"
    [] e.event = "search completed" -> LiveItem(c, e) /\ c.items[e.item].search = "searching"
    [] e.event = "done" ->
         /\ LiveItem(c, e)
         /\ Content(c.items[e.item]) = [e.content EXCEPT !.search =
              IF @ = "failed" THEN c.items[e.item].search ELSE @]
    [] e.event = "end" ->
         /\ c.phase = "open" /\ \A i \in DOMAIN c.items : c.items[i].done
         /\ [i \in DOMAIN c.items |-> Content(c.items[i])] = e.output

Effect(c, e) ==
  CASE e.event = "created" -> [c EXCEPT !.phase = "open"]
    [] e.event = "added" ->
         [c EXCEPT !.items = Append(@, [kind |-> e.kind, text |-> 0, notes |-> 0, done |-> FALSE,
            search |-> IF e.kind = "web_search_call" THEN "in_progress" ELSE None])]
    [] e.event = "delta" -> [c EXCEPT !.items[e.item].text = @ + 1]
    [] e.event = "annotation" -> [c EXCEPT !.items[e.item].notes = @ + 1]
    [] e.event = "searching" -> [c EXCEPT !.items[e.item].search = "searching"]
    [] e.event = "search completed" -> [c EXCEPT !.items[e.item].search = "completed"]
    [] e.event = "done" ->
         [c EXCEPT !.items[e.item].done = TRUE, !.items[e.item].search = e.content.search]
    [] e.event = "end" -> [c EXCEPT !.phase = e.status]

Accept(c, e) == IF c.ok /\ Legal(c, e) THEN Effect(c, e) ELSE [c EXCEPT !.ok = FALSE]

----------------------------------------------------------------------------
(* The output items.  Each operator takes and returns the stream state, to *)
(* whose out it appends the events.  Items are numbered from one.          *)

Emit(st, e) == [st EXCEPT !.out = Append(@, e)]

\* itemJson: a search without a result did not complete.
ItemJson(it) ==
  [Content(it) EXCEPT !.search =
     IF it.kind # "web_search_call" THEN None
     ELSE IF it.search = "completed" THEN "completed" ELSE "failed"]

OpenItem(st, kind, id) ==
  Emit([st EXCEPT !.items = Append(@, [kind |-> kind, id |-> id, text |-> 0, notes |-> 0,
                                       search |-> None, done |-> FALSE])],
       [event |-> "added", item |-> Len(st.items) + 1, kind |-> kind])

AddAnnotation(st, i, start, stop) ==
  [Emit(st, [event |-> "annotation", item |-> i, index |-> st.items[i].notes,
             start |-> start, end |-> stop]) EXCEPT !.items[i].notes = @ + 1]

\* flushCitations: the citations of the current block, once its text is
\* complete.
FlushCitations(st) ==
  LET b == st.cited IN
  IF b = None THEN st
  ELSE IF b.citations = 0 THEN st
  ELSE LET s == [st EXCEPT !.cited.citations = 0] IN
       IF b.item = 0 THEN s
       ELSE IF st.items[b.item].done THEN s
       ELSE FoldLeft(LAMBDA acc, n : AddAnnotation(acc, b.item, b.start, acc.items[b.item].text),
                     s, [n \in 1..b.citations |-> n])

CloseItem(st, i) ==
  IF st.items[i].done THEN st
  ELSE LET s == IF st.items[i].kind = "message" /\ st.cited # None /\ st.cited.item = i
                THEN FlushCitations(st) ELSE st
           t == [s EXCEPT !.items[i].done = TRUE, !.open = IF @ = i THEN 0 ELSE @]
       IN  Emit(t, [event |-> "done", item |-> i, content |-> ItemJson(t.items[i])])

CloseAll(st, is) ==
  FoldLeft(LAMBDA acc, i : IF i \in is THEN CloseItem(acc, i) ELSE acc,
           st, [i \in DOMAIN st.items |-> i])

EnsureOpen(st, kind) ==
  IF st.open # 0 /\ st.items[st.open].kind = kind THEN st
  ELSE LET s == IF st.open # 0 THEN CloseItem(st, st.open) ELSE st
       IN  [OpenItem(s, kind, None) EXCEPT !.open = Len(s.items) + 1]

\* appendText: the first text of a cited block says where the block starts.
AppendText(st, kind) ==
  LET s == EnsureOpen(st, kind)
      i == s.open
      t == IF kind = "message" /\ s.cited # None /\ s.cited.item = 0
           THEN [s EXCEPT !.cited.item = i, !.cited.start = s.items[i].text] ELSE s
  IN  Emit([t EXCEPT !.items[i].text = @ + 1], [event |-> "delta", item |-> i, kind |-> kind])

\* carriedBlock: a signature or redacted thinking goes to the open reasoning
\* item.
CarriedBlock(st) == IF Carry THEN EnsureOpen(st, "reasoning") ELSE st

SearchResult(st, i, completed) ==
  IF st.items[i].done \/ st.items[i].search # None THEN st
  ELSE LET s == Emit([st EXCEPT !.items[i].search = IF completed THEN "completed" ELSE "failed"],
                     [event |-> "searching", item |-> i])
       IN  IF completed THEN Emit(s, [event |-> "search completed", item |-> i]) ELSE s

----------------------------------------------------------------------------
(* The parts of a chunk, in the order transformStreamChunk reads them.     *)

\* A block of another index ends the cited one.
NewBlock(st, b) ==
  IF st.cited # None /\ st.cited.index = b.index THEN st
  ELSE [FlushCitations(st) EXCEPT
          !.cited = [index |-> b.index, item |-> 0, start |-> 0, citations |-> 0]]

Items(st) == DOMAIN st.items
Searches(st) == {i \in Items(st) : st.items[i].kind = "web_search_call"}

StartSearch(st, b) ==
  LET s == OpenItem(CloseAll(st, Items(st) \ Searches(st)), "web_search_call", b.id)
  IN  [s EXCEPT !.searches = (b.id :> Len(s.items)) @@ @]

EndSearch(st, b) ==
  IF b.id \in DOMAIN st.searches
  THEN CloseItem(SearchResult(st, st.searches[b.id], b.completed), st.searches[b.id]) ELSE st

Block(st, b) ==
  LET s == NewBlock(st, b) IN
  CASE b.kind = "search" -> StartSearch(s, b)
    [] b.kind = "result" -> EndSearch(s, b)
    [] b.kind = "citation" -> [s EXCEPT !.cited.citations = @ + 1]
    [] b.kind = "thinking" -> AppendText(s, "reasoning")
    [] b.kind = "signature" -> CarriedBlock(s)

Reasoning(st, c) ==
  IF c.reasoning /\ \A k \in DOMAIN c.blocks : c.blocks[k].kind \notin {"thinking", "signature"}
  THEN AppendText(st, "reasoning") ELSE st

Text(st, c) == IF c.text THEN AppendText(st, "message") ELSE st

\* A new id on a known index is a new call.
Known(st, tc) ==
  /\ tc.index \in DOMAIN st.toolCalls
  /\ tc.id \in {None, st.items[st.toolCalls[tc.index]].id}

BeginCall(st, tc) ==
  LET s == OpenItem(IF st.open # 0 THEN CloseItem(st, st.open) ELSE st, "function_call", tc.id)
  IN  [s EXCEPT !.toolCalls = (tc.index :> Len(s.items)) @@ @]

ToolCall(st, tc) ==
  LET s == IF Known(st, tc) THEN st ELSE BeginCall(st, tc)
      i == s.toolCalls[tc.index]
  IN  IF ~tc.args THEN s
      ELSE Emit([s EXCEPT !.items[i].text = @ + 1],
                [event |-> "delta", item |-> i, kind |-> "function_call"])

Start(st) ==
  IF st.hasStarted THEN st ELSE Emit([st EXCEPT !.hasStarted = TRUE], [event |-> "created"])

Transformed(st, c) ==
  LET s == FoldLeft(ToolCall, Text(Reasoning(FoldLeft(Block, Start(st), c.blocks), c), c), c.tools)
  IN  [s EXCEPT !.grounding = @ \/ c.grounding,
                !.finishReason = IF c.finish = None THEN @ ELSE c.finish]

----------------------------------------------------------------------------
(* The end of the stream.                                                  *)

\* applyGrounding: annotations on the single open message, then a completed
\* search after everything else.
ApplyGrounding(st) ==
  IF ~st.grounding THEN st
  ELSE LET msgs == {i \in Items(st) : st.items[i].kind = "message"}
           m == CHOOSE i \in msgs : TRUE
           s == IF Cardinality(msgs) = 1 /\ ~st.items[m].done
                THEN AddAnnotation(st, m, 0, st.items[m].text) ELSE st
           t == OpenItem(CloseAll(s, Items(s)), "web_search_call", None)
       IN  CloseItem(SearchResult(t, Len(t.items), TRUE), Len(t.items))

Status(st) ==
  IF st.error THEN "failed"
  ELSE IF st.finishReason = "length" THEN "incomplete" ELSE "completed"

Finish(st) ==
  LET s == IF st.error THEN st ELSE ApplyGrounding(st)
      t == CloseAll(s, Items(s))
  IN  Emit([t EXCEPT !.completed = TRUE],
           [event |-> "end", status |-> Status(t), output |-> [i \in Items(t) |-> ItemJson(t.items[i])]])

----------------------------------------------------------------------------
Sent(st) ==
  /\ client' = FoldLeft(Accept, client, st.out)
  /\ state' = [st EXCEPT !.out = <<>>]

\* Providers that search send their blocks one after another: no arguments
\* follow for a call that a search came after.
InBlockOrder(c) ==
  \A k \in DOMAIN c.tools :
    Known(state, c.tools[k]) =>
      \A j \in Searches(state) : j < state.toolCalls[c.tools[k].index]

OnChunk(c) ==
  /\ seen < MaxChunks /\ end = "open" /\ InBlockOrder(c)
  /\ seen' = seen + 1
  /\ IF state.completed THEN UNCHANGED <<state, client>> ELSE Sent(Transformed(state, c))
  /\ UNCHANGED end

OnError ==
  /\ seen < MaxChunks /\ end = "open"
  /\ seen' = seen + 1
  /\ IF state.completed THEN UNCHANGED <<state, client>>
     ELSE Sent(Finish([Start(state) EXCEPT !.error = TRUE]))
  /\ UNCHANGED end

\* What [DONE] does: nothing before the first chunk or after the end.
OnDone ==
  IF state.hasStarted /\ ~state.completed THEN Sent(Finish(state))
  ELSE UNCHANGED <<state, client>>

ProviderDone ==
  /\ end = "open" /\ state.hasStarted /\ ~state.completed
  /\ OnDone
  /\ UNCHANGED <<seen, end>>

\* The source ends, after [DONE] or in the middle of the answer: the adapter
\* sends [DONE] itself, for the providers that do not.
SourceEnds ==
  /\ end = "open" /\ end' = "ended"
  /\ OnDone
  /\ UNCHANGED seen

\* Reading the source throws: the client's stream is closed as it is.
SourceBreaks ==
  /\ end = "open" /\ end' = "broken"
  /\ UNCHANGED <<state, client, seen>>

Init ==
  /\ state = [hasStarted |-> FALSE, completed |-> FALSE, error |-> FALSE, items |-> <<>>,
              open |-> 0, toolCalls |-> <<>>, searches |-> <<>>, cited |-> None,
              grounding |-> FALSE, finishReason |-> None, out |-> <<>>]
  /\ client = FreshClient /\ seen = 0 /\ end = "open"

Next == (\E c \in Chunks : OnChunk(c)) \/ OnError \/ ProviderDone \/ SourceEnds \/ SourceBreaks

Spec == Init /\ [][Next]_vars

----------------------------------------------------------------------------
(* Properties.                                                             *)

\* The type invariant: the state's references are to items of their kind,
\* and at most the open message or reasoning item is unfinished besides
\* function calls and searches.
TypeOK ==
  /\ seen \in 0..MaxChunks /\ state.out = <<>> /\ end \in {"open", "ended", "broken"}
  /\ state.open \in 0..Len(state.items)
  /\ \A i \in DOMAIN state.toolCalls : state.items[state.toolCalls[i]].kind = "function_call"
  /\ \A i \in DOMAIN state.searches : state.searches[i] \in Searches(state)
  /\ \A i \in Items(state) :
       state.items[i].kind \in {"message", "reasoning"} => (~state.items[i].done <=> i = state.open)

\* The stream is legal and consistent: items are added in order and closed
\* once, deltas and annotations belong to open items of their kind, a .done
\* event repeats what the deltas added up to, searches go through their
\* states, and the terminal event closes a response whose output is what the
\* client has put together.
ClientAgrees == client.ok

\* A response that ended has no open items and ends as it was finished:
\* failed on an error, incomplete at the token limit.  A source that breaks
\* leaves the response without an end; one that ends without an error gives
\* it one, completed also when the provider was cut off before its finish
\* reason: the adapter's own [DONE] does not tell that from a complete answer.
EndsOnce ==
  /\ state.completed <=> client.phase \notin {"idle", "open"}
  /\ state.completed => client.phase = Status(state) /\ \A i \in Items(state) : state.items[i].done
  /\ end = "broken" /\ ~state.completed => client.phase \in {"idle", "open"}
  /\ end = "ended" /\ state.hasStarted => state.completed
=============================================================================
