---------------------------- MODULE CachedResponses ----------------------------
(***************************************************************************)
(* Cached Responses answers replayed as streams, several at a time:        *)
(* OpenAIModelResponseJSONToStreamGenerator and the events it is made of   *)
(* (src/gateway/src/providers/open-ai-base/createModelResponse.ts,         *)
(* helpers.ts and constants.ts).  The events of items are made from        *)
(* templates; {...TEMPLATE} copies only the event, so the item inside is   *)
(* the same object for every stream of the process, and what a stream does *)
(* not set is what another one left.  The generators take turns at every   *)
(* write.                                                                  *)
(*                                                                         *)
(* The cache holds neither errors nor failed, incomplete or refused        *)
(* answers: the branches for them are left out.                            *)
(***************************************************************************)
EXTENDS Integers, Sequences

CONSTANTS
  Streams,    \* answers being replayed at a time
  Answers,    \* sequences of items: [type, parts : Seq(length)]
  SliceSize   \* units of text in one delta, 500 characters in the code

Types == {"message", "function_call", "web_search_call", "file_search_call", "computer_call", "reasoning"}

VARIABLES
  answer,     \* the cached answer of each stream
  todo,       \* what each generator has still to yield
  template,   \* the item in the added and done template of each type
  client      \* what each client has made of its events

vars == <<answer, todo, template, client>>

-----------------------------------------------------------------------------
(* Values.  A stored item has its own id and call id; a replayed one gets  *)
(* random ones.  What an item says is named by its stream and place.       *)

Empty == <<"empty">>
StoredId(s, i) == <<"stored", s, i>>
RandomId(s, i) == <<"random", s, i>>
StoredCall(s, i) == <<"call", s, i>>
RandomCall(s, i) == <<"random call", s, i>>

Text(s, i, p, len) == [k \in 1..len |-> <<s, i, p, k>>]

(* content, arguments, results, action or summary; a web search has none.  *)
Body(s, i) ==
  CASE answer[s][i].type = "message" -> [p \in DOMAIN answer[s][i].parts |-> Text(s, i, p, answer[s][i].parts[p])]
    [] answer[s][i].type = "web_search_call" -> Empty
    [] OTHER -> <<"body", s, i>>

HasCall(type) == type \in {"function_call", "computer_call"}

(* response.output, as response.completed carries it.                      *)
Output(s) ==
  [i \in DOMAIN answer[s] |->
     [type |-> answer[s][i].type, id |-> StoredId(s, i), body |-> Body(s, i),
      call |-> IF HasCall(answer[s][i].type) THEN StoredCall(s, i) ELSE Empty]]

-----------------------------------------------------------------------------
(* The generator.                                                          *)

Step(event, i, p, k) == [event |-> event, item |-> i, part |-> p, slice |-> k]

NumSlices(len) == (len + SliceSize - 1) \div SliceSize

RECURSIVE PartSteps(_, _, _)
PartSteps(item, i, p) ==
  IF p > Len(item.parts)
    THEN <<>>
    ELSE <<Step("content_part.added", i, p, 0)>>
         \o [k \in 1..NumSlices(item.parts[p]) |-> Step("output_text.delta", i, p, k)]
         \o <<Step("output_text.done", i, p, 0), Step("content_part.done", i, p, 0)>>
         \o PartSteps(item, i, p + 1)

ItemSteps(item, i) ==
  <<Step("output_item.added", i, 0, 0)>>
  \o (CASE item.type = "function_call" -> <<Step("function_call_arguments.delta", i, 0, 0)>>
        [] item.type = "message" -> PartSteps(item, i, 1)
        [] item.type \in {"web_search_call", "file_search_call"} ->
             [n \in 1..3 |-> Step("progress", i, 0, n)]   \* in_progress, searching, completed
        [] OTHER -> <<>>)
  \o <<Step("output_item.done", i, 0, 0)>>

RECURSIVE StepsFrom(_, _)
StepsFrom(a, i) == IF i > Len(a) THEN <<>> ELSE ItemSteps(a[i], i) \o StepsFrom(a, i + 1)

OpenAIModelResponseJSONToStreamGenerator(a) ==
  <<Step("created", 0, 0, 0), Step("in_progress", 0, 0, 0)>> \o StepsFrom(a, 1)
  \o <<Step("completed", 0, 0, 0)>>

(* The fields of a template's item that a stream sets before the event is  *)
(* written; done is FALSE for output_item.added.                           *)
SetMessage(item, s, i, done) ==
  [item EXCEPT !.id = RandomId(s, i), !.body = IF done THEN Body(s, i) ELSE @]

SetFunctionCall(item, s, i, done) ==
  [item EXCEPT !.id = RandomId(s, i), !.call = RandomCall(s, i), !.body = IF done THEN Body(s, i) ELSE @]

SetWebSearch(item, s, i) == [item EXCEPT !.id = RandomId(s, i)]

SetFileSearch(item, s, i, done) ==
  [item EXCEPT !.id = RandomId(s, i), !.body = IF done THEN Body(s, i) ELSE @]

SetComputerCall(item, s, i, done) ==
  [item EXCEPT !.id = RandomId(s, i),
               !.call = IF done THEN StoredCall(s, i) ELSE @,
               !.body = IF done THEN Body(s, i) ELSE @]

SetReasoning(item, s, i, done) ==
  [item EXCEPT !.id = RandomId(s, i), !.body = IF done THEN Body(s, i) ELSE @]

SetItem(item, s, i, done) ==
  CASE item.type = "message" -> SetMessage(item, s, i, done)
    [] item.type = "function_call" -> SetFunctionCall(item, s, i, done)
    [] item.type = "web_search_call" -> SetWebSearch(item, s, i)
    [] item.type = "file_search_call" -> SetFileSearch(item, s, i, done)
    [] item.type = "computer_call" -> SetComputerCall(item, s, i, done)
    [] item.type = "reasoning" -> SetReasoning(item, s, i, done)

(* The shared items as the process starts with them.                       *)
Templates ==
  [t \in Types \X {"output_item.added", "output_item.done"} |->
     [type |-> t[1], id |-> Empty, call |-> Empty, body |-> Empty]]

Slice(text, k) ==
  SubSeq(text, (k - 1) * SliceSize + 1, IF k * SliceSize < Len(text) THEN k * SliceSize ELSE Len(text))

-----------------------------------------------------------------------------
(* A client: the accumulator of the openai SDK.  closed are the items it   *)
(* has seen done; final is the output of the terminal event.               *)

FreshClient == [begun |-> FALSE, ok |-> TRUE, items |-> <<>>, closed |-> {}, final |-> <<>>, ended |-> FALSE]

Fail(c) == [c EXCEPT !.ok = FALSE]

Accept(c, s, st, item) ==
  LET i == st.item
      p == st.part
      open == i \in DOMAIN c.items /\ i \notin c.closed
      text == IF i = 0 \/ p = 0 THEN <<>> ELSE Body(s, i)[p] IN
  IF c.ended \/ (st.event = "created") # ~c.begun THEN Fail(c) ELSE
  CASE st.event = "created" -> [c EXCEPT !.begun = TRUE]
    [] st.event \in {"in_progress", "progress"} -> c
    [] st.event = "output_item.added" ->
         IF i = Len(c.items) + 1
           THEN [c EXCEPT !.items = Append(@, [item EXCEPT !.body = IF item.type = "message" THEN <<>> ELSE @])]
           ELSE Fail(c)
    [] st.event = "content_part.added" ->
         IF open /\ p = Len(c.items[i].body) + 1
           THEN [c EXCEPT !.items[i].body = Append(@, <<>>)]
           ELSE Fail(c)
    [] st.event = "output_text.delta" ->
         IF open /\ p \in DOMAIN c.items[i].body
           THEN [c EXCEPT !.items[i].body[p] = @ \o Slice(text, st.slice)]
           ELSE Fail(c)
    [] st.event \in {"output_text.done", "content_part.done"} ->
         IF open /\ c.items[i].body[p] = text THEN c ELSE Fail(c)
    [] st.event = "function_call_arguments.delta" ->
         IF open THEN [c EXCEPT !.items[i].body = Body(s, i)] ELSE Fail(c)
    [] st.event = "output_item.done" ->
         IF open /\ c.items[i].id = item.id /\ c.items[i].type = item.type
            /\ (item.type \in {"message", "function_call"} => c.items[i].body = item.body)
           THEN [c EXCEPT !.items[i] = item, !.closed = @ \cup {i}]
           ELSE Fail(c)
    [] st.event = "completed" -> [c EXCEPT !.final = Output(s), !.ended = TRUE]

-----------------------------------------------------------------------------
Init ==
  /\ answer \in [Streams -> Answers]
  /\ todo = [s \in Streams |-> OpenAIModelResponseJSONToStreamGenerator(answer[s])]
  /\ template = Templates
  /\ client = [s \in Streams |-> FreshClient]

(* One turn of a stream's loop: the generator makes its next event, which  *)
(* is written and read.                                                    *)
Write(s) ==
  /\ todo[s] # <<>>
  /\ LET st == Head(todo[s])
         ofItem == st.event \in {"output_item.added", "output_item.done"}
         t == <<answer[s][IF ofItem THEN st.item ELSE 1].type, st.event>>
         item == IF ofItem THEN SetItem(template[t], s, st.item, st.event = "output_item.done") ELSE Empty IN
     /\ template' = IF ofItem THEN [template EXCEPT ![t] = item] ELSE template
     /\ client' = [client EXCEPT ![s] = Accept(@, s, st, item)]
  /\ todo' = [todo EXCEPT ![s] = Tail(@)]
  /\ UNCHANGED answer

Next == \E s \in Streams : Write(s)

Spec == Init /\ [][Next]_vars

-----------------------------------------------------------------------------
(* The items in the templates and in the clients.                          *)
TypeOK ==
  /\ \A t \in DOMAIN template : template[t].type = t[1]
  /\ \A s \in Streams :
       /\ answer[s] \in Answers
       /\ client[s].closed \subseteq DOMAIN client[s].items
       /\ \A i \in DOMAIN client[s].items : client[s].items[i].type \in Types

(* No event of a stream is out of place, and when the stream ends the      *)
(* client has every item of the answer done, with its text, arguments,     *)
(* results, action or summary, whatever other streams were written in      *)
(* between from the same templates.                                        *)
ItemsAreRebuilt ==
  \A s \in Streams :
    /\ client[s].ok
    /\ todo[s] = <<>> =>
         /\ client[s].ended /\ client[s].closed = DOMAIN answer[s]
         /\ \A i \in DOMAIN answer[s] :
              client[s].items[i].type = answer[s][i].type /\ client[s].items[i].body = Body(s, i)

(* Ids and calls of the items a client has been given as done are this     *)
(* stream's, never what another stream left in a template.                 *)
DoneItemsAreOwn ==
  \A s \in Streams : \A i \in client[s].closed :
    /\ client[s].items[i].id = RandomId(s, i)
    /\ client[s].items[i].call \in
         IF HasCall(answer[s][i].type) THEN {RandomCall(s, i), StoredCall(s, i)} ELSE {Empty}
==============================================================================
