------------------------------ MODULE CachedChat ------------------------------
(***************************************************************************)
(* A cached JSON answer replayed as a stream to a caller that asked for    *)
(* one: OpenAIChatCompleteJSONToStreamResponseTransform and its sibling    *)
(* for completions, written out by handleJSONToStreamResponse              *)
(* (src/gateway/src/providers/openai, handlers/streamHandler.ts).  The     *)
(* client puts the pieces together again.                                  *)
(*                                                                         *)
(* Texts are sequences of units, each of which names its place; a choice   *)
(* is [blocks, hasBlocks, calls, content, finish], where blocks are the    *)
(* content_blocks of providers that think, and content is then the text of *)
(* the text blocks together.                                               *)
(***************************************************************************)
EXTENDS Integers, Sequences

CONSTANTS
  Answers,    \* sequences of choices: [blocks : Seq([kind, len]), hasBlocks, calls, len, finish]
  SliceSize   \* units of text in one chunk, 500 characters in the code

VARIABLES
  route,   \* chatComplete or complete
  answer,  \* the cached answer
  todo,    \* the events still to be written
  got      \* what the client has: its choices, and whether it saw an end

vars == <<route, answer, todo, got>>

-----------------------------------------------------------------------------
(* The answer.                                                             *)

Text(c, b, len) == [i \in 1..len |-> <<c, b, i>>]

RECURSIVE Flat(_)
Flat(s) == IF s = <<>> THEN <<>> ELSE Head(s) \o Flat(Tail(s))

BlockText(a, c, b) == Text(c, b, a[c].blocks[b].len)

(* message.content of a choice.                                            *)
Content(a, c) ==
  IF a[c].hasBlocks
    THEN Flat([b \in DOMAIN a[c].blocks |-> IF a[c].blocks[b].kind = "text" THEN BlockText(a, c, b) ELSE <<>>])
    ELSE Text(c, 0, a[c].len)

(* What a client should end up with: the pieces of each choice by place.   *)
Places(a, c) ==
  (IF Content(a, c) = <<>> THEN {} ELSE {<<"content", 0, "text">>})
  \cup {<<"block", b, a[c].blocks[b].kind>> : b \in {i \in DOMAIN a[c].blocks : a[c].blocks[i].len > 0}}
  \cup {<<"block", b, "signature">> : b \in {i \in DOMAIN a[c].blocks :
                                                a[c].blocks[i].kind = "thinking" /\ a[c].blocks[i].len > 0}}
  \cup {<<"call", i, f>> : i \in 1..a[c].calls, f \in {"name", "arguments"}}

Original(a, c) ==
  [p \in Places(a, c) |->
     CASE p[1] = "content" -> Content(a, c)
       [] p[1] = "block" /\ p[3] # "signature" -> BlockText(a, c, p[2])
       [] OTHER -> <<<<c, p[2], p[3]>>>>]

-----------------------------------------------------------------------------
(* The transform.  An event carries pieces for places of one choice.       *)

Event(c, pieces) == [kind |-> "chunk", choice |-> c, pieces |-> pieces, finish |-> "none"]

(* {place: piece} for one place or two.                                    *)
One(place, piece) == [p \in {place} |-> piece]

Two(place1, place2, piece) == [p \in {place1, place2} |-> piece]

Slices(text) ==
  [k \in 1..((Len(text) + SliceSize - 1) \div SliceSize) |->
     SubSeq(text, (k - 1) * SliceSize + 1,
            IF k * SliceSize < Len(text) THEN k * SliceSize ELSE Len(text))]

(* The chunks of one content block: text is also content; thinking is      *)
(* followed by its signature.                                              *)
BlockEvents(a, c, b) ==
  LET block == a[c].blocks[b]
      slices == Slices(BlockText(a, c, b))
      At(field) == <<"block", b, field>>
  IN  CASE block.len = 0 -> <<>>
        [] block.kind = "text" ->
             [k \in DOMAIN slices |-> Event(c, Two(<<"content", 0, "text">>, At("text"), slices[k]))]
        [] block.kind = "thinking" ->
             [k \in DOMAIN slices |-> Event(c, One(At("thinking"), slices[k]))]
             \o <<Event(c, One(At("signature"), <<<<c, b, "signature">>>>))>>
        [] OTHER -> [k \in DOMAIN slices |-> Event(c, One(At("data"), slices[k]))]

ToolCallEvents(a, c) ==
  Flat([i \in 1..a[c].calls |->
          <<Event(c, One(<<"call", i, "name">>, <<<<c, i, "name">>>>)),
            Event(c, One(<<"call", i, "arguments">>, <<<<c, i, "arguments">>>>))>>])

(* The content by itself only where there are no blocks to carry it.       *)
ContentEvents(a, c) ==
  LET slices == Slices(Content(a, c))
  IN  IF a[c].hasBlocks THEN <<>>
      ELSE [k \in DOMAIN slices |-> Event(c, One(<<"content", 0, "text">>, slices[k]))]

FinishEvent(a, c) == [Event(c, [p \in {} |-> <<>>]) EXCEPT !.finish = a[c].finish]

Done == [kind |-> "done", choice |-> 0, pieces |-> [p \in {} |-> <<>>], finish |-> "none"]

OpenAIChatCompleteJSONToStreamResponseTransform(a) ==
  Flat([c \in DOMAIN a |->
          Flat([b \in DOMAIN a[c].blocks |-> BlockEvents(a, c, b)])
          \o ToolCallEvents(a, c) \o ContentEvents(a, c) \o <<FinishEvent(a, c)>>])
  \o <<Done>>

OpenAICompleteJSONToStreamResponseTransform(a) ==
  Flat([c \in DOMAIN a |-> ContentEvents(a, c) \o <<FinishEvent(a, c)>>]) \o <<Done>>

(* A completion has a text and nothing else.                               *)
IsCompletion(a) == \A c \in DOMAIN a : ~a[c].hasBlocks /\ a[c].calls = 0

HookResult == [kind |-> "hooks", choice |-> 0, pieces |-> [p \in {} |-> <<>>], finish |-> "none"]

Init ==
  /\ answer \in Answers
  /\ route \in {"chatComplete"} \cup (IF IsCompletion(answer) THEN {"complete"} ELSE {})
  /\ \E hooks \in {<<>>, <<HookResult>>} :
       todo = hooks \o (IF route = "complete" THEN OpenAICompleteJSONToStreamResponseTransform(answer)
                        ELSE OpenAIChatCompleteJSONToStreamResponseTransform(answer))
  /\ got = [choices |-> [c \in DOMAIN answer |-> [p \in {} |-> <<>>]],
            finish |-> [c \in DOMAIN answer |-> "none"], done |-> FALSE, late |-> FALSE]

(* The client adds a chunk's pieces to what it has.                        *)
Merge(old, new) ==
  [p \in DOMAIN old \cup DOMAIN new |->
     (IF p \in DOMAIN old THEN old[p] ELSE <<>>) \o (IF p \in DOMAIN new THEN new[p] ELSE <<>>)]

(* writer.write of the next event, and the client that reads it.           *)
Write ==
  /\ todo # <<>>
  /\ LET e == Head(todo)
         c == e.choice
     IN  got' = CASE e.kind = "hooks" -> got
                  [] e.kind = "done" -> [got EXCEPT !.done = TRUE]
                  [] OTHER -> [got EXCEPT !.choices[c] = Merge(@, e.pieces),
                                          !.finish[c] = IF e.finish = "none" THEN @ ELSE e.finish,
                                          !.late = @ \/ got.done \/ got.finish[c] # "none"]
  /\ todo' = Tail(todo)
  /\ UNCHANGED <<route, answer>>

Next == Write

Spec == Init /\ [][Next]_vars

-----------------------------------------------------------------------------
(* The answer comes from the cache, and the events are a list.             *)
TypeOK ==
  /\ answer \in Answers /\ route \in {"chatComplete", "complete"}
  /\ got.done \in BOOLEAN /\ got.late \in BOOLEAN
  /\ got.done <=> todo = <<>>

Prefix(s, u) == Len(s) <= Len(u) /\ \A i \in DOMAIN s : s[i] = u[i]

(* At every moment each part the client has is a beginning of that part of *)
(* the cached answer: nothing twice, nothing out of order, nothing from    *)
(* another choice or block.                                                *)
OnlyTheAnswer ==
  \A c \in DOMAIN answer : \A p \in DOMAIN got.choices[c] :
    p \in Places(answer, c) /\ Prefix(got.choices[c][p], Original(answer, c)[p])

(* The client of the finished stream has the whole answer: the streamed    *)
(* answer and the JSON answer are the same.                                *)
WholeAnswer ==
  got.done => \A c \in DOMAIN answer :
                got.choices[c] = Original(answer, c) /\ got.finish[c] = answer[c].finish

(* A choice gets nothing after its finish reason, and the stream nothing   *)
(* after [DONE].                                                           *)
==============================================================================
