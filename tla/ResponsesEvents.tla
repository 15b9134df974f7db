--------------------------- MODULE ResponsesEvents ---------------------------
(***************************************************************************)
(* The events of an OpenAI Responses stream, the answers a provider may    *)
(* give with them, and ResponsesSSECollector (sse_collector.go), which     *)
(* folds a stream into the JSON of a non-streaming answer.                 *)
(*                                                                         *)
(* A text is the sequence of its pieces, so that what is appended, dropped *)
(* or repeated shows; the empty text is <<>>.  A missing name or id is "". *)
(***************************************************************************)
EXTENDS Integers, Sequences, FiniteSets, SequencesExt, TLC

\* An element of response.output, or of an output_item event.
NoItem == [type |-> "none", call |-> "", name |-> "", args |-> <<>>, text |-> <<>>,
           refusal |-> <<>>]
Message(text, refusal) == [NoItem EXCEPT !.type = "message", !.text = text, !.refusal = refusal]
FunctionCall(call, name, args) ==
  [NoItem EXCEPT !.type = "function_call", !.call = call, !.name = name, !.args = args]
Image == [NoItem EXCEPT !.type = "image_generation_call"]

\* A response object.  output is "absent", "array" or "other" in JSON; usage 0 is none.
NoResponse == [present |-> FALSE, id |-> "", output |-> "absent", items |-> <<>>,
               hasText |-> FALSE, text |-> <<>>, status |-> "", error |-> FALSE,
               reason |-> "", usage |-> 0]

\* One event.  "[DONE]" and "garbage" are not JSON; index -1 is no output_index.
Event(type) == [type |-> type, index |-> -1, item |-> NoItem, text |-> <<>>, call |-> "",
                name |-> "", hasArgs |-> FALSE, args |-> <<>>, response |-> NoResponse]

-----------------------------------------------------------------------------
(* A provider's answer a: status, form ("sse" or "json"), type (what the    *)
(* Content-Type says), items, end (the type of the last event), reason,     *)
(* id, usage, output (does the last event repeat the items), textDone (are  *)
(* there output_text.done events), ids (do the events of a call's arguments *)
(* name the call), done (is there a [DONE]), large.                         *)

Flat(f(_), s) == FlattenSeq([i \in DOMAIN s |-> f(s[i])])

ItemText(items) == Flat(LAMBDA i : i.text, items)
ItemRefusal(items) == Flat(LAMBDA i : i.refusal, items)
ItemCalls(items) == SelectSeq(items, LAMBDA i : i.type = "function_call")

Terminal(a) ==
  [NoResponse EXCEPT !.present = a.end # "error",
     !.id = a.id, !.output = IF a.output THEN "array" ELSE "absent",
     !.items = IF a.output THEN a.items ELSE <<>>,
     !.status = CASE a.end = "response.completed" -> "completed"
                  [] a.end = "response.incomplete" -> "incomplete"
                  [] OTHER -> "failed",
     !.error = a.end \in {"response.failed", "error"}, !.reason = a.reason, !.usage = a.usage]

\* The events of arguments: with the call's id, or with an item id only.
ArgumentTypes(a) ==
  IF a.ids THEN [delta |-> "response.output_tool_call.delta",
                 done |-> "response.output_tool_call.done"]
  ELSE [delta |-> "response.function_call_arguments.delta",
        done |-> "response.function_call_arguments.done"]

ItemEvents(a, n) ==
  LET it == a.items[n]
      delta(type) == [Event(type) EXCEPT !.index = n - 1]
      arguments(type, args) == [delta(type) EXCEPT !.call = IF a.ids THEN it.call ELSE "",
                                                   !.hasArgs = TRUE, !.args = args]
  IN  CASE it.type = "function_call" ->
             <<[delta("response.output_item.added") EXCEPT !.item = [it EXCEPT !.args = <<>>]]>>
             \o [i \in DOMAIN it.args |-> arguments(ArgumentTypes(a).delta, <<it.args[i]>>)]
             \o <<arguments(ArgumentTypes(a).done, it.args)>>
        [] it.type = "message" ->
             [i \in DOMAIN it.text |->
                [delta("response.output_text.delta") EXCEPT !.text = <<it.text[i]>>]]
             \o (IF a.textDone /\ it.text # <<>>
                 THEN <<[delta("response.output_text.done") EXCEPT !.text = it.text]>> ELSE <<>>)
             \o [i \in DOMAIN it.refusal |->
                   [delta("response.refusal.delta") EXCEPT !.text = <<it.refusal[i]>>]]
        [] OTHER -> <<>>

\* The events of a, in the order the provider sends them.
Events(a) ==
  <<[Event("response.created") EXCEPT !.response = [NoResponse EXCEPT !.present = TRUE, !.id = a.id]]>>
  \o FlattenSeq([n \in DOMAIN a.items |->
       ItemEvents(a, n) \o <<[Event("response.output_item.done")
                                EXCEPT !.index = n - 1, !.item = a.items[n]]>>])
  \o (IF a.end = "none" THEN <<>> ELSE <<[Event(a.end) EXCEPT !.response = Terminal(a)]>>)
  \o (IF a.done THEN <<Event("[DONE]")>> ELSE <<>>)

-----------------------------------------------------------------------------
(* ResponsesSSECollector *)

NewCollector == [delta |-> <<>>, done |-> <<>>, response |-> NoResponse, terminal |-> "",
                 items |-> <<>>, err |-> FALSE]

\* AddEvent.
AddEvent(c, e) ==
  CASE c.err \/ e.type = "[DONE]" -> c
    [] e.type = "garbage" -> [c EXCEPT !.err = TRUE]
    [] e.type = "response.output_text.delta" -> [c EXCEPT !.delta = @ \o e.text]
    [] e.type = "response.output_text.done" -> [c EXCEPT !.done = e.text]
    [] e.type = "response.content_part.done" -> [c EXCEPT !.done = IF @ = <<>> THEN e.text ELSE @]
    [] e.type = "response.output_item.done" ->
         IF \/ e.index < 0 \/ e.item = NoItem
            \/ e.index \in DOMAIN c.items /\ c.items[e.index] # e.item
         THEN [c EXCEPT !.err = TRUE]
         ELSE [c EXCEPT !.items = (e.index :> e.item) @@ @]
    [] e.type \in {"response.completed", "response.failed", "response.incomplete"} ->
         [c EXCEPT !.terminal = e.type,
                   !.response = IF e.response.present THEN e.response ELSE @]
    [] e.type = "error" ->
         [c EXCEPT !.terminal = e.type,
                   !.response = [NoResponse EXCEPT !.present = TRUE, !.error = TRUE]]
    [] OTHER -> c

\* The completed items in the order of their indices.
Collected(items) ==
  LET order == SetToSortSeq(DOMAIN items, <) IN [k \in DOMAIN order |-> items[order[k]]]

\* AggregateJSON(true).
AggregateJSON(c) ==
  LET r == c.response
      output == IF r.items = <<>> THEN Collected(c.items) ELSE r.items
      own == ItemText(output)
      text == IF own # <<>> THEN own ELSE IF c.done # <<>> THEN c.done ELSE c.delta
  IN  IF \/ c.err \/ c.terminal = "" \/ ~r.present
         \/ c.terminal # "error" /\ c.items # <<>> /\ r.output = "other"
      THEN [ok |-> FALSE, response |-> NoResponse]
      ELSE [ok |-> TRUE,
            response |->
              IF c.terminal = "error" THEN r
              ELSE [r EXCEPT
                      !.items = output,
                      !.output = IF c.items # <<>> /\ r.items = <<>> THEN "array" ELSE @,
                      !.hasText = TRUE,
                      !.text = IF r.hasText /\ r.text # <<>> THEN @ ELSE text]]

CollectSSE(events) == AggregateJSON(FoldLeft(AddEvent, NewCollector, events))
=============================================================================
