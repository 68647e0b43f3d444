---------------------------- MODULE MCSseStream -----------------------------
(***************************************************************************)
(* SseStream with two paths in the delta of one choice, every body of up   *)
(* to MaxBody events, and the endings of streams.                          *)
(***************************************************************************)
EXTENDS SseStream, TLC

CONSTANTS a, b, token, value, content, reasoning, MaxBody

MCPath == {content, reasoning}
MCChar == {a, b, token, value}
MCToken == {token}
MCOriginal == [c \in MCChar |-> IF c = token THEN value ELSE c]

MCOwner == {content, reasoning}
MCFlushOwner == (content :> content) @@ (reasoning :> reasoning)

JsonEvent(pieces, other, finish) ==
  [pieces |-> pieces, other |-> other, finish |-> finish, done |-> FALSE]

Says(owner, text) == [owner |-> owner, text |-> text]

Role == JsonEvent(content :> Says(content, <<>>), TRUE, FALSE)
Short == JsonEvent(content :> Says(content, <<a>>), FALSE, FALSE)
Long == JsonEvent(content :> Says(content, <<b, token>>), FALSE, FALSE)
Thought == JsonEvent(reasoning :> Says(reasoning, <<token, b>>), FALSE, FALSE)
Stop == JsonEvent(None, FALSE, TRUE)
Usage == JsonEvent(None, FALSE, FALSE)

Bodies(events) == UNION {[1 .. n -> events] : n \in 0 .. MaxBody}

MCScripts ==
  {body \o ending : body \in Bodies({Role, Short, Long, Thought}),
                    ending \in {<<>>, <<Stop, Usage, Sentinel>>}}

ASSUME MCScriptsAssumption == OneChoice /\ FinishAfterText
=============================================================================
