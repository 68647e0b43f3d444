--------------------------- MODULE MCStreamEvent ----------------------------
(***************************************************************************)
(* StreamEvent on the events of chat completions: a delta with every kind  *)
(* of content, up to two calls of tools and a role, with and without a     *)
(* finish reason; two choices; a message in place of a delta; and usage.   *)
(***************************************************************************)
EXTENDS StreamEvent, TLC

CONSTANTS a, token, value

MCChar == {a, token, value}
MCToken == {token}
MCOriginal == [c \in MCChar |-> IF c = token THEN value ELSE c]

Name == String(<<token>>)

(* The fields of an object, those that are absent left out. *)
Fields(f) == Object([k \in {l \in DOMAIN f : f[l] # Absent} |-> f[k]])

Contents ==
  {Absent, Null, String(<<>>), String(<<a>>), String(<<token, a>>),
   Array(<<String(<<a>>), String(<<token, a>>)>>)}

Call(n, id, text) ==
  Fields([index |-> Number(n), id |-> id,
          function |-> Object([arguments |-> String(text)])])

Calls ==
  {Absent, Array(<<>>), Array(<<Call(0, Name, <<>>)>>)}
    \cup {Array(<<Call(0, Absent, <<a>>), Call(1, id, text)>>) :
            id \in {Absent, Name}, text \in {<<a>>, <<a, token>>}}

Delta(role, content, calls) ==
  Fields([role |-> role, content |-> content, tool_calls |-> calls])

Choice(n, delta, finish) ==
  Fields([index |-> Number(n), delta |-> delta, finish_reason |-> finish])

Body(choices) == Object([id |-> Name, choices |-> Array(choices)])

(* Every content, and every call beside the longest content or none. *)
Deltas ==
  {Delta(role, content, Absent) : role \in {Absent, Name}, content \in Contents}
    \cup {Delta(Absent, content, calls) :
            content \in {Absent, Null, String(<<token, a>>)}, calls \in Calls}

OneChoice ==
  {Body(<<Choice(0, delta, finish)>>) :
     delta \in Deltas, finish \in {Absent, Null, Name}}

TwoChoices ==
  {Body(<<Choice(0, Delta(role, String(<<a>>), Absent), finish),
          Choice(1, Delta(Absent, String(<<a, token>>), Absent), Null)>>) :
     role \in {Absent, Name}, finish \in {Null, Name}}

Others ==
  {Object([usage |-> Object([total |-> Number(3)]), choices |-> Array(<<>>)]),
   Body(<<Object([index |-> Number(0), finish_reason |-> Null,
                  message |-> Object([content |-> String(<<a, token>>)])])>>)}

Content == FirstDelta \o <<Key("content")>>
Arguments(n) ==
  FirstDelta \o <<Key("tool_calls"), Index(n), Key("function"), Key("arguments")>>

Held == {<<>>, Content :> <<token>>, (Content :> <<>>) @@ (Arguments(1) :> <<token>>)}

MCInputs == (OneChoice \cup TwoChoices \cup Others) \X Held

ASSUME MCRegular ==
  /\ \A i \in Inputs : Regular(i[1]) /\ InOrder(i[1]) /\ FirstStays(i[1])
  /\ FlushesFit
=============================================================================
