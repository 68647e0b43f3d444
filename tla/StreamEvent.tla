----------------------------- MODULE StreamEvent ----------------------------
(***************************************************************************)
(* One turn of the loop of handle_streaming in src/server.rs, and the end  *)
(* of the stream after it, with the events as the JSON they are: the       *)
(* strings of an event go one after the other through the detokenizers of  *)
(* their paths, what they leave is pruned, the event is forwarded or not,  *)
(* and what is held back goes out in events made for it.                   *)
(*                                                                         *)
(* SseStream has streams of many events and says of each but the texts at  *)
(* its paths and some flags.  That this is enough is AgreesWithSseStream.  *)
(***************************************************************************)
EXTENDS JsonTree

CONSTANTS
  Inputs,    \* pairs of an event and what its streams hold, by their paths
  Char,
  Token,     \* the characters that are tokens
  Original,  \* what the vault has for a character; itself unless a token
  Window     \* characters a detokenizer holds back

VARIABLES
  event,    \* as the upstream sent it
  before,   \* what the streams held then
  tree,     \* json_val
  todo,     \* the paths of its strings that have not been visited
  streams,  \* stream_detokenizers: the buffer of each path
  pc,       \* "strings", "draining", "deciding", "ending" or "ended"
  passed,   \* the event sent on, in a sequence of one, or <<>>
  flushed,  \* the events made for what was held back: path and event of each
  failing,  \* the paths of the event at which a lookup failed
  lost      \* the paths at whose flush one did

vars == <<event, before, tree, todo, streams, pc, passed, flushed, failing, lost>>

ProtocolKey ==
  {"model", "role", "name", "type", "id", "tool_call_id", "object",
   "finish_reason", "system_fingerprint", "service_tier"}

TextKey == {"delta", "message", "text", "content", "reasoning_content", "arguments"}

(* is_stream_buffered_path *)
Buffered(path) ==
  /\ \E k \in DOMAIN path : IsKey(path[k]) /\ path[k].key \in TextKey
  /\ ~(IsKey(Last(path)) /\ Last(path).key \in ProtocolKey)

(* The paths that go through a streaming detokenizer. *)
Texts(v) == {p \in StringPaths(v) : Buffered(p)}

FirstOfChoices == <<Key("choices"), Index(0)>>
FirstDelta == Append(FirstOfChoices, Key("delta"))

(* What serde_json::from_str makes of an event. *)
IsJson(v) ==
  /\ \A p \in PathsIn(v) : /\ WellFormed(ValueAt(v, p))
                           /\ Len(p) = MaxDepth => Segments(ValueAt(v, p)) = {}
  /\ \A p \in StringPaths(v) : ValueAt(v, p).text \in Seq(Char)

(* What the detokenizers hold between two events. *)
AreHeld(held) ==
  /\ held \in [DOMAIN held -> Seq(Char)]
  /\ \A p \in DOMAIN held : /\ p \in Seq(Segment) /\ Len(p) =< MaxDepth /\ Buffered(p)
                             /\ Len(held[p]) =< Window

ASSUME StreamEventAssumption ==
  /\ Token \subseteq Char
  /\ Original \in [Char -> Char]
  /\ Window \in Nat
  /\ \A i \in Inputs : IsJson(i[1]) /\ AreHeld(i[2])

(* has_finish_reason *)
HasFinishReason(v) ==
  ValueAt(v, Append(FirstOfChoices, Key("finish_reason"))).kind \notin {"absent", "null"}

(* delta_has_fields *)
DeltaHasFields(v) ==
  LET delta == ValueAt(v, FirstDelta)
  IN delta.kind = "object" /\ DOMAIN delta.fields # {}

(* Mutant: the finish reason does not count. *)
ForwardIfDelta(v, hadBuffered) == ~hadBuffered \/ DeltaHasFields(v)

(* should_forward_stream_event *)
ShouldForward(v, hadBuffered) ==
  ~hadBuffered \/ HasFinishReason(v) \/ DeltaHasFields(v)

Restored(s) == [k \in DOMAIN s |-> Original[s[k]]]
HasToken(s) == \E k \in DOMAIN s : s[k] \in Token

EmptyDelta ==
  Object([choices |-> Array(<<Object([index |-> Number(0), delta |-> Object(<<>>),
                                      finish_reason |-> Null])>>)])

(* Mutant: what is held back is content, whatever it was. *)
ContentEvent(path, text) ==
  Replaced(EmptyDelta, FirstDelta, Set(Object(<<>>), <<Key("content")>>, String(text)))

(* The path after its first "delta". *)
BelowDelta(path) ==
  SubSeq(path, SelectInSeq(path, LAMBDA s : s = Key("delta")) + 1, Len(path))

(* make_stream_delta_event: the path below its "delta" is made anew. *)
DeltaEvent(path, text) ==
  IF \E k \in DOMAIN path : path[k] = Key("delta")
    THEN Replaced(EmptyDelta, FirstDelta,
                  Set(Object(<<>>), BelowDelta(path), String(text)))
    ELSE EmptyDelta

Init ==
  /\ \E i \in Inputs : event = i[1] /\ before = i[2]
  /\ tree = event
  /\ todo = StringPaths(event)
  /\ streams = before
  /\ pc = "strings"
  /\ passed = <<>>
  /\ flushed = {}
  /\ failing = {}
  /\ lost = {}

-----------------------------------------------------------------------------
(* A string that is not part of a text: detokenized whole, or left alone. *)
Detokenize(path) ==
  /\ path \in todo
  /\ ~Buffered(path)
  /\ LET text == ValueAt(tree, path).text
     IN \/ tree' = Replaced(tree, path, String(Restored(text)))
        \/ HasToken(text) /\ UNCHANGED tree
  /\ todo' = todo \ {path}
  /\ UNCHANGED <<event, before, streams, pc, passed, flushed, failing, lost>>

(* push_chunk, and what becomes of the string. *)
Push(path) ==
  /\ path \in todo
  /\ Buffered(path)
  /\ LET grown == (IF path \in DOMAIN streams THEN streams[path] ELSE <<>>)
                    \o ValueAt(tree, path).text
         split == IF Len(grown) > Window THEN Len(grown) - Window ELSE 0
         safe == SubSeq(grown, 1, split)
     IN /\ streams' = [p \in DOMAIN streams \cup {path} |->
                         IF p = path THEN SubSeq(grown, split + 1, Len(grown))
                                     ELSE streams[p]]
        /\ \/ /\ tree' = IF safe = <<>> THEN Removed(tree, path)
                         ELSE Replaced(tree, path, String(Restored(safe)))
              /\ UNCHANGED failing
           \/ /\ HasToken(safe)
              /\ tree' = Removed(tree, path)
              /\ failing' = failing \cup {path}
  /\ todo' = todo \ {path}
  /\ UNCHANGED <<event, before, pc, passed, flushed, lost>>

(* The end of detokenize_streaming_json_strings, and what has_finish_reason says. *)
Prune ==
  /\ pc = "strings"
  /\ todo = {}
  /\ tree' = Pruned(tree)
  /\ pc' = IF HasFinishReason(tree') THEN "draining" ELSE "deciding"
  /\ UNCHANGED <<event, before, todo, streams, passed, flushed, failing, lost>>

(***************************************************************************)
(* flush_stream_json_strings, for the stream of one path: an empty one is  *)
(* passed over, and nothing comes of one whose lookup fails.               *)
(***************************************************************************)
Flush(path) ==
  /\ pc \in {"draining", "ending"}
  /\ \A p \in DOMAIN streams : Len(path) =< Len(p)
  /\ streams' = Restrict(streams, DOMAIN streams \ {path})
  /\ \/ /\ flushed' = flushed \cup
             (IF streams[path] = <<>> THEN {}
              ELSE {[path |-> path, event |-> DeltaEvent(path, Restored(streams[path]))]})
        /\ UNCHANGED lost
     \/ /\ HasToken(streams[path])
        /\ lost' = lost \cup {path}
        /\ UNCHANGED flushed
  /\ UNCHANGED <<event, before, tree, todo, pc, passed, failing>>

Decide ==
  /\ \/ pc = "deciding"
     \/ pc = "draining" /\ streams = <<>>
  /\ passed' = IF ShouldForward(tree, Texts(event) # {}) THEN <<tree>> ELSE <<>>
  /\ pc' = "ending"
  /\ UNCHANGED <<event, before, tree, todo, streams, flushed, failing, lost>>

(* [DONE], or the end of the stream, and its flush. *)
End ==
  /\ pc = "ending"
  /\ streams = <<>>
  /\ pc' = "ended"
  /\ UNCHANGED <<event, before, tree, todo, streams, passed, flushed, failing, lost>>

Next ==
  \/ \E path \in todo : Detokenize(path) \/ Push(path)
  \/ Prune
  \/ \E path \in DOMAIN streams : Flush(path)
  \/ Decide
  \/ End

Spec == Init /\ [][Next]_vars

-----------------------------------------------------------------------------
(* path as the client takes it: an item of an array is who its "index" says. *)
Address(v, path) ==
  [k \in DOMAIN path |->
     LET number == ValueAt(v, Append(SubSeq(path, 1, k), Key("index")))
     IN IF ~IsKey(path[k]) /\ number.kind = "number" THEN Index(number.value) ELSE path[k]]

(* The path lies in the delta of the first choice, in objects with a name. *)
OfFirstDelta(path) == IsPrefix(FirstDelta, path) /\ IsKey(Last(path))

(* The strings a client reads at address in an event, and in those of the set E. *)
ReadIn(v, address) ==
  {ValueAt(v, p).text : p \in {q \in StringPaths(v) : Address(v, q) = address}}
Read(E, address) == UNION {ReadIn(v, address) : v \in E}

(* What is read of a text in one event. *)
Once(text) == IF text = <<>> THEN {} ELSE {text}

(* What is neither part of a text nor only the place of an item. *)
Plain(v) ==
  {p \in ScalarPaths(v) \ Texts(v) :
     /\ Last(p) # Key("index")
     /\ IsKey(Last(p)) \/ ValueAt(v, p) # Null}

(***************************************************************************)
(* What upstreams send: an "index" is a number, and the first delta an     *)
(* object; and an item of an array on the way to something plain, or to a  *)
(* text with a name, has an index, or else what is before it in its array  *)
(* has something plain, so that pruning does not move it.                  *)
(***************************************************************************)
Steady(v, path) ==
  \A k \in DOMAIN path : ~IsKey(path[k]) =>
    \/ ValueAt(v, Append(SubSeq(path, 1, k), Key("index"))).kind = "number"
    \/ \A j \in 0 .. path[k].index - 1 : \E r \in Plain(v) :
         IsPrefix(Append(SubSeq(path, 1, k - 1), Index(j)), r)

Regular(v) ==
  /\ \A p \in PathsIn(v) \ {<<>>} :
       Last(p) = Key("index") => ValueAt(v, p).kind = "number"
  /\ ValueAt(v, FirstDelta).kind \in {"object", "absent"}
  /\ \A p \in Plain(v) \cup {q \in StringPaths(v) : IsKey(Last(q))} : Steady(v, p)

(* And that an item of an array stands where its index says. *)
InOrder(v) == \A p \in PathsIn(v) : Address(v, p) = p

(***************************************************************************)
(* A string that has not been visited is still where its path says, what-  *)
(* ever was removed before: paths are collected first and used while the   *)
(* tree changes under them.                                                *)
(***************************************************************************)
PathsStayValid == \A p \in todo : ValueAt(tree, p) = ValueAt(event, p)

(* Another stream is flushed to where path is. *)
SharesFlush(path) ==
  \E q \in (DOMAIN before \cup Texts(event)) \ {path} :
    /\ \E k \in DOMAIN q : q[k] = Key("delta")
    /\ FirstDelta \o BelowDelta(q) = path

(***************************************************************************)
(* Of each text in the first choice's delta that no other is flushed to,   *)
(* the client reads at its address what was held before and what the event *)
(* said: a beginning in the event, the rest in one made for the tail, and  *)
(* nothing else there, whatever was pruned between.                        *)
(***************************************************************************)
TextsConserved ==
  pc = "ended" /\ failing = {} /\ lost = {} =>
    \A p \in {q \in DOMAIN before \cup Texts(event) : OfFirstDelta(q) /\ ~SharesFlush(q)} :
      LET address == Address(event, p)
          said == Restored((IF p \in DOMAIN before THEN before[p] ELSE <<>>)
                             \o (IF p \in Texts(event) THEN ValueAt(event, p).text ELSE <<>>))
      IN \E n \in 0 .. Len(said) :
           /\ Read({passed[k] : k \in DOMAIN passed}, address) = Once(SubSeq(said, 1, n))
           /\ Read({f.event : f \in flushed}, address) = Once(SubSeq(said, n + 1, Len(said)))

(***************************************************************************)
(* Whatever of the texts is held back, an event that is forwarded has all  *)
(* else the upstream sent in it, at its address; and one that is not had   *)
(* nothing else in the first choice's delta.                               *)
(***************************************************************************)
SignalsKept ==
  pc = "ended" =>
    \A p \in Plain(event) :
      IF passed = <<>> THEN ~IsPrefix(FirstDelta, p)
      ELSE \E q \in ScalarPaths(passed[1]) :
             /\ Address(passed[1], q) = Address(event, p)
             /\ LET sent == ValueAt(event, p)
                    seen == ValueAt(passed[1], q)
                IN \/ seen = sent
                   \/ sent.kind = "string" /\ seen = String(Restored(sent.text))

-----------------------------------------------------------------------------
Paths == UNION {Texts(i[1]) \cup DOMAIN i[2] : i \in Inputs}
DeltaPaths == {p \in Paths : \E k \in DOMAIN p : p[k] = Key("delta")}

(***************************************************************************)
(* Of several choices the first stays the first, and its finish reason is  *)
(* no container: what SseStream takes of every choice, that its            *)
(* "finish_reason" key survives the pruning.                               *)
(***************************************************************************)
FirstStays(v) ==
  /\ \/ ValueAt(v, <<Key("choices"), Index(1)>>) = Absent
     \/ \E p \in Plain(v) : IsPrefix(FirstOfChoices, p)
  /\ ValueAt(v, Append(FirstOfChoices, Key("finish_reason"))).kind \in Scalars \cup {"absent"}

(* No event that is made for a tail is deeper than a value may be. *)
FlushesFit == \A p \in DeltaPaths : Len(FirstDelta \o BelowDelta(p)) =< MaxDepth

Sse ==
  INSTANCE SseStream WITH
    Path <- Paths, InDelta <- DeltaPaths,
    FirstChoice <- {p \in Paths : IsPrefix(FirstDelta, p)},
    Owner <- Paths, FlushOwner <- [p \in DeltaPaths |-> FirstDelta \o BelowDelta(p)],
    Capacity <- 1, Scripts <- {}, MaxSkipped <- 0,
    script <- <<>>, at <- 0, streams <- before, outbox <- <<>>, queue <- <<>>,
    received <- <<>>, gone <- FALSE, skipped <- {}, failed <- FALSE

(* What SseStream has of an event. *)
Abstract(v) ==
  [pieces |-> [p \in Texts(v) |-> [owner |-> Address(v, p), text |-> ValueAt(v, p).text]],
   other |-> \E p \in Plain(v) : IsPrefix(FirstDelta, p),
   finish |-> HasFinishReason(v), done |-> FALSE]

(* Pruning moves a string in its array, its owner stays: pieces by owner. *)
ByOwner(e) == [e EXCEPT !.pieces = {e.pieces[p] : p \in DOMAIN e.pieces}]

(***************************************************************************)
(* What SseStream says of an event by its texts and flags is what becomes  *)
(* of its JSON: whether it is forwarded and with which texts, what remains *)
(* in the buffers, and the events flushed.  Events with strings directly   *)
(* in arrays, which have no owner, are left out.                           *)
(***************************************************************************)
AgreesWithSseStream ==
  (\A p \in Texts(event) : IsKey(Last(p))) =>
    LET e == Abstract(event)
        rest == Sse!Rest(e)
    IN /\ pc = "deciding" => streams = rest
       /\ pc = "ended" =>
            /\ [k \in DOMAIN passed |-> ByOwner(Abstract(passed[k]))]
                 = LET forwarded == Sse!Forwarded(e, failing)
                   IN [k \in DOMAIN forwarded |-> ByOwner(forwarded[k])]
            /\ {<<f.path, ByOwner(Abstract(f.event))>> : f \in flushed}
                 = {<<p, ByOwner(Sse!FlushEvent(p, rest[p]))>> :
                      p \in {q \in DOMAIN rest \ lost : rest[q] # <<>>}}
=============================================================================
