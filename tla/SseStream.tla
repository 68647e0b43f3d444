----------------------------- MODULE SseStream ------------------------------
(***************************************************************************)
(* handle_streaming of src/server.rs: the task that reads the upstream's   *)
(* SSE stream, puts the strings of every event through a streaming         *)
(* detokenizer per JSON path, and sends what comes out to the client over  *)
(* a bounded channel; flush_stream_json_strings sends what the             *)
(* detokenizers still hold as events of its own.                           *)
(*                                                                         *)
(* A text is a sequence of characters, of which a token is one: StreamDetok*)
(* has the bytes.  The path of a string says where in the arrays of an     *)
(* event it stands; whose it is, of which choice or tool call, the client  *)
(* takes from the "index" next to it.  Path and owner are independent.     *)
(***************************************************************************)
EXTENDS Integers, Sequences, FiniteSets, SequencesExt

CONSTANTS
  Path,         \* the paths is_stream_buffered_path selects
  InDelta,      \* those with a "delta" key
  FirstChoice,  \* those in the delta of the first element of "choices"
  Owner,        \* the texts the client puts together
  FlushOwner,   \* whose a client takes a flush event of a path to be
  Char,
  Token,        \* the characters that are tokens
  Original,     \* what the vault has for a character; itself unless a token
  Window,       \* characters a detokenizer holds back
  Capacity,     \* of the channel: 32 in the code
  Scripts,      \* the event sequences upstreams may send
  MaxSkipped    \* bound: the events lost in chunks that are not UTF-8

Piece == [owner : Owner, text : Seq(Char)]

(***************************************************************************)
(* pieces: the buffered strings.  other: the delta of the first choice has *)
(* another field, a role or a name.  finish: the first choice has a finish *)
(* reason.  done: the sentinel [DONE] instead of JSON.  Every choice is    *)
(* taken to have a "finish_reason" key, so it survives the pruning.        *)
(***************************************************************************)
Sentinel == [pieces |-> <<>>, other |-> FALSE, finish |-> FALSE, done |-> TRUE]

IsEvent(e) ==
  \/ e = Sentinel
  \/ /\ e \in [pieces : {e.pieces}, other : BOOLEAN, finish : BOOLEAN, done : {FALSE}]
     /\ \E P \in SUBSET Path : IsFiniteSet(P) /\ e.pieces \in [P -> Piece]

AreEvents(s) == s \in Seq(ToSet(s)) /\ \A e \in ToSet(s) : IsEvent(e)

ASSUME SseAssumption ==
  /\ FirstChoice \subseteq InDelta /\ InDelta \subseteq Path
  /\ FlushOwner \in [InDelta -> Owner]
  /\ Token \subseteq Char
  /\ Original \in [Char -> Char]
  /\ \A c \in Char \ Token : Original[c] = c
  /\ \A s \in Scripts : AreEvents(s)
  /\ Window \in Nat
  /\ Capacity \in Nat \ {0}
  /\ MaxSkipped \in Nat

VARIABLES
  script,    \* what the upstream sends
  at,        \* how many of its events have been read
  streams,   \* stream_detokenizers: the buffer of each path
  outbox,    \* the events the current one gives rise to, not sent yet
  queue,     \* the events in the channel
  pc,        \* "reading", "leaving" once nothing more is read, "ended"
  received,  \* the events the client has received
  gone,      \* the client has closed the connection
  skipped,   \* history: the events lost in skipped chunks
  failed     \* history: a lookup failed, and its text was dropped

vars == <<script, at, streams, outbox, queue, pc, received, gone, skipped, failed>>

(* The empty function: no buffered strings, no detokenizers. *)
None == <<>>

Init ==
  /\ script \in Scripts
  /\ at = 0
  /\ streams = None
  /\ outbox = <<>>
  /\ queue = <<>>
  /\ pc = "reading"
  /\ received = <<>>
  /\ gone = FALSE
  /\ skipped = {}
  /\ failed = FALSE

-----------------------------------------------------------------------------
Restored(s) == [k \in DOMAIN s |-> Original[s[k]]]

HasToken(s) == \E k \in DOMAIN s : s[k] \in Token

(* push_str, for every string of e. *)
Grown(e) ==
  [p \in DOMAIN streams \cup DOMAIN e.pieces |->
     (IF p \in DOMAIN streams THEN streams[p] ELSE <<>>)
       \o (IF p \in DOMAIN e.pieces THEN e.pieces[p].text ELSE <<>>)]

SafeLen(s) == IF Len(s) > Window THEN Len(s) - Window ELSE 0

Safe(s) == SubSeq(s, 1, SafeLen(s))

(* Mutant: the buffers of the paths e does not have are dropped. *)
RestOfHere(e) == [p \in DOMAIN e.pieces |->
                    SubSeq(Grown(e)[p], SafeLen(Grown(e)[p]) + 1, Len(Grown(e)[p]))]

(* What is left in the buffers; one e does not add to is no longer than Window. *)
Rest(e) == [p \in DOMAIN Grown(e) |->
              SubSeq(Grown(e)[p], SafeLen(Grown(e)[p]) + 1, Len(Grown(e)[p]))]

(* The paths at which a lookup may fail. *)
Looked(e) == {p \in DOMAIN e.pieces : HasToken(Safe(Grown(e)[p]))}

(***************************************************************************)
(* e with its strings replaced by what is safe to release.  A string of    *)
(* which nothing is, or whose lookup failed, is removed.                   *)
(***************************************************************************)
Passed(e, failing) ==
  LET safe == [p \in DOMAIN e.pieces |-> Safe(Grown(e)[p])]
      kept == {p \in DOMAIN e.pieces \ failing : safe[p] # <<>>}
  IN [e EXCEPT !.pieces = [p \in kept |-> [owner |-> e.pieces[p].owner,
                                           text |-> Restored(safe[p])]]]

(* Mutant: an event all of whose strings are held back is dropped. *)
ForwardedIfText(e, failing) ==
  IF DOMAIN e.pieces = {} \/ DOMAIN Passed(e, failing).pieces \cap FirstChoice # {}
    THEN <<Passed(e, failing)>>
    ELSE <<>>

(* should_forward_stream_event *)
Forwarded(e, failing) ==
  IF \/ DOMAIN e.pieces = {}
     \/ e.finish
     \/ e.other
     \/ DOMAIN Passed(e, failing).pieces \cap FirstChoice # {}
    THEN <<Passed(e, failing)>>
    ELSE <<>>

(* make_stream_delta_event: of a path without a delta nothing remains. *)
FlushEvent(p, text) ==
  [pieces |-> [q \in {p} \cap InDelta |-> [owner |-> FlushOwner[q], text |-> Restored(text)]],
   other |-> FALSE, finish |-> FALSE, done |-> FALSE]

(***************************************************************************)
(* The events a flush of the buffers held may send: of what is not empty,  *)
(* if the lookups do not fail.  They come by the length of the path, and   *)
(* of equal ones in the order of a hash map; here in any order.            *)
(***************************************************************************)
FlushEvents(held, failing) ==
  {[k \in DOMAIN order |-> FlushEvent(order[k], held[order[k]])] :
     order \in SetToSeqs({p \in DOMAIN held \ failing : held[p] # <<>>})}

LookedFor(held) == {p \in DOMAIN held : HasToken(held[p])}

-----------------------------------------------------------------------------
(* The task awaits the next event. *)
Reading == pc = "reading" /\ outbox = <<>>

Incoming == script[at + 1]

(* An event of JSON, of which the first choice goes on. *)
Data ==
  /\ Reading
  /\ at < Len(script)
  /\ ~Incoming.done /\ ~Incoming.finish
  /\ \E failing \in SUBSET Looked(Incoming) :
       /\ outbox' = Forwarded(Incoming, failing)
       /\ failed' = (failed \/ failing # {})
  /\ streams' = Rest(Incoming)
  /\ at' = at + 1
  /\ UNCHANGED <<script, queue, pc, received, gone, skipped>>

(* Mutant: the buffers keep what was flushed. *)
FinishUndrained ==
  /\ Reading
  /\ at < Len(script)
  /\ Incoming.finish
  /\ \E failing \in SUBSET Looked(Incoming), lost \in SUBSET LookedFor(Rest(Incoming)) :
       /\ \E flushed \in FlushEvents(Rest(Incoming), lost) :
            outbox' = flushed \o Forwarded(Incoming, failing)
       /\ failed' = (failed \/ failing # {} \/ lost # {})
  /\ streams' = Rest(Incoming)
  /\ at' = at + 1
  /\ UNCHANGED <<script, queue, pc, received, gone, skipped>>

(* The first choice ends: what is held back goes out before the event does. *)
Finish ==
  /\ Reading
  /\ at < Len(script)
  /\ Incoming.finish
  /\ \E failing \in SUBSET Looked(Incoming), lost \in SUBSET LookedFor(Rest(Incoming)) :
       /\ \E flushed \in FlushEvents(Rest(Incoming), lost) :
            outbox' = flushed \o Forwarded(Incoming, failing)
       /\ failed' = (failed \/ failing # {} \/ lost # {})
  /\ streams' = None
  /\ at' = at + 1
  /\ UNCHANGED <<script, queue, pc, received, gone, skipped>>

(* Mutant: the sentinel overtakes the tails. *)
DoneFirst ==
  /\ Reading
  /\ at < Len(script)
  /\ Incoming.done
  /\ \E lost \in SUBSET LookedFor(streams) :
       /\ \E flushed \in FlushEvents(streams, lost) :
            outbox' = <<Incoming>> \o flushed
       /\ failed' = (failed \/ lost # {})
  /\ streams' = None
  /\ at' = at + 1
  /\ pc' = "leaving"
  /\ UNCHANGED <<script, queue, received, gone, skipped>>

(* [DONE]: the tails, the sentinel, and the task returns. *)
Done ==
  /\ Reading
  /\ at < Len(script)
  /\ Incoming.done
  /\ \E lost \in SUBSET LookedFor(streams) :
       /\ \E flushed \in FlushEvents(streams, lost) :
            outbox' = flushed \o <<Incoming>>
       /\ failed' = (failed \/ lost # {})
  /\ streams' = None
  /\ at' = at + 1
  /\ pc' = "leaving"
  /\ UNCHANGED <<script, queue, received, gone, skipped>>

(* Mutant: breaks out without the tails. *)
CloseUnflushed ==
  /\ Reading
  /\ pc' = "leaving"
  /\ UNCHANGED <<script, at, streams, outbox, queue, received, gone, skipped, failed>>

(***************************************************************************)
(* The stream ends without [DONE]: the upstream closes it, or reading      *)
(* fails, not last because the client's total timeout is over.             *)
(***************************************************************************)
Close ==
  /\ Reading
  /\ \E lost \in SUBSET LookedFor(streams) :
       /\ outbox' \in FlushEvents(streams, lost)
       /\ failed' = (failed \/ lost # {})
  /\ streams' = None
  /\ pc' = "leaving"
  /\ UNCHANGED <<script, at, queue, received, gone, skipped>>

(***************************************************************************)
(* A chunk that begins or ends inside a UTF-8 sequence is skipped whole:   *)
(* the events with a line in it, parts of which no longer parse, are gone. *)
(* What is left of such a line may parse all the same.  The script has the *)
(* lines as the task reads them, so that such a one is an event of it like *)
(* any other.                                                              *)
(***************************************************************************)
Skip ==
  /\ Reading
  /\ at < Len(script)
  /\ Cardinality(skipped) < MaxSkipped
  /\ skipped' = skipped \cup {at + 1}
  /\ at' = at + 1
  /\ UNCHANGED <<script, streams, outbox, queue, pc, received, gone, failed>>

(* Mutant: waits for room in the channel of a client that has gone. *)
SendAnyway ==
  /\ outbox # <<>>
  /\ Len(queue) < Capacity
  /\ queue' = Append(queue, Head(outbox))
  /\ outbox' = Tail(outbox)
  /\ UNCHANGED <<script, at, streams, pc, received, gone, skipped, failed>>

(* tx.send: waits for room, unless the receiver has been dropped. *)
Send ==
  /\ outbox # <<>>
  /\ \/ gone /\ UNCHANGED queue
     \/ ~gone /\ Len(queue) < Capacity /\ queue' = Append(queue, Head(outbox))
  /\ outbox' = Tail(outbox)
  /\ UNCHANGED <<script, at, streams, pc, received, gone, skipped, failed>>

Return ==
  /\ pc = "leaving"
  /\ outbox = <<>>
  /\ pc' = "ended"
  /\ UNCHANGED <<script, at, streams, outbox, queue, received, gone, skipped, failed>>

Task == Data \/ Finish \/ Done \/ Close \/ Skip \/ Send \/ Return

(* The server writes the next event to the client. *)
Read ==
  /\ ~gone
  /\ queue # <<>>
  /\ received' = Append(received, Head(queue))
  /\ queue' = Tail(queue)
  /\ UNCHANGED <<script, at, streams, outbox, pc, gone, skipped, failed>>

(* The client closes the connection, which drops the receiver. *)
Leave ==
  /\ ~gone
  /\ gone' = TRUE
  /\ UNCHANGED <<script, at, streams, outbox, queue, pc, received, skipped, failed>>

Next == Task \/ Read \/ Leave

Spec == Init /\ [][Next]_vars

(***************************************************************************)
(* The runtime runs the task while it can run: if nothing arrives, the     *)
(* total timeout of the upstream client ends the wait (Close).  A client   *)
(* reads until it leaves; one that does neither holds the task for ever.   *)
(***************************************************************************)
FairSpec == Spec /\ WF_vars(Task) /\ WF_vars(Read)

-----------------------------------------------------------------------------
TypeOK ==
  /\ script \in Scripts
  /\ at \in 0 .. Len(script)
  /\ \E P \in SUBSET Path : streams \in [P -> Seq(Char)]
  /\ AreEvents(outbox)
  /\ AreEvents(queue)
  /\ pc \in {"reading", "leaving", "ended"}
  /\ AreEvents(received)
  /\ gone \in BOOLEAN
  /\ skipped \subseteq 1 .. at
  /\ failed \in BOOLEAN

(***************************************************************************)
(* The streams of one choice, each of whose texts stands at a path of its  *)
(* own and is flushed to whom it is for; and whose finish reason comes     *)
(* after all text.  What Path and owner are when the choices or the tool   *)
(* calls of a stream are several, see the README.                          *)
(***************************************************************************)
OneChoice ==
  /\ FirstChoice = Path
  /\ \A p, q \in Path : FlushOwner[p] = FlushOwner[q] => p = q
  /\ \A s \in Scripts : \A k \in DOMAIN s : \A p \in DOMAIN s[k].pieces :
       s[k].pieces[p].owner = FlushOwner[p]

FinishAfterText ==
  \A s \in Scripts : \A k, l \in DOMAIN s :
    k =< l /\ s[k].finish => DOMAIN s[l].pieces = {}

(* What an event says to owner o, and what the events of a sequence say. *)
SaidTo(o, e) ==
  LET own == {p \in DOMAIN e.pieces : e.pieces[p].owner = o}
  IN IF own = {} THEN <<>> ELSE e.pieces[CHOOSE p \in own : TRUE].text

TextFor(o, events) == FlattenSeq([k \in DOMAIN events |-> SaidTo(o, events[k])])

(* The events read, in the place of a skipped one an event without anything. *)
Lost == [pieces |-> None, other |-> FALSE, finish |-> FALSE, done |-> FALSE]

Handled == [k \in 1 .. at |-> IF k \in skipped THEN Lost ELSE script[k]]

(* What an event tells besides text, and what the events of a sequence tell. *)
SignalIn(e) ==
  IF e.other \/ e.finish \/ e.done
    THEN <<[other |-> e.other, finish |-> e.finish, done |-> e.done]>>
    ELSE <<>>

Signals(events) == FlattenSeq([k \in DOMAIN events |-> SignalIn(events[k])])

(***************************************************************************)
(* Unless a lookup failed, what a client has of each text is a beginning   *)
(* of what the upstream said of it, with the originals for the tokens:     *)
(* through the window, the flushes and the channel nothing is doubled,     *)
(* dropped, overtaken or given to another text.                            *)
(***************************************************************************)
InOrder ==
  ~failed => \A o \in Owner :
    IsPrefix(TextFor(o, received), Restored(TextFor(o, Handled)))

(***************************************************************************)
(* When the stream has ended, however it did, a client that stayed has all *)
(* of what was read from the upstream: no detokenizer keeps a tail.        *)
(***************************************************************************)
NothingKept ==
  pc = "ended" /\ queue = <<>> /\ ~gone /\ ~failed =>
    \A o \in Owner : TextFor(o, received) = Restored(TextFor(o, Handled))

(***************************************************************************)
(* To the client an event with a finish reason is the last with text, and  *)
(* [DONE] the last of all.                                                 *)
(***************************************************************************)
EndsLast ==
  \A k, l \in DOMAIN received : k < l =>
    /\ ~received[k].done
    /\ received[k].finish => DOMAIN received[l].pieces = {}

(***************************************************************************)
(* The roles, finish reasons and the sentinel the client receives are the  *)
(* first of those that were read, one for one and in their order, and all  *)
(* of them once the stream has ended: also those of events all of whose    *)
(* strings are held back or fail.                                          *)
(***************************************************************************)
SignalsForwarded ==
  /\ IsPrefix(Signals(received), Signals(Handled))
  /\ pc = "ended" /\ queue = <<>> /\ ~gone => Signals(received) = Signals(Handled)

(***************************************************************************)
(* The task ends: with a client that reads slowly, has left, or an         *)
(* upstream that falls silent.                                             *)
(***************************************************************************)
StreamEnds == <>(pc = "ended")

(***************************************************************************)
(* To the client a stream is a subscription: see Subscription.             *)
(***************************************************************************)
Subscribed ==
  INSTANCE Subscription WITH
    Listened <- Owner,
    said <- [o \in Owner |-> Restored(TextFor(o, Handled))],
    heard <- [o \in Owner |-> TextFor(o, received)],
    over <- pc = "ended", away <- gone, broken <- failed

KeepsSubscription == Subscribed!Spec
=============================================================================
