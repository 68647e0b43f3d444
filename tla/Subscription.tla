---------------------------- MODULE Subscription -----------------------------
(***************************************************************************)
(* What SseStream promises a client that streams a reply, without events,  *)
(* tokens, windows and channels: it hears each text from its beginning, in *)
(* order, no further than it has been said, and it hears all of it before  *)
(* long once the speaker is done, unless it goes away or a lookup breaks   *)
(* the transcript.                                                         *)
(***************************************************************************)
EXTENDS Integers, Sequences

CONSTANTS
  Listened  \* the texts of a reply: of a choice, of a tool call

VARIABLES
  said,    \* what has been said of each text
  heard,   \* what the client has of it
  over,    \* nothing more will be said
  away,    \* the client has gone
  broken   \* something said has been dropped

vars == <<said, heard, over, away, broken>>

Begins(s, t) == Len(s) =< Len(t) /\ s = SubSeq(t, 1, Len(s))

Init ==
  /\ said = [x \in Listened |-> <<>>]
  /\ heard = [x \in Listened |-> <<>>]
  /\ ~over /\ ~away /\ ~broken

Say ==
  /\ ~over
  /\ \A x \in Listened : Begins(said[x], said'[x])
  /\ UNCHANGED <<heard, over, away, broken>>

(* Says more, and drops some of it or of what it said before. *)
Break ==
  /\ ~over
  /\ broken' = TRUE
  /\ \A x \in Listened : Begins(said[x], said'[x])
  /\ UNCHANGED <<heard, over, away>>

Hear ==
  /\ ~away
  /\ \A x \in Listened : Begins(heard[x], heard'[x]) /\ (broken \/ Begins(heard'[x], said[x]))
  /\ UNCHANGED <<said, over, away, broken>>

GoAway ==
  /\ ~away
  /\ away' = TRUE
  /\ UNCHANGED <<said, heard, over, broken>>

End ==
  /\ ~over
  /\ over' = TRUE
  /\ UNCHANGED <<said, heard, away, broken>>

Next == Say \/ Break \/ Hear \/ GoAway \/ End

HearsAll == over ~> (heard = said \/ away \/ broken)

Spec == Init /\ [][Next]_vars /\ <>over /\ HearsAll
=============================================================================
