------------------------------ MODULE DelayLine ------------------------------
(***************************************************************************)
(* What StreamDetok promises of the bytes of a stream, whatever they are:  *)
(* a delay line.  What has come out of it is a beginning of what went in,  *)
(* at least Least and at most Most bytes behind, and closing it lets out   *)
(* the rest.                                                               *)
(***************************************************************************)
EXTENDS Integers, Sequences

CONSTANTS
  Least,  \* the delay kept for what may still become part of a token
  Most    \* the delay a client has to put up with

VARIABLES
  input,   \* the bytes that went in
  passed,  \* those that came out
  closed

vars == <<input, passed, closed>>

Begins(s, t) == Len(s) =< Len(t) /\ s = SubSeq(t, 1, Len(s))

Behind == Len(input) - Len(passed)

Init == input = <<>> /\ passed = <<>> /\ closed = FALSE

(* Bytes go in; out come none, or some with those of the delay kept back. *)
Push ==
  /\ ~closed
  /\ closed' = closed
  /\ Begins(input, input')
  /\ Begins(passed, passed') /\ Begins(passed', input')
  /\ Behind' =< Most
  /\ passed' # passed => Behind' >= Least

Close ==
  /\ ~closed
  /\ closed' = TRUE
  /\ input' = input
  /\ passed' = input

Next == Push \/ Close

Spec == Init /\ [][Next]_vars
=============================================================================
