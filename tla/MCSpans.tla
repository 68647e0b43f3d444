------------------------------ MODULE MCSpans -------------------------------
(***************************************************************************)
(* Spans on a text of Length bytes and every set of up to three spans in   *)
(* it, of two types, found by two detectors.                               *)
(***************************************************************************)
EXTENDS Spans

CONSTANTS email, person

MCType == {email, person}
MCPriority == {1, 2}

MCSpan ==
  {s \in [start : 0 .. Length - 1, end : 1 .. Length, type : Type, priority : Priority] :
     s.start < s.end}

MCDetections == {{s, t, u} : s, t, u \in MCSpan} \cup {{}}
=============================================================================
