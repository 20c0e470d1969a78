---------------------------- MODULE AffectedSet ----------------------------
(***************************************************************************)
(* What a closure call promises, with no worklist: the caller gets, in one *)
(* step, the least set of objects that the changed ones can affect, and    *)
(* every reason in that set why a reference scan is not enough.            *)
(***************************************************************************)
EXTENDS ReferenceGraph

VARIABLES
  call,       \* the call being answered
  answered,   \* has closure() returned?
  answer,     \* the objects it returned
  escaped     \* the (object, why) pairs it returned

vars == <<call, answered, answer, escaped>>

Init ==
  /\ call \in Call
  /\ answered = FALSE
  /\ answer = {}
  /\ escaped = {}

Answer ==
  /\ ~answered
  /\ answered' = TRUE
  /\ answer' = Affected(call)
  /\ escaped' = UNION {EscapesOf(call, o) : o \in Affected(call)}
  /\ UNCHANGED call

Spec == Init /\ [][Answer]_vars /\ WF_vars(Answer)
=============================================================================
