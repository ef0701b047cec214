---------------------------- MODULE StillDecoder ----------------------------
(***************************************************************************)
(* What a HwStillDecoder promises its caller, whatever platform API does   *)
(* the work: one call at a time (&mut self), a request outside the stated  *)
(* scope is refused with the error its first failing check names, and a    *)
(* frame, when one is returned, is the picture of THIS request in the      *)
(* format its bit depth calls for.  A platform failure may turn any        *)
(* request into an error, and never into another picture.                  *)
(***************************************************************************)
EXTENDS StillRequest

VARIABLES
  status,   \* "closed", "ready" or "busy" with a call
  request,  \* the request of the current or last call
  answer    \* the reply of the last call, None while there is none

abstractVars == <<status, request, answer>>

(* The replies the contract allows for a request.                          *)
Allowed(r) ==
  IF Screen(r) = "ok"
  THEN {Frame(PictureOf(r), FourccOf(r)), Error("decode"), Error("invalid")}
  ELSE {Error(Screen(r))}

Init ==
  /\ status = "closed"
  /\ request = None
  /\ answer = None

(* decoder() returns a decoder.                                            *)
Open ==
  /\ status = "closed"
  /\ status' = "ready"
  /\ request' = None
  /\ answer' = None

(* decode_still(r) is entered.                                             *)
Call(r) ==
  /\ status = "ready"
  /\ status' = "busy"
  /\ request' = r
  /\ answer' = None

(* decode_still returns.                                                   *)
Return ==
  /\ status = "busy"
  /\ status' = "ready"
  /\ answer' \in Allowed(request)
  /\ UNCHANGED request

(* The decoder is dropped.                                                 *)
Close ==
  /\ status = "ready"
  /\ status' = "closed"
  /\ request' = None
  /\ answer' = None

Next ==
  \/ Open
  \/ \E r \in Request : Call(r)
  \/ Return
  \/ Close

Spec == Init /\ [][Next]_abstractVars
=============================================================================
