---------------------------- MODULE RequestPanel ----------------------------
(***************************************************************************)
(* What a user expects of a button and of the panel it fills: one question *)
(* at a time, and the panel only ever moves on to the answer of the        *)
(* question asked last.                                                    *)
(***************************************************************************)
EXTENDS Naturals

CONSTANT Buttons

VARIABLES
  pending,   \* per button: the question that waits for its answer, if any
  shown      \* per button: the question whose answer its panel shows

vars == <<pending, shown>>

Init == \A b \in Buttons : pending[b] = {} /\ shown[b] = 0

Ask(b) ==
  /\ pending[b] = {}
  /\ \E question \in pending'[b] :
       /\ question \in Nat /\ question > shown[b]
       /\ pending' = [pending EXCEPT ![b] = {question}]
  /\ UNCHANGED shown

Answer(b) ==
  /\ \E question \in pending[b] :
       shown' = [shown EXCEPT ![b] = question]
  /\ pending' = [pending EXCEPT ![b] = {}]

GiveUp(b) ==
  /\ pending[b] # {}
  /\ pending' = [pending EXCEPT ![b] = {}]
  /\ UNCHANGED shown

Next == \E b \in Buttons : Ask(b) \/ Answer(b) \/ GiveUp(b)

Spec == Init /\ [][Next]_vars
=============================================================================
