------------------------- MODULE LastReportRegister -------------------------
(***************************************************************************)
(* What a reader of "the last report" expects of the web server: one       *)
(* register holds the report published last, and a download is the report  *)
(* the register held at one instant - never parts of two reports.          *)
(***************************************************************************)
EXTENDS Naturals

CONSTANT Tabs

VARIABLES
  current,   \* the last report, 0 before the first one
  answer     \* per tab: the reports its last download was made of

vars == <<current, answer>>

Init == current = 0 /\ answer = [t \in Tabs |-> {}]

Publish ==
  /\ current' \in Nat \ {0}
  /\ UNCHANGED answer

Forget ==
  /\ current' = 0
  /\ UNCHANGED answer

Download(t) ==
  /\ current # 0
  /\ answer' = [answer EXCEPT ![t] = {current}]
  /\ UNCHANGED current

Refuse(t) ==
  /\ answer' = [answer EXCEPT ![t] = {}]
  /\ UNCHANGED current

Next == Publish \/ Forget \/ \E t \in Tabs : Download(t) \/ Refuse(t)

Spec == Init /\ [][Next]_vars
=============================================================================
