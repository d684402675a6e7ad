-------------------------- MODULE MCOwnerCallback --------------------------
(* Small instances of OwnerCallback.                                         *)
EXTENDS OwnerCallback

CONSTANTS d1, d2, u1, u2, e1, e2, i1, i2

TwoDeliveries == {d1, d2}
TwoUsers == {u1, u2}
MCInitRole == [u \in TwoUsers |-> IF u = u1 THEN "admin" ELSE "operator"]
Decision(e, u, dec, i) == [kind |-> "decision", event |-> e, user |-> u, decision |-> dec, input |-> i]

\* Two events, each used for two decisions; one message asks for a retry, one
\* is not supported, one comes from an operator who may only acknowledge.
MCMessages == {
  Decision(e1, u1, "approve", i1), Decision(e1, u1, "abort", i2),
  Decision(e2, u1, "retry", i1), Decision(e2, u2, "reject", i1), Decision(e2, u1, "unsupported", i1),
  [kind |-> "response", event |-> e1, user |-> u2, decision |-> "approve", input |-> i1] }
RetryMessages == { Decision(e1, u1, "retry", i1), Decision(e2, u1, "retry", i2) }
=============================================================================
