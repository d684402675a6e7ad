--------------------------- MODULE MCSirenAction ---------------------------
(* Small instances of SirenAction: two callers and two requests for one siren. *)
EXTENDS SirenAction

CONSTANTS t1, t2, hall, a, b

TwoThreads == {t1, t2}
OneSiren == {hall}
FirstRequest == [id |-> a, siren |-> hall]
SecondRequest == [id |-> b, siren |-> hall]
OneRequest == {FirstRequest}
TwoRequests == {FirstRequest, SecondRequest}
=============================================================================
