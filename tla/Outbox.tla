------------------------------- MODULE Outbox -------------------------------
(***************************************************************************)
(* internal/events/outbox.go: messages written in the transaction of what  *)
(* they announce, claimed by workers for a lease, then acknowledged or     *)
(* failed for a retry.                                                     *)
(*                                                                         *)
(* Times are stored and compared as RFC 3339 text, whose trailing zeros    *)
(* are trimmed: within one second the time without a fraction sorts last   *)
(* ("05Z" after "05.7Z").  Ack and Fail name the message and not the       *)
(* claim, so that a worker that lost its lease still changes the row.  The *)
(* workers are the callers' and external.                                  *)
(***************************************************************************)
EXTENDS Naturals, FiniteSets

CONSTANTS
  Messages,             \* ids; a subset of Nat, ordered as the text of the ids is
  Workers,
  Second, Lease,        \* in ticks of the clock
  Limits, Delays,       \* arguments of Claim, and of Fail
  MaxTime, MaxFails     \* bounds of the model

VARIABLES
  now,
  row,      \* event_outbox: a row, or Absent
  hold,     \* per worker: the messages it is delivering, until when it believes to have each, or 0
  robbed,   \* history: <<w, m>>: the claim of w was cleared by a worker that did not have it
  fails

vars == <<now, row, hold, robbed, fails>>

Absent == [created |-> 0, available |-> 0, claimed |-> 0, delivered |-> FALSE]
Exists(m) == row[m].created # 0

Init ==
  /\ now = 1
  /\ row = [m \in Messages |-> Absent]
  /\ hold = [w \in Workers |-> [m \in Messages |-> 0]]
  /\ robbed = {} /\ fails = 0

-----------------------------------------------------------------------------
\* The place of a time among the texts of times.
Text(t) == IF t % Second = 0 THEN t + Second ELSE t

\* Fault: the retry time is not looked at.
ClaimableAtOnce(m) ==
  /\ Exists(m) /\ ~row[m].delivered
  /\ row[m].claimed = 0 \/ Text(row[m].claimed) < Text(now)

\* The WHERE of Claim; claimed_until IS NULL is 0.
Claimable(m) ==
  /\ Exists(m) /\ ~row[m].delivered
  /\ Text(row[m].available) <= Text(now)
  /\ row[m].claimed = 0 \/ Text(row[m].claimed) < Text(now)

\* The ORDER BY of Claim.
Before(m, n) ==
  \/ Text(row[m].created) < Text(row[n].created)
  \/ row[m].created = row[n].created /\ m < n

\* The rows Claim takes: the first of the claimable ones.
Batch(limit) ==
  {m \in {x \in Messages : Claimable(x)} :
     Cardinality({n \in Messages : Claimable(n) /\ Before(n, m)}) < limit}

\* EnqueueTx and the commit of its transaction.
Enqueue(m, delay) ==
  /\ ~Exists(m)
  /\ row' = [row EXCEPT ![m] = [Absent EXCEPT !.created = now, !.available = now + delay]]
  /\ UNCHANGED <<now, hold, robbed, fails>>

Claim(w, limit) ==
  /\ Batch(limit) # {}
  /\ row' = [m \in Messages |->
               IF m \in Batch(limit) THEN [row[m] EXCEPT !.claimed = now + Lease]
               ELSE row[m]]
  /\ hold' = [hold EXCEPT ![w] = [m \in Messages |-> IF m \in Batch(limit) THEN now + Lease ELSE @[m]]]
  /\ robbed' = robbed \ ({w} \X Batch(limit))
  /\ UNCHANGED <<now, fails>>

\* Ack by a worker that has, or had, a claim; of a delivered message it is an error and no more.
Ack(w, m) ==
  /\ hold[w][m] # 0
  /\ row' = IF row[m].delivered THEN row ELSE [row EXCEPT ![m].delivered = TRUE, ![m].claimed = 0]
  /\ hold' = [hold EXCEPT ![w][m] = 0]
  /\ UNCHANGED <<now, robbed, fails>>

\* Fail by a worker that has, or had, a claim.
Fail(w, m, delay) ==
  /\ hold[w][m] # 0 /\ fails < MaxFails
  /\ fails' = fails + 1
  /\ row' = IF row[m].delivered THEN row ELSE [row EXCEPT ![m].available = now + delay, ![m].claimed = 0]
  /\ hold' = [hold EXCEPT ![w][m] = 0]
  /\ robbed' = robbed \cup {<<x, m>> : x \in {x \in Workers \ {w} :
                                              hold[x][m] = row[m].claimed /\ hold[x][m] # 0}}
  /\ UNCHANGED now

\* A worker dies and forgets what it was delivering.
Die(w) ==
  /\ \E m \in Messages : hold[w][m] # 0
  /\ hold' = [hold EXCEPT ![w] = [m \in Messages |-> 0]]
  /\ UNCHANGED <<now, row, robbed, fails>>

Tick ==
  /\ now < MaxTime /\ now' = now + 1
  /\ UNCHANGED <<row, hold, robbed, fails>>

Next ==
  \/ \E m \in Messages, d \in Delays : Enqueue(m, d)
  \/ \E w \in Workers, l \in Limits : Claim(w, l)
  \/ \E w \in Workers, m \in Messages : Ack(w, m)
  \/ \E w \in Workers, m \in Messages, d \in Delays : Fail(w, m, d)
  \/ \E w \in Workers : Die(w)
  \/ Tick

Spec == Init /\ [][Next]_vars

-----------------------------------------------------------------------------
Claims(m) == row'[m].claimed > row[m].claimed

\* A message is claimed again neither a second before the lease of another worker ends nor a second
\* before its retry time: the text of times is wrong by less than that.  A claim that a late Fail of
\* another worker cleared is lost, and excepted.
RespectsTimes ==
  [][\A m \in Messages : Claims(m) =>
       /\ row[m].available < now + Second
       /\ \A w \in Workers : <<w, m>> \in robbed \/ hold[w][m] < now + Second]_vars
=============================================================================
