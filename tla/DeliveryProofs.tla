--------------------------- MODULE DeliveryProofs ---------------------------
(***************************************************************************)
(* Proofs about what must come out right though processes end, for every   *)
(* number of calls, keys, recipients, clients and operations: no           *)
(* notification is sent twice blindly and what is said of it is true       *)
(* (TelegramNotifier), and a backup recorded as succeeded can be restored  *)
(* (BackupJobs, J).                                                        *)
(*                                                                         *)
(* That each recipient got at most one message is not inductive. It rests  *)
(* on who may send: the row of a recipient tells what Telegram has taken   *)
(* (RowTells), a call that has claimed a row is the only one that has      *)
(* (OneOwner), and it knows where its message is (Fenced). A backup that   *)
(* has returned from its last call has a whole snapshot of its own job,    *)
(* and none is at work without the lock.                                   *)
(***************************************************************************)
EXTENDS MCDelivery, TLAPS, WellFoundedInduction, SequenceTheorems

RowStates == {"prepared", "sending", "applied", "ambiguous"}
Tables == UNION {[D -> RowStates] : D \in SUBSET Recipients}
Operations == [message : Messages, deliveries : Tables]
Looping == {"claim", "look", "send", "apply", "mark", "release"}
Working == Looping \cup {"final"}
Underway == {"load", "select", "freeze", "frozen"} \cup Working
Calls == [pc : {"idle", "done"} \cup Underway, key : Keys \cup {None}, message : Messages \cup {None},
          frozen : Tables, chosen : SUBSET Recipients, created : BOOLEAN, claimed : BOOLEAN,
          tries : Nat, sentAny : BOOLEAN,
          result : {"none", "conflict", "ambiguous", "already", "applied", "error"}]

(* The types; a key of a map of rows is a recipient.                       *)
NotifierTypes ==
    /\ eligible \subseteq Recipients
    /\ ops \in [Keys -> Operations \cup {None}]
    /\ accepted \in [Keys -> [Recipients -> Seq(Messages)]]
    /\ calls \in [Callers -> Calls]

(* What Telegram has taken, as far as the row of the database says it.       *)
RowTells(oper, took, r) ==
    IF oper = None THEN took = <<>>
    ELSE IF r \notin DOMAIN oper.deliveries THEN took = <<>>
    ELSE /\ oper.deliveries[r] = "prepared" => took = <<>>
         /\ oper.deliveries[r] = "applied" => took = <<oper.message>>
         /\ took \in {<<>>, <<oper.message>>}

(* What a call x knows of the operations o: its rows are those of its        *)
(* operation, and what it takes for applied is.                              *)
Knows(x, o) ==
    LET rows == o[x.key].deliveries IN
    /\ x.pc \in Underway => x.key \in Keys /\ x.message \in Messages /\ x.result = "none"
    /\ x.pc = "idle" => x.result = "none"
    /\ x.pc \in {"frozen"} \cup Working => o[x.key] # None
    /\ x.pc \in Working =>
         /\ x.message = o[x.key].message
         /\ DOMAIN x.frozen = DOMAIN rows
         /\ \A r \in DOMAIN rows :
              /\ x.frozen[r] \in {"prepared", "applied"}
              /\ x.frozen[r] = "applied" => rows[r] = "applied"
    /\ x.pc \in Looping => Open(x) # {}
    /\ x.result \in {"applied", "already"} =>
         /\ x.key \in Keys /\ o[x.key] # None
         /\ x.message = o[x.key].message /\ AllApplied(rows)

(* The one call that has claimed a row, and how far it has come with it.     *)
Owning(x) == (x.pc = "look" /\ x.claimed) \/ x.pc \in {"send", "apply", "mark", "release"}
Owns(x, k, r) == Owning(x) /\ x.key = k /\ Current(x) = r
Fenced(x, row, oper, took) ==
    /\ IF x.pc = "mark" THEN row \in {"sending", "applied"} ELSE row = "sending"
    /\ x.pc \in {"look", "send", "release"} => took = <<>>
    /\ x.pc = "apply" => took = <<oper.message>>
AllFenced(x, o, a) ==
    \A k \in Keys, r \in Recipients :
        Owns(x, k, r) => Fenced(x, o[k].deliveries[r], o[k], a[k][r])
OneOwner ==
    \A c, d \in Callers, k \in Keys, r \in Recipients :
        Owns(calls[c], k, r) /\ Owns(calls[d], k, r) => c = d

NotifierInv ==
    /\ NotifierTypes /\ OneOwner
    /\ \A k \in Keys, r \in Recipients : RowTells(ops[k], accepted[k][r], r)
    /\ \A c \in Callers : Knows(calls[c], ops) /\ AllFenced(calls[c], ops, accepted)

-----------------------------------------------------------------------------
(* The least of the rows that are open is one of them: recipients are      *)
(* numbers, and every set of those has a least.                            *)
LEMMA CurrentIsOpen ==
    ASSUME NEW x, x.frozen \in Tables, Open(x) # {}
    PROVE  Current(x) \in Open(x)
<1>1. Open(x) \subseteq Nat
  BY RecipientsAssumption DEF Open, Tables
<1> DEFINE R == {ss \in Nat \X Nat : ss[1] < ss[2]}
<1>2. IsWellFoundedOn(R, Nat)
  BY NatLessThanWellFounded, Zenon DEF OpToRel
<1> HIDE DEF R
<1>3. PICK m \in Open(x) : \A y \in Open(x) : ~(<<y, m>> \in R)
  BY <1>1, <1>2, WFMin
<1>4. ASSUME NEW y \in Open(x)
      PROVE  m <= y
  <2>1. m \in Nat /\ y \in Nat /\ (y < m => <<y, m>> \in R)
    BY <1>1 DEF R
  <2> QED
    BY <1>3, <2>1
<1> QED
  BY <1>4 DEF Current, Min

(* Which row a call is at depends on what it has loaded only.              *)
LEMMA SameFrozen ==
    ASSUME NEW x, NEW y, x.frozen = y.frozen
    PROVE  Open(x) = Open(y) /\ Current(x) = Current(y)
BY DEF Open, Current, Min

(* A call that goes through the rows is at one of its operation.              *)
LEMMA CurrentIsRow ==
    ASSUME NEW x \in Calls, NEW o, Knows(x, o), x.pc \in Looping
    PROVE  /\ x.key \in Keys /\ o[x.key] # None
           /\ Current(x) \in DOMAIN o[x.key].deliveries /\ Current(x) \in Recipients
           /\ Current(x) \in DOMAIN x.frozen /\ x.frozen[Current(x)] = "prepared"
<1>1. Current(x) \in Open(x) /\ x.frozen \in Tables
  BY CurrentIsOpen DEF Calls, Knows
<1> QED
  BY <1>1 DEF Open, Knows, Working, Underway, Tables

(* A step of a call that leaves the tables and what was sent alone.          *)
LEMMA QuietStep ==
    ASSUME NotifierInv, NEW c \in Callers, NEW y \in Calls,
           calls' = [calls EXCEPT ![c] = y], UNCHANGED <<eligible, ops, accepted>>,
           Knows(y, ops), AllFenced(y, ops, accepted),
           \A k \in Keys, r \in Recipients : Owns(y, k, r) => Owns(calls[c], k, r)
    PROVE  NotifierInv'
<1> USE DEF NotifierInv
<1>1. NotifierTypes'
  BY DEF NotifierTypes
<1>2. OneOwner'
  BY DEF OneOwner, NotifierTypes
<1>3. \A d \in Callers : (Knows(calls[d], ops) /\ AllFenced(calls[d], ops, accepted))'
  BY DEF NotifierTypes
<1> QED
  BY <1>1, <1>2, <1>3

(* A step of a call that writes one row, of which it is the only owner.      *)
Written(k, r, s) == [ops EXCEPT ![k].deliveries[r] = s]

(* What a write of one row changes.                                        *)
LEMMA WrittenIs ==
    ASSUME NotifierTypes, NEW k \in Keys, ops[k] # None, NEW r \in DOMAIN Rows(k), NEW s \in RowStates
    PROVE  /\ Written(k, r, s) \in [Keys -> Operations \cup {None}]
           /\ \A j \in Keys \ {k} : Written(k, r, s)[j] = ops[j]
           /\ Written(k, r, s)[k] # None /\ Written(k, r, s)[k].message = ops[k].message
           /\ DOMAIN Written(k, r, s)[k].deliveries = DOMAIN Rows(k)
           /\ Written(k, r, s)[k].deliveries[r] = s
           /\ \A q \in DOMAIN Rows(k) \ {r} : Written(k, r, s)[k].deliveries[q] = Rows(k)[q]
<1> USE DEF Rows
<1>1. ops[k] \in Operations /\ Rows(k) \in Tables
  BY DEF NotifierTypes, Operations
<1>2. [Rows(k) EXCEPT ![r] = s] \in Tables
  BY <1>1 DEF Tables
<1>3. Written(k, r, s) = [ops EXCEPT ![k] = [ops[k] EXCEPT !.deliveries = [Rows(k) EXCEPT ![r] = s]]]
  BY <1>1 DEF Written, NotifierTypes, Operations
<1>4. [ops[k] EXCEPT !.deliveries = [Rows(k) EXCEPT ![r] = s]]
        = [message |-> ops[k].message, deliveries |-> [Rows(k) EXCEPT ![r] = s]]
  BY <1>1 DEF Operations
<1>5. [message |-> ops[k].message, deliveries |-> [Rows(k) EXCEPT ![r] = s]] \in Operations
  BY <1>1, <1>2 DEF Operations
<1>6. [message |-> ops[k].message, deliveries |-> [Rows(k) EXCEPT ![r] = s]] # None
  BY DEF None
<1> QED
  BY <1>1, <1>2, <1>3, <1>4, <1>5, <1>6 DEF NotifierTypes

(* A write of one row that takes nothing back keeps what a call knows.     *)
LEMMA WrittenKnows ==
    ASSUME NotifierTypes, NEW k \in Keys, ops[k] # None, NEW r \in DOMAIN Rows(k), NEW s \in RowStates,
           Rows(k)[r] = "applied" => s = "applied",
           NEW x \in Calls, Knows(x, ops)
    PROVE  Knows(x, Written(k, r, s))
BY WrittenIs DEF Knows, Working, Looping, Underway, AllApplied, Rows

Writes(c, y, k, r, s) ==
    /\ k \in Keys /\ ops[k] # None /\ r \in DOMAIN Rows(k) /\ s \in RowStates
    /\ ops' = Written(k, r, s) /\ calls' = [calls EXCEPT ![c] = y] /\ UNCHANGED <<eligible, accepted>>
    /\ Rows(k)[r] = "applied" => s = "applied"
    /\ s = "prepared" => accepted[k][r] = <<>>
    /\ s = "applied" => accepted[k][r] = <<ops[k].message>>
    /\ \A d \in Callers \ {c} : ~Owns(calls[d], k, r)
    /\ Knows(y, ops') /\ AllFenced(y, ops', accepted)
    /\ \A j \in Keys, q \in Recipients : Owns(y, j, q) => j = k /\ q = r

(* A step that writes the row r of k for the call c, which goes on as y.   *)
LEMMA RowStep ==
    ASSUME NotifierInv, NEW c \in Callers, NEW y \in Calls, NEW k, NEW r, NEW s, Writes(c, y, k, r, s)
    PROVE  NotifierInv'
<1> USE DEF NotifierInv, Rows, Writes
<1>0. NotifierTypes /\ Rows(k) \in Tables /\ r \in Recipients
  BY DEF NotifierTypes, Operations, Tables
<1>1. NotifierTypes'
  BY <1>0, WrittenIs DEF NotifierTypes
<1>2. OneOwner'
  BY <1>0 DEF OneOwner, NotifierTypes
<1>3. \A j \in Keys, q \in Recipients : RowTells(ops'[j], accepted'[j][q], q)
  <2> TAKE j \in Keys, q \in Recipients
  <2>1. RowTells(ops[j], accepted[j][q], q)
    OBVIOUS
  <2>2. CASE j # k
    BY <1>0, <2>1, <2>2, WrittenIs
  <2>3. CASE j = k
    BY <1>0, <2>1, <2>3, WrittenIs DEF RowTells
  <2> QED
    BY <2>2, <2>3
<1>4. ASSUME NEW d \in Callers \ {c}
      PROVE  Knows(calls[d], ops') /\ AllFenced(calls[d], ops', accepted)
  <2>1. Knows(calls[d], ops) /\ AllFenced(calls[d], ops, accepted) /\ calls[d] \in Calls
    BY DEF NotifierTypes
  <2>2. AllFenced(calls[d], ops', accepted)
    <3> SUFFICES ASSUME NEW j \in Keys, NEW q \in Recipients, Owns(calls[d], j, q)
                 PROVE  Fenced(calls[d], ops'[j].deliveries[q], ops'[j], accepted[j][q])
      BY DEF AllFenced
    <3>1. Fenced(calls[d], ops[j].deliveries[q], ops[j], accepted[j][q])
      BY <2>1 DEF AllFenced
    <3>2. q \in DOMAIN ops[j].deliveries
      BY <2>1, CurrentIsRow DEF Owns, Owning, Looping
    <3>3. ops'[j].deliveries[q] = ops[j].deliveries[q] /\ ops'[j].message = ops[j].message
      BY <1>0, <3>2, WrittenIs
    <3> QED
      BY <3>1, <3>3 DEF Fenced
  <2>3. Knows(calls[d], ops')
    BY <1>0, <2>1, WrittenKnows
  <2> QED
    BY <2>2, <2>3
<1>5. \A d \in Callers : Knows(calls'[d], ops') /\ AllFenced(calls'[d], ops', accepted')
  BY <1>4 DEF NotifierTypes
<1> QED
  BY <1>1, <1>2, <1>3, <1>5

-----------------------------------------------------------------------------
(* The calls that steps make of calls.                                       *)
Results == {"none", "conflict", "ambiguous", "already", "applied", "error"}

(* The call of a caller that has none is of the type of calls.             *)
LEMMA NoCallIsCall == NoCall \in Calls
<1>1. <<>> \in Tables
  <2>1. <<>> \in [{} -> RowStates]
    OBVIOUS
  <2> QED
    BY <2>1 DEF Tables
<1> QED
  BY <1>1 DEF NoCall, Calls, Underway

(* How a call ends.                                                        *)
LEMMA EndedIs ==
    ASSUME NEW x \in Calls, NEW result \in Results
    PROVE  /\ Ended(x, result) \in Calls
           /\ Ended(x, result).pc = "done" /\ Ended(x, result).result = result
           /\ Ended(x, result).key = x.key /\ Ended(x, result).message = x.message
BY NoCallIsCall DEF Ended, Calls, Results

(* A call that is not at a row it has claimed owns none.                   *)
LEMMA OwnsNothing == ASSUME NEW x, ~Owning(x) PROVE \A k, r : ~Owns(x, k, r)
BY DEF Owns

(* A call that ends says "applied" or "already applied" only of an         *)
(* operation of its own message, all of whose rows are.                    *)
LEMMA EndStep ==
    ASSUME NotifierInv, NEW c \in Callers, NEW result \in Results,
           calls' = [calls EXCEPT ![c] = Ended(@, result)], UNCHANGED <<eligible, ops, accepted>>,
           result \in {"applied", "already"} =>
             /\ calls[c].key \in Keys /\ ops[calls[c].key] # None
             /\ calls[c].message = ops[calls[c].key].message /\ AllApplied(Rows(calls[c].key))
    PROVE  NotifierInv'
<1> DEFINE y == Ended(calls[c], result)
<1>1. calls[c] \in Calls
  BY DEF NotifierInv, NotifierTypes
<1>2. y \in Calls /\ y.pc = "done" /\ y.result = result /\ y.key = calls[c].key /\ y.message = calls[c].message
  BY <1>1, EndedIs
<1>3. calls' = [calls EXCEPT ![c] = y]
  OBVIOUS
<1> HIDE DEF y
<1>4. ~Owning(y) /\ Knows(y, ops)
  BY <1>2 DEF Owning, Knows, Underway, Working, Looping, Rows
<1> QED
  BY <1>2, <1>3, <1>4, OwnsNothing, QuietStep DEF AllFenced

(* What a call makes of the operation it has loaded: another message, rows *)
(* in doubt, nothing left to do, or rows to go through.                    *)
LEMMA JudgedIs ==
    ASSUME NEW x, NEW oper
    PROVE  /\ ~Matches(oper, x.message) => Judged(x, oper) = Ended(x, "conflict")
           /\ Matches(oper, x.message) /\ InDoubt(oper.deliveries) => Judged(x, oper) = Ended(x, "ambiguous")
           /\ Matches(oper, x.message) /\ ~InDoubt(oper.deliveries) /\ AllApplied(oper.deliveries) =>
                Judged(x, oper) = Ended(x, "already")
           /\ Matches(oper, x.message) /\ ~InDoubt(oper.deliveries) /\ ~AllApplied(oper.deliveries) =>
                Judged(x, oper) = [x EXCEPT !.frozen = oper.deliveries, !.chosen = {}, !.created = FALSE,
                                          !.pc = "claim"]
<1>1. InDoubt(oper.deliveries) => ~AllApplied(oper.deliveries)
  BY DEF InDoubt, AllApplied
<1> QED
  BY <1>1 DEF Judged

(* What a call concludes from the rows of its operation.                     *)
LEMMA JudgedStep ==
    ASSUME NotifierInv, NEW c \in Callers, calls[c].pc \in {"load", "frozen"}, ops[calls[c].key] # None,
           calls' = [calls EXCEPT ![c] = Judged(@, ops[calls[c].key])], UNCHANGED <<eligible, ops, accepted>>
    PROVE  NotifierInv'
<1> DEFINE x == calls[c]
           oper == ops[x.key]
           y == [x EXCEPT !.frozen = oper.deliveries, !.chosen = {}, !.created = FALSE, !.pc = "claim"]
<1>1. x \in Calls /\ Knows(x, ops) /\ x.key \in Keys /\ x.message \in Messages /\ x.result = "none"
  BY DEF NotifierInv, NotifierTypes, Knows, Underway
<1>2. oper \in Operations /\ oper.deliveries \in Tables
  BY <1>1 DEF NotifierInv, NotifierTypes, Operations
<1>3. CASE ~Matches(oper, x.message)
  <2>1. Judged(x, oper) = Ended(x, "conflict")
    BY <1>3, JudgedIs
  <2> QED
    BY <2>1, EndStep DEF Results
<1>4. CASE Matches(oper, x.message) /\ InDoubt(oper.deliveries)
  <2>1. Judged(x, oper) = Ended(x, "ambiguous")
    BY <1>4, JudgedIs
  <2> QED
    BY <2>1, EndStep DEF Results
<1>5. CASE Matches(oper, x.message) /\ ~InDoubt(oper.deliveries) /\ AllApplied(oper.deliveries)
  <2>1. Judged(x, oper) = Ended(x, "already")
    BY <1>5, JudgedIs
  <2> QED
    BY <1>1, <1>5, <2>1, EndStep DEF Results, Matches, Rows
<1>6. CASE Matches(oper, x.message) /\ ~InDoubt(oper.deliveries) /\ ~AllApplied(oper.deliveries)
  <2>1. Judged(x, oper) = y
    BY <1>6, JudgedIs
  <2>2. /\ y \in Calls /\ y.pc = "claim" /\ y.frozen = oper.deliveries
        /\ y.key = x.key /\ y.message = x.message /\ y.result = "none"
    BY <1>1, <1>2 DEF Calls, Underway, Working, Looping
  <2>3. calls' = [calls EXCEPT ![c] = y]
    BY <2>1
  <2>4. \A r \in DOMAIN oper.deliveries : oper.deliveries[r] \in {"prepared", "applied"}
    BY <1>2, <1>6 DEF InDoubt, Tables, RowStates
  <2>5. \E r \in DOMAIN oper.deliveries : oper.deliveries[r] = "prepared"
    BY <1>6, <2>4 DEF AllApplied
  <2>6. oper.message = x.message
    BY <1>6 DEF Matches
  <2> HIDE DEF y
  <2>7. ~Owning(y) /\ Knows(y, ops)
    BY <1>1, <2>2, <2>4, <2>5, <2>6 DEF Owning, Knows, Underway, Working, Looping, Open
  <2> QED
    BY <2>2, <2>3, <2>7, OwnsNothing, QuietStep DEF AllFenced
<1> QED
  BY <1>3, <1>4, <1>5, <1>6

(* A call whose row is applied goes to the next one.                       *)
LEMMA AdvancedIs ==
    ASSUME NEW x \in Calls, NEW o, Knows(x, o), x.pc \in Looping,
           o[x.key].deliveries[Current(x)] = "applied"
    PROVE  Advanced(x) \in Calls /\ ~Owning(Advanced(x)) /\ Knows(Advanced(x), o)
<1> DEFINE n == [x EXCEPT !.frozen[Current(x)] = "applied", !.tries = 0, !.claimed = FALSE]
           y == [n EXCEPT !.pc = IF Open(n) = {} THEN "final" ELSE "claim"]
<1>1. Current(x) \in DOMAIN x.frozen /\ x.frozen \in Tables
  BY CurrentIsRow DEF Calls
<1>2. [x.frozen EXCEPT ![Current(x)] = "applied"] \in Tables
  BY <1>1 DEF Tables, RowStates
<1>3. /\ n \in Calls /\ n.frozen = [x.frozen EXCEPT ![Current(x)] = "applied"]
      /\ n.key = x.key /\ n.message = x.message /\ n.result = x.result
  BY <1>1, <1>2 DEF Calls
<1>4. Advanced(x) = y
  BY DEF Advanced
<1> HIDE DEF n
<1>5. /\ y \in Calls /\ y.frozen = n.frozen /\ y.key = n.key /\ y.message = n.message
      /\ y.result = n.result /\ y.pc \in {"final", "claim"} /\ (y.pc = "claim" => Open(n) # {})
  BY <1>3 DEF Calls, Underway, Working, Looping
<1> HIDE DEF y
<1>6. ~Owning(y) /\ (y.pc = "claim" => Open(y) # {})
  BY <1>5, SameFrozen DEF Owning
<1>7. Knows(y, o)
  BY <1>1, <1>3, <1>5, <1>6 DEF Knows, Underway, Working, Looping
<1> QED
  BY <1>4, <1>5, <1>6, <1>7

-----------------------------------------------------------------------------
(* The steps.                                                                *)
LEMMA LoadStep == ASSUME NotifierInv, NEW c \in Callers, Load(c) PROVE NotifierInv'
<1> DEFINE x == calls[c]
           y == [x EXCEPT !.pc = "select"]
<1>1. x \in Calls /\ Knows(x, ops) /\ x.key \in Keys
  BY DEF NotifierInv, NotifierTypes, Knows, Underway, Load, At
<1>2. CASE ops[x.key] # None
  BY <1>2, JudgedStep DEF Load, At, world
<1>3. CASE ops[x.key] = None
  <2>1. calls' = [calls EXCEPT ![c] = y]
    BY <1>3 DEF Load, Goes
  <2>2. /\ y \in Calls /\ y.pc = "select" /\ y.key = x.key /\ y.message = x.message
        /\ y.result = x.result
    BY <1>1 DEF Calls, Underway
  <2> HIDE DEF y
  <2>3. ~Owning(y) /\ Knows(y, ops)
    BY <1>1, <2>2 DEF Load, At, Owning, Knows, Underway, Working, Looping
  <2> QED
    BY <2>1, <2>2, <2>3, OwnsNothing, QuietStep DEF AllFenced, Load, world
<1> QED
  BY <1>2, <1>3

(* A call from its start to the first row: the recipients it selects are   *)
(* frozen once.                                                            *)
LEMMA SelectStep == ASSUME NotifierInv, NEW c \in Callers, SelectRecipients(c) PROVE NotifierInv'
<1> DEFINE x == calls[c]
           y == [x EXCEPT !.chosen = eligible, !.pc = "freeze"]
<1>1. x \in Calls /\ Knows(x, ops) /\ eligible \subseteq Recipients
  BY DEF NotifierInv, NotifierTypes
<1>2. CASE eligible = {}
  BY <1>2, EndStep DEF SelectRecipients, Returns, world, Results
<1>3. CASE eligible # {}
  <2>1. calls' = [calls EXCEPT ![c] = y]
    BY <1>1, <1>3 DEF SelectRecipients, Calls, NotifierInv, NotifierTypes
  <2>2. /\ y \in Calls /\ y.pc = "freeze" /\ y.key = x.key /\ y.message = x.message
        /\ y.result = x.result
    BY <1>1 DEF Calls, Underway
  <2> HIDE DEF y
  <2>3. ~Owning(y) /\ Knows(y, ops)
    BY <1>1, <2>2 DEF SelectRecipients, At, Owning, Knows, Underway, Working, Looping
  <2> QED
    BY <2>1, <2>2, <2>3, OwnsNothing, QuietStep DEF AllFenced, SelectRecipients, world
<1> QED
  BY <1>2, <1>3

(* Loading the rows of a message (TelegramNotifier).                         *)
LEMMA LoadFrozenStep == ASSUME NotifierInv, NEW c \in Callers, LoadFrozen(c) PROVE NotifierInv'
<1>1. ops[calls[c].key] # None
  BY DEF NotifierInv, Knows, LoadFrozen, At
<1>2. CASE Returns(c, "conflict")
  BY <1>2, EndStep DEF LoadFrozen, Returns, world, Results
<1>3. CASE calls' = [calls EXCEPT ![c] = Judged(@, ops[calls[c].key])]
  BY <1>1, <1>3, JudgedStep DEF LoadFrozen, At, world
<1> QED
  BY <1>2, <1>3 DEF LoadFrozen

(* Freezing the recipients (TelegramNotifier).                               *)
LEMMA FreezeStep == ASSUME NotifierInv, NEW c \in Callers, Freeze(c) PROVE NotifierInv'
<1> DEFINE x == calls[c]
           k == x.key
           oper == [message |-> x.message, deliveries |-> [r \in x.chosen |-> "prepared"]]
           y == [x EXCEPT !.created = (ops[k] = None), !.pc = "frozen"]
<1>1. /\ x \in Calls /\ Knows(x, ops) /\ k \in Keys /\ x.message \in Messages
      /\ x.chosen \subseteq Recipients /\ x.result = "none"
  BY DEF NotifierInv, NotifierTypes, Knows, Underway, Freeze, At, Calls
<1>2. calls' = [calls EXCEPT ![c] = y]
  BY <1>1 DEF Freeze, NotifierInv, NotifierTypes, Calls
<1>3. /\ y \in Calls /\ y.pc = "frozen" /\ y.key = k /\ y.message = x.message /\ y.result = "none"
  BY <1>1 DEF Calls, Underway
<1> HIDE DEF y
<1>4. ~Owning(y)
  BY <1>3 DEF Owning
<1>5. CASE ops[k] # None
  <2>1. Knows(y, ops)
    BY <1>1, <1>3, <1>5 DEF Knows, Underway, Working, Looping
  <2> QED
    BY <1>2, <1>3, <1>4, <1>5, <2>1, OwnsNothing, QuietStep DEF AllFenced, Freeze, world
<1>6. CASE ops[k] = None
  <2>1. ops' = [ops EXCEPT ![k] = oper] /\ UNCHANGED <<eligible, accepted>>
    BY <1>6 DEF Freeze, world
  <2>2. oper \in Operations /\ oper # None
    BY <1>1 DEF Operations, Tables, RowStates, None
  <2>3. /\ ops'[k] = oper /\ DOMAIN oper.deliveries = x.chosen
        /\ \A r \in x.chosen : oper.deliveries[r] = "prepared"
        /\ \A j \in Keys \ {k} : ops'[j] = ops[j]
    BY <1>1, <2>1 DEF NotifierInv, NotifierTypes
  <2> HIDE DEF oper
  <2>4. NotifierTypes'
    BY <1>1, <1>2, <1>3, <2>1, <2>2 DEF NotifierInv, NotifierTypes
  <2>5. OneOwner'
    BY <1>2, <1>3, <1>4, OwnsNothing DEF NotifierInv, NotifierTypes, OneOwner
  <2>6. ASSUME NEW j \in Keys, NEW r \in Recipients
        PROVE  RowTells(ops'[j], accepted[j][r], r)
    <3>1. RowTells(ops[j], accepted[j][r], r)
      BY DEF NotifierInv
    <3>2. CASE j = k
      BY <1>6, <2>3, <3>1, <3>2 DEF RowTells
    <3>3. CASE j # k
      BY <2>3, <3>1, <3>3
    <3> QED
      BY <3>2, <3>3
  <2>7. Knows(y, ops') /\ AllFenced(y, ops', accepted)
    BY <1>1, <1>3, <1>4, <2>2, <2>3, OwnsNothing DEF Knows, AllFenced, Underway, Working, Looping
  <2>8. ASSUME NEW d \in Callers \ {c}
        PROVE  Knows(calls[d], ops') /\ AllFenced(calls[d], ops', accepted)
    <3>1. calls[d] \in Calls /\ Knows(calls[d], ops) /\ AllFenced(calls[d], ops, accepted)
      BY DEF NotifierInv, NotifierTypes
    <3>2. Knows(calls[d], ops')
      BY <1>6, <2>2, <2>3, <3>1 DEF Knows, Underway, Working, Looping
    <3>3. AllFenced(calls[d], ops', accepted)
      BY <1>6, <2>3, <3>1, CurrentIsRow DEF AllFenced, Owns, Owning, Looping
    <3> QED
      BY <3>2, <3>3
  <2>9. \A d \in Callers : Knows(calls'[d], ops') /\ AllFenced(calls'[d], ops', accepted')
    BY <1>2, <2>1, <2>7, <2>8 DEF NotifierInv, NotifierTypes
  <2> QED
    BY <2>1, <2>4, <2>5, <2>6, <2>9 DEF NotifierInv
<1> QED
  BY <1>5, <1>6

(* Between the claim and the answer, the row is the call's.                  *)
Looking(x, b) == [x EXCEPT !.claimed = b, !.tries = @ + 1, !.pc = "look"]
(* A call that has tried to claim its row looks at what is there now.      *)
LEMMA ClaimedIs ==
    ASSUME NEW x \in Calls, NEW b \in BOOLEAN
    PROVE  /\ Looking(x, b) \in Calls /\ Looking(x, b).pc = "look" /\ Looking(x, b).key = x.key
           /\ Looking(x, b).message = x.message /\ Looking(x, b).result = x.result
           /\ Looking(x, b).frozen = x.frozen /\ Looking(x, b).claimed = b
<1> DEFINE t == x.tries + 1
           z == [x EXCEPT !.tries = t, !.pc = "look"]
<1>0. t \in Nat
  BY DEF Calls
<1> HIDE DEF t
<1>1. /\ z \in Calls /\ z.pc = "look" /\ z.key = x.key /\ z.message = x.message
      /\ z.result = x.result /\ z.frozen = x.frozen
  BY <1>0 DEF Calls, Underway, Working, Looping
<1>2. Looking(x, b) = [z EXCEPT !.claimed = b]
  BY DEF Looking, Calls, t
<1> HIDE DEF z
<1>3. CASE b = TRUE
  BY <1>1, <1>2, <1>3 DEF Calls
<1>4. CASE b = FALSE
  BY <1>1, <1>2, <1>4 DEF Calls
<1> QED
  BY <1>3, <1>4

(* The compare-and-set that claims a row: at most one call gets it.        *)
LEMMA ClaimStep == ASSUME NotifierInv, NEW c \in Callers, ClaimPrepared(c) PROVE NotifierInv'
<1> DEFINE x == calls[c]
           k == x.key
           r == Current(x)
           may == MayClaim(c, r)
           y == Looking(x, may)
<1>1. /\ x \in Calls /\ Knows(x, ops) /\ k \in Keys /\ ops[k] # None /\ x.pc = "claim"
      /\ r \in DOMAIN Rows(k) /\ r \in Recipients
  BY CurrentIsRow DEF NotifierInv, NotifierTypes, ClaimPrepared, At, Looping, Rows
<1>2. calls' = [calls EXCEPT ![c] = y] /\ UNCHANGED <<eligible, accepted>>
  BY <1>1 DEF ClaimPrepared, NotifierInv, NotifierTypes, Calls, world, Looking
<1>a. may \in BOOLEAN
  BY DEF MayClaim
<1> HIDE DEF may
<1>3. /\ y \in Calls /\ y.pc = "look" /\ y.key = k /\ y.message = x.message /\ y.result = x.result
      /\ y.frozen = x.frozen /\ y.claimed = may
  BY <1>1, <1>a, ClaimedIs
<1> HIDE DEF y
<1>4. Current(y) = r /\ Open(y) = Open(x)
  BY <1>3, SameFrozen
<1>5. \A o : Knows(x, o) => Knows(y, o)
  BY <1>1, <1>3, <1>4 DEF Knows, Underway, Working, Looping
<1>6. CASE ~may
  <2>1. ~Owning(y)
    BY <1>3, <1>6 DEF Owning
  <2>2. ops' = ops
    BY <1>6 DEF ClaimPrepared, may
  <2> QED
    BY <1>1, <1>2, <1>3, <1>5, <2>1, <2>2, OwnsNothing, QuietStep DEF AllFenced
<1>7. CASE may
  <2>1. ops' = Written(k, r, "sending")
    BY <1>7 DEF ClaimPrepared, Row, Written, may
  <2>2. Rows(k)[r] = "prepared" /\ accepted[k][r] = <<>>
    BY <1>1, <1>7 DEF may, MayClaim, NotifierInv, RowTells, Rows
  <2>3. \A d \in Callers \ {c} : ~Owns(calls[d], k, r)
    BY <1>1, <2>2 DEF NotifierInv, AllFenced, Fenced, Rows
  <2>4. Knows(y, ops')
    BY <1>1, <1>5, <2>1, <2>2, WrittenKnows DEF NotifierInv, RowStates
  <2>5. AllFenced(y, ops', accepted)
    BY <1>1, <1>3, <1>4, <2>1, <2>2, WrittenIs DEF NotifierInv, AllFenced, Fenced, Owns, RowStates
  <2>6. \A j \in Keys, q \in Recipients : Owns(y, j, q) => j = k /\ q = r
    BY <1>3, <1>4 DEF Owns
  <2>7. Writes(c, y, k, r, "sending")
    BY <1>1, <1>2, <2>1, <2>2, <2>3, <2>4, <2>5, <2>6 DEF Writes, RowStates
  <2> QED
    BY <1>3, <2>7, RowStep
<1> QED
  BY <1>6, <1>7

(* What a call knows of the row it has claimed.                            *)
LEMMA OwnRow ==
    ASSUME NotifierInv, NEW c \in Callers, calls[c].pc \in {"send", "apply", "mark", "release"}
    PROVE  LET k == calls[c].key  r == Current(calls[c]) IN
           /\ calls[c] \in Calls /\ Knows(calls[c], ops)
           /\ k \in Keys /\ ops[k] # None /\ r \in DOMAIN Rows(k) /\ r \in Recipients
           /\ ops[k].message = calls[c].message /\ calls[c].message \in Messages
           /\ calls[c].result = "none"
           /\ Fenced(calls[c], Rows(k)[r], ops[k], accepted[k][r])
           /\ RowTells(ops[k], accepted[k][r], r)
           /\ \A d \in Callers \ {c} : ~Owns(calls[d], k, r)
<1> DEFINE k == calls[c].key
           r == Current(calls[c])
<1>1. calls[c] \in Calls /\ Knows(calls[c], ops) /\ AllFenced(calls[c], ops, accepted)
  BY DEF NotifierInv, NotifierTypes
<1>2. k \in Keys /\ ops[k] # None /\ r \in DOMAIN Rows(k) /\ r \in Recipients
  BY <1>1, CurrentIsRow DEF Looping, Rows
<1>3. /\ ops[k].message = calls[c].message /\ calls[c].message \in Messages
      /\ calls[c].result = "none"
  BY <1>1 DEF Knows, Working, Looping, Underway
<1>4. Owns(calls[c], k, r)
  BY DEF Owns, Owning
<1>5. Fenced(calls[c], Rows(k)[r], ops[k], accepted[k][r])
  BY <1>1, <1>2, <1>4 DEF AllFenced, Rows
<1>6. \A d \in Callers \ {c} : ~Owns(calls[d], k, r)
  BY <1>2, <1>4 DEF NotifierInv, OneOwner
<1> QED
  BY <1>1, <1>2, <1>3, <1>5, <1>6 DEF NotifierInv

(* A call that writes its row and ends.                                      *)
LEMMA WriteAndEnd ==
    ASSUME NotifierInv, NEW c \in Callers, calls[c].pc \in Looping,
           NEW s \in RowStates, NEW result \in Results \ {"applied", "already"},
           ops' = Written(calls[c].key, Current(calls[c]), s),
           calls' = [calls EXCEPT ![c] = Ended(@, result)], UNCHANGED <<eligible, accepted>>,
           Rows(calls[c].key)[Current(calls[c])] = "applied" => s = "applied",
           s = "prepared" => accepted[calls[c].key][Current(calls[c])] = <<>>,
           s = "applied" => accepted[calls[c].key][Current(calls[c])] = <<ops[calls[c].key].message>>,
           \A d \in Callers \ {c} : ~Owns(calls[d], calls[c].key, Current(calls[c]))
    PROVE  NotifierInv'
<1> DEFINE x == calls[c]
           k == x.key
           r == Current(x)
           y == Ended(x, result)
<1>1. /\ x \in Calls /\ Knows(x, ops) /\ k \in Keys /\ ops[k] # None
      /\ r \in DOMAIN Rows(k) /\ r \in Recipients
  BY CurrentIsRow DEF NotifierInv, NotifierTypes, Rows
<1>2. calls' = [calls EXCEPT ![c] = y]
  OBVIOUS
<1>3. y \in Calls /\ y.pc = "done" /\ y.result = result
  BY <1>1, EndedIs
<1> HIDE DEF y
<1>4. ~Owning(y) /\ Knows(y, ops')
  BY <1>3 DEF Owning, Knows, Underway, Working, Looping
<1>5. Writes(c, y, k, r, s)
  BY <1>1, <1>2, <1>4, OwnsNothing DEF Writes, AllFenced
<1> QED
  BY <1>3, <1>5, RowStep

(* A call that goes to another node, and nothing more.                     *)
LEMMA GoneIs ==
    ASSUME NEW x \in Calls, NEW p \in Underway
    PROVE  LET y == [x EXCEPT !.pc = p] IN
           /\ y \in Calls /\ y.pc = p /\ y.key = x.key /\ y.message = x.message
           /\ y.result = x.result /\ y.frozen = x.frozen /\ y.claimed = x.claimed
BY DEF Calls

(* A call that did not get its row looks who has: it goes on with a row    *)
(* that is applied, tries again a row that was released, and gives up one  *)
(* in doubt.                                                               *)
LEMMA LookStep == ASSUME NotifierInv, NEW c \in Callers, LoadDelivery(c) PROVE NotifierInv'
<1> DEFINE x == calls[c]
           k == x.key
           r == Current(x)
           state == Rows(k)[r]
<1>1. /\ x \in Calls /\ Knows(x, ops) /\ x.pc = "look" /\ AllFenced(x, ops, accepted)
      /\ k \in Keys /\ ops[k] # None /\ r \in DOMAIN Rows(k) /\ r \in Recipients
  BY CurrentIsRow DEF NotifierInv, NotifierTypes, LoadDelivery, At, Looping, Rows
<1>2. calls' = [calls EXCEPT ![c] = Looked(x, state)] /\ UNCHANGED <<eligible, ops, accepted>>
  BY DEF LoadDelivery, world
<1>3. CASE x.claimed
  <2> DEFINE y == [x EXCEPT !.pc = "send"]
  <2>1. Looked(x, state) = y
    BY <1>3 DEF Looked
  <2>2. /\ y \in Calls /\ y.pc = "send" /\ y.key = k /\ y.message = x.message
        /\ y.result = x.result /\ y.frozen = x.frozen
    BY <1>1, GoneIs DEF Underway, Working, Looping
  <2> HIDE DEF y
  <2>3. Current(y) = r /\ Open(y) = Open(x)
    BY <2>2, SameFrozen
  <2>4. Knows(y, ops)
    BY <1>1, <2>2, <2>3 DEF Knows, Underway, Working, Looping
  <2>5. \A j \in Keys, q \in Recipients : Owns(y, j, q) => Owns(x, j, q)
    BY <1>1, <1>3, <2>2, <2>3 DEF Owns, Owning
  <2>6. AllFenced(y, ops, accepted)
    BY <1>1, <2>2, <2>5 DEF AllFenced, Fenced
  <2> QED
    BY <1>2, <2>1, <2>2, <2>4, <2>5, <2>6, QuietStep
<1>4. CASE ~x.claimed /\ state = "applied"
  <2>1. Looked(x, state) = Advanced(x)
    BY <1>4 DEF Looked
  <2>2. Advanced(x) \in Calls /\ ~Owning(Advanced(x)) /\ Knows(Advanced(x), ops)
    BY <1>1, <1>4, AdvancedIs DEF Looping, Rows
  <2> QED
    BY <1>2, <2>1, <2>2, OwnsNothing, QuietStep DEF AllFenced
<1>5. CASE ~x.claimed /\ state \in {"sending", "ambiguous"}
  <2>1. Looked(x, state) = Ended(x, "ambiguous")
    BY <1>5 DEF Looked
  <2> QED
    BY <1>2, <2>1, EndStep DEF Results
<1>6. CASE ~x.claimed /\ state = "prepared" /\ x.tries < MaxClaims
  <2> DEFINE y == [x EXCEPT !.pc = "claim"]
  <2>1. Looked(x, state) = y
    BY <1>6 DEF Looked
  <2>2. /\ y \in Calls /\ y.pc = "claim" /\ y.key = k /\ y.message = x.message
        /\ y.result = x.result /\ y.frozen = x.frozen
    BY <1>1, GoneIs DEF Underway, Working, Looping
  <2> HIDE DEF y
  <2>3. ~Owning(y) /\ Open(y) = Open(x)
    BY <2>2, SameFrozen DEF Owning
  <2>4. Knows(y, ops)
    BY <1>1, <2>2, <2>3 DEF Knows, Underway, Working, Looping
  <2> QED
    BY <1>2, <2>1, <2>2, <2>3, <2>4, OwnsNothing, QuietStep DEF AllFenced
<1>7. CASE ~x.claimed /\ state = "prepared" /\ ~(x.tries < MaxClaims)
  <2>1. Looked(x, state) = Ended(x, "error")
    BY <1>7 DEF Looked
  <2> QED
    BY <1>2, <2>1, EndStep DEF Results
<1>8. state \in RowStates
  BY <1>1 DEF NotifierInv, NotifierTypes, Operations, Tables, Rows
<1> QED
  BY <1>3, <1>4, <1>5, <1>6, <1>7, <1>8 DEF RowStates


(* Telegram takes the message at most once: the row was "sending", so        *)
(* nothing had been taken, and only its owner sends.                         *)
LEMMA SendStep == ASSUME NotifierInv, NEW c \in Callers, SendMessage(c) PROVE NotifierInv'
<1> DEFINE x == calls[c]
           k == x.key
           r == Current(x)
<1>1. /\ x \in Calls /\ Knows(x, ops) /\ x.pc = "send"
      /\ k \in Keys /\ ops[k] # None /\ r \in DOMAIN Rows(k) /\ r \in Recipients
      /\ ops[k].message = x.message /\ x.message \in Messages
      /\ Rows(k)[r] = "sending" /\ accepted[k][r] = <<>>
      /\ \A d \in Callers \ {c} : ~Owns(calls[d], k, r)
  BY OwnRow DEF SendMessage, At, Fenced
<1>2. PICK took \in BOOLEAN, answer \in {"id", "refused", "lost"} :
        /\ answer = "id" => took
        /\ answer = "refused" => ~took
        /\ accepted' = IF took THEN [accepted EXCEPT ![k][r] = Append(@, x.message)] ELSE accepted
        /\ Goes(c, CASE answer = "id" -> "apply" [] answer = "refused" -> "release"
                     [] answer = "lost" -> "mark")
  BY DEF SendMessage
<1>3. UNCHANGED <<eligible, ops>>
  BY DEF SendMessage, world
<1>4. PICK p \in {"apply", "release", "mark"} :
        /\ p = "apply" => took
        /\ p = "release" => ~took
        /\ calls' = [calls EXCEPT ![c] = [x EXCEPT !.pc = p]]
  BY <1>2 DEF Goes
<1> DEFINE y == [x EXCEPT !.pc = p]
           new == IF took THEN <<x.message>> ELSE <<>>
<1>5. /\ y \in Calls /\ y.pc = p /\ y.key = k /\ y.message = x.message
      /\ y.result = x.result /\ y.frozen = x.frozen
  BY <1>1, GoneIs DEF Underway, Working, Looping
<1> HIDE DEF y
<1>6. Current(y) = r /\ Open(y) = Open(x)
  BY <1>5, SameFrozen
<1>7. accepted \in [Keys -> [Recipients -> Seq(Messages)]]
  BY DEF NotifierInv, NotifierTypes
<1>8. /\ accepted' \in [Keys -> [Recipients -> Seq(Messages)]]
      /\ accepted'[k][r] = new
      /\ \A j \in Keys, q \in Recipients : j # k \/ q # r => accepted'[j][q] = accepted[j][q]
  <2>1. Append(accepted[k][r], x.message) = <<x.message>> /\ <<x.message>> \in Seq(Messages)
    BY <1>1
  <2>2. CASE took
    <3>1. accepted' = [accepted EXCEPT ![k][r] = <<x.message>>]
      BY <1>2, <2>1, <2>2, <1>1, <1>7
    <3> QED
      BY <1>1, <1>7, <2>1, <2>2, <3>1
  <2>3. CASE ~took
    BY <1>1, <1>2, <1>7, <2>3
  <2> QED
    BY <2>2, <2>3
<1>9. new \in {<<>>, <<x.message>>} /\ (p = "apply" => new = <<x.message>>) /\ (p = "release" => new = <<>>)
  BY <1>4
<1> HIDE DEF new
<1>10. NotifierTypes'
  BY <1>3, <1>4, <1>5, <1>8 DEF NotifierInv, NotifierTypes, y
<1>11. \A j \in Keys, q \in Recipients : Owns(y, j, q) => Owns(x, j, q)
  BY <1>1, <1>5, <1>6 DEF Owns, Owning
<1>12. OneOwner'
  BY <1>4, <1>11 DEF NotifierInv, NotifierTypes, OneOwner, y
<1>13. \A j \in Keys, q \in Recipients : RowTells(ops[j], accepted'[j][q], q)
  <2> TAKE j \in Keys, q \in Recipients
  <2>1. RowTells(ops[j], accepted[j][q], q)
    BY DEF NotifierInv
  <2>2. CASE j = k /\ q = r
    BY <1>1, <1>8, <1>9, <2>2 DEF RowTells, Rows
  <2>3. CASE j # k \/ q # r
    BY <1>8, <2>1, <2>3
  <2> QED
    BY <2>2, <2>3
<1>14. Knows(y, ops)
  BY <1>1, <1>5, <1>6 DEF Knows, Underway, Working, Looping
<1>15. AllFenced(y, ops, accepted')
  <2> SUFFICES ASSUME NEW j \in Keys, NEW q \in Recipients, Owns(y, j, q)
               PROVE  Fenced(y, ops[j].deliveries[q], ops[j], accepted'[j][q])
    BY DEF AllFenced
  <2>1. j = k /\ q = r
    BY <1>5, <1>6 DEF Owns
  <2> QED
    BY <1>1, <1>5, <1>8, <1>9, <2>1 DEF Fenced, Rows
<1>16. ASSUME NEW d \in Callers \ {c}
       PROVE  Knows(calls[d], ops) /\ AllFenced(calls[d], ops, accepted')
  BY <1>1, <1>8 DEF NotifierInv, AllFenced, Owns
<1>17. \A d \in Callers : Knows(calls'[d], ops) /\ AllFenced(calls'[d], ops, accepted')
  BY <1>4, <1>14, <1>15, <1>16 DEF NotifierInv, NotifierTypes, y
<1> QED
  BY <1>3, <1>10, <1>12, <1>13, <1>17 DEF NotifierInv

(* A row that is still "sending" goes where its owner moves it.              *)
LEMMA TransitionIs ==
    ASSUME NotifierInv, NEW c \in Callers, NEW to \in RowStates, Transition(c, to)
    PROVE  LET k == calls[c].key  r == Current(calls[c]) IN
           ops' = Written(k, r, IF Rows(k)[r] = "sending" THEN to ELSE Rows(k)[r])
BY DEF Transition, Row, Written

(* After the send: the row is applied, in doubt, or given back where       *)
(* Telegram refused.                                                       *)
LEMMA ApplyStep == ASSUME NotifierInv, NEW c \in Callers, MarkApplied(c) PROVE NotifierInv'
<1> DEFINE x == calls[c]
           k == x.key
           r == Current(x)
<1>1. /\ x \in Calls /\ Knows(x, ops) /\ x.pc = "apply"
      /\ k \in Keys /\ ops[k] # None /\ r \in DOMAIN Rows(k) /\ r \in Recipients
      /\ Rows(k)[r] = "sending" /\ accepted[k][r] = <<ops[k].message>>
      /\ \A d \in Callers \ {c} : ~Owns(calls[d], k, r)
  BY OwnRow DEF MarkApplied, At, Fenced
<1>2. UNCHANGED <<eligible, accepted>>
  BY DEF MarkApplied, world
<1>3. Transition(c, "applied") => ops' = Written(k, r, "applied")
  BY <1>1, TransitionIs DEF RowStates
<1>4. CASE Transition(c, "applied") /\ calls' = [calls EXCEPT ![c] = Advanced([@ EXCEPT !.sentAny = TRUE])]
  <2> DEFINE z == [x EXCEPT !.sentAny = TRUE]
             y == Advanced(z)
  <2>1. /\ z \in Calls /\ z.pc = "apply" /\ z.key = k /\ z.message = x.message
        /\ z.result = x.result /\ z.frozen = x.frozen
    BY <1>1 DEF Calls
  <2>2. calls' = [calls EXCEPT ![c] = y]
    BY <1>4
  <2> HIDE DEF z
  <2>3. Current(z) = r /\ Open(z) = Open(x)
    BY <2>1, SameFrozen
  <2>4. Knows(z, ops)
    BY <1>1, <2>1, <2>3 DEF Knows, Underway, Working, Looping
  <2>5. Knows(z, ops')
    BY <1>1, <1>3, <1>4, <2>1, <2>4, WrittenKnows DEF NotifierInv, RowStates
  <2>6. ops'[k].deliveries[r] = "applied"
    BY <1>1, <1>3, <1>4, WrittenIs DEF NotifierInv, RowStates
  <2>7. y \in Calls /\ ~Owning(y) /\ Knows(y, ops')
    BY <2>1, <2>3, <2>5, <2>6, AdvancedIs DEF Looping
  <2> HIDE DEF y
  <2>8. Writes(c, y, k, r, "applied")
    BY <1>1, <1>2, <1>3, <1>4, <2>2, <2>7, OwnsNothing DEF Writes, AllFenced, RowStates
  <2> QED
    BY <2>7, <2>8, RowStep
<1>5. CASE (Transition(c, "applied") \/ UNCHANGED ops) /\ Goes(c, "mark")
  <2> DEFINE y == [x EXCEPT !.pc = "mark"]
  <2>1. /\ y \in Calls /\ y.pc = "mark" /\ y.key = k /\ y.message = x.message
        /\ y.result = x.result /\ y.frozen = x.frozen
    BY <1>1, GoneIs DEF Underway, Working, Looping
  <2>2. calls' = [calls EXCEPT ![c] = y]
    BY <1>5 DEF Goes
  <2> HIDE DEF y
  <2>3. Current(y) = r /\ Open(y) = Open(x)
    BY <2>1, SameFrozen
  <2>4. Knows(y, ops)
    BY <1>1, <2>1, <2>3 DEF Knows, Underway, Working, Looping
  <2>5. \A j \in Keys, q \in Recipients : Owns(y, j, q) => j = k /\ q = r
    BY <2>1, <2>3 DEF Owns
  <2>6. CASE UNCHANGED ops
    <3>1. AllFenced(y, ops, accepted)
      BY <1>1, <2>1, <2>5 DEF AllFenced, Fenced, Rows
    <3>2. \A j \in Keys, q \in Recipients : Owns(y, j, q) => Owns(x, j, q)
      BY <1>1, <2>5 DEF Owns, Owning
    <3> QED
      BY <1>2, <2>1, <2>2, <2>4, <2>6, <3>1, <3>2, QuietStep
  <2>7. CASE Transition(c, "applied")
    <3>1. ops'[k].deliveries[r] = "applied"
      BY <1>1, <1>3, <2>7, WrittenIs DEF NotifierInv, RowStates
    <3>2. AllFenced(y, ops', accepted)
      BY <2>1, <2>5, <3>1 DEF AllFenced, Fenced
    <3>3. Knows(y, ops')
      BY <1>1, <1>3, <2>1, <2>4, <2>7, WrittenKnows DEF NotifierInv, RowStates
    <3>4. Writes(c, y, k, r, "applied")
      BY <1>1, <1>2, <1>3, <2>2, <2>5, <2>7, <3>2, <3>3 DEF Writes, RowStates
    <3> QED
      BY <2>1, <3>4, RowStep
  <2> QED
    BY <1>5, <2>6, <2>7
<1> QED
  BY <1>4, <1>5 DEF MarkApplied

(* Marking a row ambiguous (TelegramNotifier).                               *)
LEMMA MarkStep == ASSUME NotifierInv, NEW c \in Callers, MarkAmbiguous(c) PROVE NotifierInv'
<1> DEFINE x == calls[c]
           k == x.key
           r == Current(x)
<1>1. /\ x \in Calls /\ Knows(x, ops) /\ x.pc = "mark"
      /\ k \in Keys /\ ops[k] # None /\ r \in DOMAIN Rows(k) /\ r \in Recipients
      /\ Rows(k)[r] \in {"sending", "applied"} /\ RowTells(ops[k], accepted[k][r], r)
      /\ \A d \in Callers \ {c} : ~Owns(calls[d], k, r)
  BY OwnRow DEF MarkAmbiguous, At, Fenced
<1>2. UNCHANGED <<eligible, accepted>> /\ calls' = [calls EXCEPT ![c] = Ended(@, "ambiguous")]
  BY DEF MarkAmbiguous, Returns, world
<1>3. CASE UNCHANGED ops
  BY <1>2, <1>3, EndStep DEF Results
<1>4. CASE Transition(c, "ambiguous")
  <2>1. CASE Rows(k)[r] = "sending"
    <3>1. ops' = Written(k, r, "ambiguous")
      BY <1>4, <2>1, TransitionIs DEF RowStates
    <3> QED
      BY <1>1, <1>2, <2>1, <3>1, WriteAndEnd DEF RowStates, Results, Looping
  <2>2. CASE Rows(k)[r] = "applied"
    <3>1. ops' = Written(k, r, "applied")
      BY <1>4, <2>2, TransitionIs DEF RowStates
    <3>2. accepted[k][r] = <<ops[k].message>>
      BY <1>1, <2>2 DEF RowTells, Rows
    <3> QED
      BY <1>1, <1>2, <3>1, <3>2, WriteAndEnd DEF RowStates, Results, Looping
  <2> QED
    BY <1>1, <2>1, <2>2
<1> QED
  BY <1>3, <1>4 DEF MarkAmbiguous

(* Releasing what was prepared (TelegramNotifier).                           *)
LEMMA ReleaseStep == ASSUME NotifierInv, NEW c \in Callers, ReleasePrepared(c) PROVE NotifierInv'
<1> DEFINE x == calls[c]
           k == x.key
           r == Current(x)
<1>1. /\ x \in Calls /\ Knows(x, ops) /\ x.pc = "release"
      /\ k \in Keys /\ ops[k] # None /\ r \in DOMAIN Rows(k) /\ r \in Recipients
      /\ Rows(k)[r] = "sending" /\ accepted[k][r] = <<>>
      /\ \A d \in Callers \ {c} : ~Owns(calls[d], k, r)
  BY OwnRow DEF ReleasePrepared, At, Fenced
<1>2. PICK result \in {"error", "ambiguous"} : calls' = [calls EXCEPT ![c] = Ended(@, result)]
  BY DEF ReleasePrepared, Returns
<1>3. UNCHANGED <<eligible, accepted>> /\ (Transition(c, "prepared") \/ UNCHANGED ops)
  BY DEF ReleasePrepared, world
<1>4. CASE UNCHANGED ops
  BY <1>2, <1>3, <1>4, EndStep DEF Results
<1>5. CASE Transition(c, "prepared")
  <2>1. ops' = Written(k, r, "prepared")
    BY <1>1, <1>5, TransitionIs DEF RowStates
  <2> QED
    BY <1>1, <1>2, <1>3, <2>1, WriteAndEnd DEF RowStates, Results, Looping
<1> QED
  BY <1>3, <1>4, <1>5

(* The call looks at all rows once more before it says that they are       *)
(* applied.                                                                *)
LEMMA FinalStep == ASSUME NotifierInv, NEW c \in Callers, LoadFinal(c) PROVE NotifierInv'
<1> DEFINE x == calls[c]
           result == Summarized(x, Rows(x.key))
<1>1. /\ x.key \in Keys /\ ops[x.key] # None /\ x.message = ops[x.key].message
  BY DEF LoadFinal, At, NotifierInv, Knows, Working, Underway
<1>2. result \in Results /\ (result \in {"applied", "already"} => AllApplied(Rows(x.key)))
  BY DEF Summarized, Results
<1> QED
  BY <1>1, <1>2, EndStep DEF LoadFinal, Returns, world

(* The store may fail at every step, and then nothing is claimed of the    *)
(* message.                                                                *)
LEMMA FailStep == ASSUME NotifierInv, NEW c \in Callers, StoreFails(c) PROVE NotifierInv'
<1> DEFINE x == calls[c]
           k == x.key
           r == Current(x)
<1>1. UNCHANGED <<eligible, accepted>> /\ calls' = [calls EXCEPT ![c] = Ended(@, "error")]
  BY DEF StoreFails, Returns, world
<1>2. CASE UNCHANGED ops
  BY <1>1, <1>2, EndStep DEF Results
<1>3. CASE At(c, "claim") /\ MayClaim(c, r) /\ Row(c, r, "sending")
  <2>1. /\ x \in Calls /\ Knows(x, ops) /\ AllFenced(x, ops, accepted)
        /\ k \in Keys /\ ops[k] # None /\ r \in DOMAIN Rows(k) /\ r \in Recipients
    BY <1>3, CurrentIsRow DEF NotifierInv, NotifierTypes, At, Looping, Rows
  <2>2. Rows(k)[r] = "prepared" /\ ops' = Written(k, r, "sending")
    BY <1>3 DEF MayClaim, Row, Written
  <2>3. \A d \in Callers \ {c} : ~Owns(calls[d], k, r)
    BY <2>1, <2>2 DEF NotifierInv, AllFenced, Fenced, Rows
  <2> QED
    BY <1>1, <1>3, <2>1, <2>2, <2>3, WriteAndEnd DEF RowStates, Results, Looping, At
<1> QED
  BY <1>2, <1>3 DEF StoreFails

(* A caller without a call owns nothing and knows nothing.                   *)
LEMMA NoCallKnows == ~Owning(NoCall) /\ \A o : Knows(NoCall, o)
BY DEF NoCall, Owning, Knows, Underway, Working, Looping

(* Calls come, return and are cut off by a crash; recipients become        *)
(* eligible and cease to be.                                               *)
LEMMA ReturnStep == ASSUME NotifierInv, NEW c \in Callers, Return(c) PROVE NotifierInv'
BY NoCallIsCall, NoCallKnows, OwnsNothing, QuietStep DEF Return, world, AllFenced

(* A new call (TelegramNotifier).                                            *)
LEMMA NotifyStep ==
    ASSUME NotifierInv, NEW c \in Callers, NEW k \in Keys, NEW m \in Messages, Notify(c, k, m)
    PROVE  NotifierInv'
<1> DEFINE y == [NoCall EXCEPT !.pc = "load", !.key = k, !.message = m]
<1>1. /\ y \in Calls /\ y.pc = "load" /\ y.key = k /\ y.message = m /\ y.result = "none"
  BY NoCallIsCall DEF Calls, Underway, NoCall
<1>2. calls' = [calls EXCEPT ![c] = y] /\ UNCHANGED <<eligible, ops, accepted>>
  BY DEF Notify
<1> HIDE DEF y
<1>3. ~Owning(y) /\ Knows(y, ops)
  BY <1>1 DEF Owning, Knows, Underway, Working, Looping
<1> QED
  BY <1>1, <1>2, <1>3, OwnsNothing, QuietStep DEF AllFenced

(* A crash ends every call (TelegramNotifier).                               *)
LEMMA CrashStep == ASSUME NotifierInv, Crash PROVE NotifierInv'
<1>1. /\ \A c \in Callers : calls'[c] = NoCall
      /\ calls' \in [Callers -> Calls] /\ UNCHANGED <<eligible, ops, accepted>>
  BY NoCallIsCall DEF Crash
<1>2. \A k, r : ~Owns(NoCall, k, r)
  BY NoCallKnows, OwnsNothing
<1> QED
  BY <1>1, <1>2, NoCallKnows DEF NotifierInv, NotifierTypes, OneOwner, AllFenced

(* A change of who is eligible (TelegramNotifier).                           *)
LEMMA RebindStep == ASSUME NotifierInv, Rebind PROVE NotifierInv'
BY DEF NotifierInv, NotifierTypes, OneOwner, Rebind

(* Before the first call there is no operation.                            *)
LEMMA NotifierInit == Init => NotifierInv
<1> SUFFICES ASSUME Init PROVE NotifierInv
  OBVIOUS
<1>1. /\ eligible = Recipients /\ \A c \in Callers : calls[c] = NoCall
      /\ \A k \in Keys : ops[k] = None /\ \A r \in Recipients : accepted[k][r] = <<>>
  BY DEF Init
<1>2. NotifierTypes
  BY NoCallIsCall DEF Init, NotifierTypes
<1>3. \A k, r : ~Owns(NoCall, k, r)
  BY NoCallKnows, OwnsNothing
<1> QED
  BY <1>1, <1>2, <1>3, NoCallKnows DEF NotifierInv, OneOwner, AllFenced, RowTells

(* All steps.                                                              *)
LEMMA NotifierStep == NotifierInv /\ [Next]_vars => NotifierInv'
<1> SUFFICES ASSUME NotifierInv, [Next]_vars PROVE NotifierInv'
  OBVIOUS
<1>1. CASE UNCHANGED vars
  BY <1>1 DEF vars, NotifierInv, NotifierTypes, OneOwner
<1>2. ASSUME NEW c \in Callers, Work(c)
      PROVE  NotifierInv'
  BY <1>2, LoadStep, SelectStep, FreezeStep, LoadFrozenStep, ClaimStep, LookStep, SendStep,
     ApplyStep, MarkStep, ReleaseStep, FinalStep, ReturnStep DEF Work
<1> QED
  BY <1>1, <1>2, FailStep, NotifyStep, CrashStep, RebindStep DEF Next

(* No recipient gets the message of a key twice, however many calls work   *)
(* on it and whatever was lost or cut off: a row is claimed before the     *)
(* message is sent, and one whose outcome is unknown is never claimed      *)
(* again (notifier.go).                                                    *)
THEOREM NoBlindResendHolds == Spec => []NoBlindResend
<1>1. NotifierInv => NoBlindResend
  <2> SUFFICES ASSUME NotifierInv, NEW k \in Keys, NEW r \in Recipients
               PROVE  Len(accepted[k][r]) <= 1
    BY DEF NoBlindResend
  <2>1. accepted[k][r] = <<>> \/ accepted[k][r] = <<ops[k].message>>
    BY DEF NotifierInv, RowTells
  <2>2. Len(<<>>) = 0 /\ Len(<<ops[k].message>>) = 1
    OBVIOUS
  <2> DEFINE n == Len(accepted[k][r])
  <2>3. n = 0 \/ n = 1
    BY <2>1, <2>2, Zenon
  <2> HIDE DEF n
  <2>4. n <= 1
    BY <2>3
  <2> QED
    BY <2>4 DEF n
<1> QED
  BY <1>1, NotifierInit, NotifierStep, PTL DEF Spec

(* A call that returns "applied" or "already applied" was for the message  *)
(* the operation is of, and every recipient it was frozen with has it      *)
(* (notifier.go: Notify).                                                  *)
THEOREM SuccessIsTrueHolds == Spec => []SuccessIsTrue
<1>1. NotifierInv => SuccessIsTrue
  <2> SUFFICES ASSUME NotifierInv, NEW c \in Callers, calls[c].result \in {"applied", "already"},
                      NEW r \in Recipients
               PROVE  accepted[calls[c].key][r] =
                        IF r \in DOMAIN Rows(calls[c].key) THEN <<calls[c].message>> ELSE <<>>
    BY DEF SuccessIsTrue
  <2>1. /\ calls[c].key \in Keys /\ ops[calls[c].key] # None
        /\ calls[c].message = ops[calls[c].key].message /\ AllApplied(Rows(calls[c].key))
    BY DEF NotifierInv, Knows, Rows
  <2>2. RowTells(ops[calls[c].key], accepted[calls[c].key][r], r)
    BY <2>1 DEF NotifierInv
  <2> QED
    BY <2>1, <2>2 DEF RowTells, AllApplied, Rows
<1> QED
  BY <1>1, NotifierInit, NotifierStep, PTL DEF Spec

-----------------------------------------------------------------------------
Stages == {"waits", "ready", "calls", "done", "failed"}
Ops == [kind : J!Kinds, stage : Stages, step : Nat, since : Nat, job : Nat, database : Nat]
Records == [status : {"running", "unwritten", "succeeded", "failed"}, since : Nat]

(* The types; the repository has a key and snapshots.                      *)
JobTypes ==
    /\ data \in Nat
    /\ repository.snapshots \subseteq [job : Nat, database : Nat, whole : BOOLEAN]
    /\ DOMAIN repository = {"key", "snapshots"}
    /\ jobs \in Seq(Records)
    /\ op \in [J!Actors -> Ops \cup {J!None}]

Restorable(rep, j, since) ==
    \E s \in rep.snapshots : s.job = j /\ s.whole /\ s.database >= since

(* What a backup knows of itself between its calls.                          *)
BackingUp(o, js, rep) ==
    /\ o.job \in DOMAIN js /\ js[o.job].since = o.since
    /\ o.step \in 1 .. 3
    /\ o.step >= 2 => o.database >= o.since
    /\ o.stage = "done" => Restorable(rep, o.job, o.since)
AtWork(o) == o # J!None /\ o.stage # "waits"

(* Who has the lock is at work, and a backup at work has a job of its own; *)
(* a job that succeeded can be restored.                                   *)
JobInv ==
    /\ JobTypes
    /\ \A a \in J!Actors : op[a] # J!None => op[a].since <= data /\ (op[a].stage = "waits" => op[a].step = 1)
    /\ \A a \in J!Actors : lock = a <=> AtWork(op[a])
    /\ \A a \in J!Actors : AtWork(op[a]) /\ op[a].kind = "backup" => BackingUp(op[a], jobs, repository)
    /\ J!SucceededIsRestorable

-----------------------------------------------------------------------------
(* None is no operation.                                                   *)
LEMMA NoneIsNoOp == J!None \notin Ops
<1>1. DOMAIN J!None = {"none"} /\ \A o \in Ops : DOMAIN o = {"kind", "stage", "step", "since", "job", "database"}
  BY DEF J!None, Ops
<1> QED
  BY <1>1

(* A backup copies the database, exports the configuration, and stores     *)
(* both.                                                                   *)
LEMMA BackupCalls ==
    /\ J!Calls["backup"][1] = "vacuum" /\ J!Calls["backup"][2] = "export" /\ J!Calls["backup"][3] = "backup"
    /\ Len(J!Calls["backup"]) = 3 /\ "backup" \in J!Kinds
BY DEF J!Calls, J!Kinds

(* A step of an operation, which may add snapshots.                          *)
LEMMA WorkStep ==
    ASSUME JobInv, NEW a \in J!Actors, NEW o \in Ops, op' = [op EXCEPT ![a] = o],
           UNCHANGED <<data, jobs>>, DOMAIN repository' = {"key", "snapshots"},
           repository.snapshots \subseteq repository'.snapshots,
           repository'.snapshots \subseteq [job : Nat, database : Nat, whole : BOOLEAN],
           lock' = lock, lock = a, o.stage # "waits", o.since <= data,
           o.kind = "backup" => BackingUp(o, jobs, repository')
    PROVE  JobInv'
<1>1. JobTypes'
  BY DEF JobInv, JobTypes
<1>2. \A j, since : Restorable(repository, j, since) => Restorable(repository', j, since)
  BY DEF Restorable
<1>3. J!SucceededIsRestorable'
  BY <1>2 DEF JobInv, J!SucceededIsRestorable, Restorable
<1>4. ASSUME NEW b \in J!Actors \ {a}
      PROVE  /\ op'[b] = op[b]
             /\ AtWork(op[b]) /\ op[b].kind = "backup" => BackingUp(op[b], jobs, repository')
  BY <1>2 DEF JobInv, JobTypes, BackingUp
<1>5. op'[a] = o
  BY DEF JobInv, JobTypes
<1>6. \A b \in J!Actors : op'[b] # J!None => op'[b].since <= data' /\ (op'[b].stage = "waits" => op'[b].step = 1)
  BY <1>4, <1>5 DEF JobInv
<1>7. \A b \in J!Actors : lock' = b <=> AtWork(op'[b])
  BY <1>4, <1>5, NoneIsNoOp DEF JobInv, AtWork
<1>8. \A b \in J!Actors : AtWork(op'[b]) /\ op'[b].kind = "backup" => BackingUp(op'[b], jobs', repository')
  BY <1>4, <1>5
<1> QED
  BY <1>1, <1>3, <1>6, <1>7, <1>8 DEF JobInv

(* The calls of an operation begin, succeed and fail; the context may have *)
(* ended meanwhile.                                                        *)
LEMMA CallStep == ASSUME JobInv, J!Nobody \notin J!Actors, NEW a \in J!Actors, J!Call(a) PROVE JobInv'
<1> DEFINE o == op[a]
<1>1. o \in Ops /\ o.stage = "ready" /\ lock = a
  <2>1. o # J!None
    BY DEF J!Call, J!At, JobInv, AtWork
  <2> QED
    BY <2>1 DEF JobInv, JobTypes, J!Call, J!At
<1>2. PICK stage \in {"calls", "failed"} : op' = [op EXCEPT ![a] = [o EXCEPT !.stage = stage]]
  BY DEF J!Call
<1> DEFINE y == [o EXCEPT !.stage = stage]
<1>3. /\ y \in Ops /\ y.stage = stage /\ y.kind = o.kind /\ y.since = o.since /\ y.job = o.job
      /\ y.step = o.step /\ y.database = o.database
  BY <1>1 DEF Ops, Stages
<1>4. op' = [op EXCEPT ![a] = y]
  BY <1>2
<1> HIDE DEF y
<1>5. o.kind = "backup" => BackingUp(y, jobs, repository)
  BY <1>1, <1>3, NoneIsNoOp DEF JobInv, BackingUp, AtWork
<1> QED
  BY <1>1, <1>3, <1>4, <1>5, NoneIsNoOp, WorkStep DEF J!Call, JobInv, JobTypes

(* An operation that succeeds (BackupJobs).                                  *)
LEMMA SucceedStep == ASSUME JobInv, J!Nobody \notin J!Actors, NEW a \in J!Actors, J!Succeed(a) PROVE JobInv'
<1> DEFINE o == op[a]
           last == o.step = Len(J!Calls[o.kind])
           stage == IF last THEN "done" ELSE "ready"
           step == IF last THEN o.step ELSE o.step + 1
           database == IF J!TheCall(a) = "vacuum" THEN data ELSE o.database
           y == [o EXCEPT !.stage = stage, !.step = step, !.database = database]
<1>1. /\ o \in Ops /\ o.stage = "calls" /\ lock = a /\ data \in Nat /\ o.since <= data
      /\ repository.snapshots \subseteq [job : Nat, database : Nat, whole : BOOLEAN]
      /\ DOMAIN repository = {"key", "snapshots"}
      /\ o.kind = "backup" => BackingUp(o, jobs, repository)
  <2>1. o # J!None /\ o \in Ops
    BY DEF J!Succeed, J!At, JobInv, JobTypes, AtWork
  <2> QED
    BY <2>1 DEF JobInv, JobTypes, J!Succeed, J!At, AtWork
<1>2. op' = [op EXCEPT ![a] = y] /\ lock' = lock /\ UNCHANGED <<data, jobs>>
  BY <1>1 DEF J!Succeed, Ops, JobInv, JobTypes
<1>3. /\ stage \in Stages /\ stage # "waits" /\ (stage = "done" <=> last)
      /\ step \in Nat /\ (last => step = o.step) /\ (~last => step = o.step + 1)
      /\ database \in Nat /\ (J!TheCall(a) = "vacuum" => database = data)
      /\ J!TheCall(a) # "vacuum" => database = o.database
  BY <1>1 DEF Ops, Stages
<1> HIDE DEF stage, step, database
<1>31. /\ y \in Ops /\ y.stage = stage /\ y.kind = o.kind
       /\ y.since = o.since /\ y.job = o.job /\ y.step = step /\ y.database = database
  BY <1>1, <1>3 DEF Ops
<1> HIDE DEF y
<1>4. /\ DOMAIN repository' = {"key", "snapshots"}
      /\ repository.snapshots \subseteq repository'.snapshots
      /\ repository'.snapshots \subseteq [job : Nat, database : Nat, whole : BOOLEAN]
      /\ J!TheCall(a) = "backup" => J!Snapshot(a, TRUE) \in repository'.snapshots
  <2>1. CASE J!TheCall(a) = "backup"
    <3>1. repository' = [repository EXCEPT !.snapshots = @ \cup {J!Snapshot(a, TRUE)}]
      BY <2>1 DEF J!Succeed, J!Local
    <3>2. J!Snapshot(a, TRUE) \in [job : Nat, database : Nat, whole : BOOLEAN]
      BY <1>1 DEF J!Snapshot, Ops
    <3> QED
      BY <1>1, <3>1, <3>2
  <2>2. CASE J!TheCall(a) # "backup"
    <3>1. repository' = repository \/ \E k \in {"ours", "zeros"} : repository' = [repository EXCEPT !.key = k]
      BY <2>2 DEF J!Succeed, J!InitKeys
    <3> QED
      BY <1>1, <2>2, <3>1
  <2> QED
    BY <2>1, <2>2
<1>5. ASSUME o.kind = "backup"
      PROVE  BackingUp(y, jobs, repository')
  <2>1. /\ o.job \in DOMAIN jobs /\ jobs[o.job].since = o.since /\ o.step \in 1 .. 3
        /\ o.step >= 2 => o.database >= o.since
    BY <1>1, <1>5 DEF BackingUp
  <2>2. /\ last <=> o.step = 3
        /\ o.step = 1 <=> J!TheCall(a) = "vacuum"
        /\ o.step = 3 <=> J!TheCall(a) = "backup"
    BY <1>5, <2>1, BackupCalls DEF J!TheCall
  <2> HIDE DEF last
  <2>3. ASSUME last PROVE Restorable(repository', o.job, o.since)
    <3> USE DEF Restorable
    <3>1. J!Snapshot(a, TRUE) \in repository'.snapshots
      BY <1>4, <2>2, <2>3
    <3>2. J!Snapshot(a, TRUE).job = o.job /\ J!Snapshot(a, TRUE).whole /\ J!Snapshot(a, TRUE).database = o.database
      BY DEF J!Snapshot
    <3>3. o.database >= o.since
      BY <2>1, <2>2, <2>3
    <3> WITNESS J!Snapshot(a, TRUE) \in repository'.snapshots
    <3> QED
      BY <3>2, <3>3
  <2>4. y.step \in 1 .. 3 /\ (y.step >= 2 => y.database >= y.since)
    BY <1>1, <1>3, <1>31, <2>1, <2>2 DEF Ops
  <2> QED
    BY <1>3, <1>31, <2>1, <2>2, <2>3, <2>4 DEF BackingUp
<1>6. y.stage # "waits" /\ y.since <= data /\ (y.kind = "backup" => BackingUp(y, jobs, repository'))
  BY <1>1, <1>3, <1>31, <1>5
<1> HIDE DEF o
<1> QED
  BY <1>1, <1>2, <1>31, <1>4, <1>6, WorkStep

(* An operation that fails (BackupJobs).                                     *)
LEMMA BackupFails == ASSUME JobInv, J!Nobody \notin J!Actors, NEW a \in J!Actors, J!Fail(a) PROVE JobInv'
<1> DEFINE o == op[a]
           y == [o EXCEPT !.stage = "failed"]
<1>1. /\ o \in Ops /\ lock = a /\ o.since <= data
      /\ repository.snapshots \subseteq [job : Nat, database : Nat, whole : BOOLEAN]
      /\ DOMAIN repository = {"key", "snapshots"}
      /\ o.kind = "backup" => BackingUp(o, jobs, repository)
  <2>1. o # J!None /\ o \in Ops
    BY DEF J!Fail, J!At, JobInv, JobTypes, AtWork
  <2> QED
    BY <2>1 DEF JobInv, JobTypes, J!Fail, J!At, AtWork
<1>2. op' = [op EXCEPT ![a] = y]
  BY DEF J!Fail
<1>3. /\ y \in Ops /\ y.stage = "failed" /\ y.kind = o.kind /\ y.since = o.since /\ y.job = o.job
      /\ y.step = o.step /\ y.database = o.database
  BY <1>1 DEF Ops, Stages
<1> HIDE DEF y
<1>4. PICK left \in J!Left(a) : repository' = [repository EXCEPT !.snapshots = @ \cup left]
  BY DEF J!Fail
<1>5. left \subseteq [job : Nat, database : Nat, whole : BOOLEAN]
  <2>1. \A w \in BOOLEAN : J!Snapshot(a, w) \in [job : Nat, database : Nat, whole : BOOLEAN]
    BY <1>1 DEF J!Snapshot, Ops
  <2> QED
    BY <1>4, <2>1 DEF J!Left, J!Partial
<1>6. /\ DOMAIN repository' = {"key", "snapshots"}
      /\ repository.snapshots \subseteq repository'.snapshots
      /\ repository'.snapshots \subseteq [job : Nat, database : Nat, whole : BOOLEAN]
  BY <1>1, <1>4, <1>5
<1>7. o.kind = "backup" => BackingUp(y, jobs, repository')
  BY <1>1, <1>3 DEF BackingUp
<1> QED
  BY <1>1, <1>2, <1>3, <1>6, <1>7, WorkStep DEF J!Fail

(* Operations are asked for and wait for the lock.                         *)
LEMMA AskStep ==
    ASSUME JobInv, J!Nobody \notin J!Actors, NEW a \in J!Actors, NEW kind \in J!Kinds, J!Ask(a, kind)
    PROVE  JobInv'
<1> DEFINE y == [kind |-> kind, stage |-> "waits", step |-> 1, since |-> data, job |-> 0, database |-> 0]
<1>1. y \in Ops /\ y.stage = "waits" /\ y.step = 1 /\ y.since = data
  BY DEF Ops, Stages, JobInv, JobTypes
<1>2. /\ op' = [op EXCEPT ![a] = y] /\ op[a] = J!None
      /\ UNCHANGED <<data, repository, jobs, lock>>
  BY DEF J!Ask
<1> HIDE DEF y
<1>3. JobTypes' /\ J!SucceededIsRestorable'
  BY <1>1, <1>2 DEF JobInv, JobTypes, J!SucceededIsRestorable
<1>4. op'[a] = y /\ \A b \in J!Actors \ {a} : op'[b] = op[b]
  BY <1>2 DEF JobInv, JobTypes
<1> QED
  BY <1>1, <1>2, <1>3, <1>4 DEF JobInv, JobTypes, AtWork

(* An operation that gets the lock begins a job.                           *)
LEMMA LockStep == ASSUME JobInv, J!Nobody \notin J!Actors, NEW a \in J!Actors, J!Lock(a) PROVE JobInv'
<1> DEFINE o == op[a]
           n == Len(jobs)
           rec == [status |-> IF J!Stored /\ a \notin canceled THEN "running" ELSE "unwritten",
                   since |-> o.since]
           job == IF o.kind = "backup" THEN n + 1 ELSE 0
           y == [o EXCEPT !.stage = "ready", !.job = job]
<1>1. /\ o \in Ops /\ o.stage = "waits" /\ lock = J!Nobody /\ lock' = a /\ o.since <= data /\ o.step = 1
      /\ jobs \in Seq(Records) /\ n \in Nat
      /\ op' = [op EXCEPT ![a] = y] /\ UNCHANGED <<data, repository>>
  BY LenProperties DEF J!Lock, JobInv, JobTypes
<1>2. /\ y \in Ops /\ y.stage = "ready" /\ y.kind = o.kind /\ y.since = o.since /\ y.step = 1
      /\ o.kind = "backup" => y.job = n + 1
  <2>1. job \in Nat /\ (o.kind = "backup" => job = n + 1)
    BY <1>1
  <2> HIDE DEF job
  <2> QED
    BY <1>1, <2>1 DEF Ops, Stages
<1>3. rec \in Records /\ rec.since = o.since /\ rec.status # "succeeded"
  BY <1>1 DEF Records, Ops
<1>4. /\ o.kind = "backup" => jobs' = Append(jobs, rec)
      /\ o.kind # "backup" => jobs' = jobs
  BY DEF J!Lock
<1> HIDE DEF y, rec
<1>5. /\ jobs' \in Seq(Records) /\ \A j \in DOMAIN jobs : j \in DOMAIN jobs' /\ jobs'[j] = jobs[j]
      /\ \A j \in DOMAIN jobs' \ DOMAIN jobs : jobs'[j].status # "succeeded"
      /\ o.kind = "backup" => n + 1 \in DOMAIN jobs' /\ jobs'[n + 1].since = o.since
  <2>1. CASE o.kind # "backup"
    BY <1>1, <1>4, <2>1
  <2>2. CASE o.kind = "backup"
    <3>1. /\ jobs' \in Seq(Records) /\ Len(jobs') = n + 1 /\ jobs'[n + 1] = rec
          /\ \A j \in 1 .. n : jobs'[j] = jobs[j]
      BY <1>1, <1>3, <1>4, <2>2, AppendProperties
    <3>2. DOMAIN jobs = 1 .. n /\ DOMAIN jobs' = 1 .. n + 1
      BY <1>1, <3>1, LenProperties
    <3> HIDE DEF n
    <3> QED
      BY <1>1, <1>3, <3>1, <3>2
  <2> QED
    BY <2>1, <2>2
<1>6. JobTypes'
  BY <1>1, <1>2, <1>5 DEF JobInv, JobTypes
<1>7. J!SucceededIsRestorable'
  BY <1>1, <1>5 DEF JobInv, J!SucceededIsRestorable
<1>8. op'[a] = y /\ \A b \in J!Actors \ {a} : op'[b] = op[b] /\ ~AtWork(op[b])
  BY <1>1 DEF JobInv, JobTypes
<1>9. o.kind = "backup" => BackingUp(y, jobs', repository')
  BY <1>1, <1>2, <1>5 DEF BackingUp
<1>10. \A b \in J!Actors : op'[b] # J!None => op'[b].since <= data' /\ (op'[b].stage = "waits" => op'[b].step = 1)
  BY <1>1, <1>2, <1>8 DEF JobInv
<1>11. \A b \in J!Actors : lock' = b <=> AtWork(op'[b])
  BY <1>1, <1>2, <1>8, NoneIsNoOp DEF AtWork
<1>12. \A b \in J!Actors : AtWork(op'[b]) /\ op'[b].kind = "backup" => BackingUp(op'[b], jobs', repository')
  BY <1>2, <1>8, <1>9
<1> QED
  BY <1>6, <1>7, <1>10, <1>11, <1>12 DEF JobInv

(* An operation ends, and its job is recorded, if that succeeds.           *)
LEMMA FinishStep == ASSUME JobInv, J!Nobody \notin J!Actors, NEW a \in J!Actors, J!Finish(a) PROVE JobInv'
<1> DEFINE o == op[a]
           status == IF J!Succeeded(a) THEN "succeeded" ELSE "failed"
<1>1. /\ o \in Ops /\ lock = a /\ AtWork(o)
      /\ jobs \in Seq(Records)
      /\ op' = [op EXCEPT ![a] = J!None] /\ lock' = J!Nobody /\ UNCHANGED <<data, repository>>
      /\ o.kind = "backup" => BackingUp(o, jobs, repository)
  <2>1. o # J!None /\ o \in Ops
    BY DEF J!Finish, J!At, JobInv, JobTypes, AtWork
  <2> QED
    BY <2>1 DEF JobInv, JobTypes, J!Finish, J!At, AtWork
<1>2. \/ jobs' = jobs
      \/ o.kind = "backup" /\ jobs' = [jobs EXCEPT ![o.job].status = status]
  BY DEF J!Finish
<1>3. jobs' \in Seq(Records) /\ J!SucceededIsRestorable'
  <2>1. CASE jobs' = jobs
    BY <1>1, <2>1 DEF JobInv, J!SucceededIsRestorable
  <2>2. CASE o.kind = "backup" /\ jobs' = [jobs EXCEPT ![o.job].status = status]
    <3> DEFINE rec == [jobs[o.job] EXCEPT !.status = status]
    <3>1. o.job \in DOMAIN jobs /\ jobs[o.job].since = o.since /\ DOMAIN jobs = 1 .. Len(jobs)
      BY <1>1, <2>2, LenProperties DEF BackingUp
    <3>2. jobs[o.job] \in Records
      BY <1>1, <3>1, ElementOfSeq
    <3>3. rec \in Records /\ rec.since = o.since /\ rec.status = status
      BY <3>1, <3>2 DEF Records
    <3> HIDE DEF rec
    <3>4. jobs' = [jobs EXCEPT ![o.job] = rec]
      BY <2>2 DEF rec
    <3>5. jobs' \in Seq(Records) /\ Len(jobs') = Len(jobs)
      BY <1>1, <3>1, <3>3, <3>4, ExceptSeq
    <3>6. jobs'[o.job] = rec /\ DOMAIN jobs' = DOMAIN jobs /\ \A j \in DOMAIN jobs : j # o.job => jobs'[j] = jobs[j]
      BY <3>1, <3>4
    <3>7. status = "succeeded" => Restorable(repository, o.job, o.since)
      BY <1>1, <2>2 DEF J!Succeeded, BackingUp
    <3>8. J!SucceededIsRestorable'
      BY <1>1, <3>3, <3>6, <3>7 DEF JobInv, J!SucceededIsRestorable, Restorable
    <3> QED
      BY <3>5, <3>8
  <2> QED
    BY <1>2, <2>1, <2>2
<1>4. op'[a] = J!None /\ \A b \in J!Actors \ {a} : op'[b] = op[b] /\ ~AtWork(op[b])
  BY <1>1 DEF JobInv, JobTypes
<1>5. JobTypes'
  BY <1>1, <1>3 DEF JobInv, JobTypes
<1> QED
  BY <1>1, <1>3, <1>4, <1>5 DEF JobInv, AtWork

(* All steps.                                                              *)
LEMMA JobStep == J!Nobody \notin J!Actors /\ JobInv /\ [J!Next]_(J!vars) => JobInv'
<1> SUFFICES ASSUME J!Nobody \notin J!Actors, JobInv, [J!Next]_(J!vars) PROVE JobInv'
  OBVIOUS
<1>1. CASE UNCHANGED <<data, repository, jobs, lock, op>>
  BY <1>1 DEF JobInv, JobTypes, J!SucceededIsRestorable
<1>2. CASE J!Write
  <2>1. data' \in Nat /\ data <= data' /\ UNCHANGED <<repository, jobs, lock, op>>
    BY <1>2 DEF J!Write, JobInv, JobTypes
  <2>2. JobTypes' /\ J!SucceededIsRestorable'
    BY <2>1 DEF JobInv, JobTypes, J!SucceededIsRestorable
  <2>3. \A a \in J!Actors : op[a] # J!None => op[a].since <= data'
    BY <2>1 DEF JobInv, JobTypes, Ops
  <2> QED
    BY <2>1, <2>2, <2>3 DEF JobInv
<1>3. ASSUME J!RunEnds \/ J!EndLoop \/ J!Close \/ \E a \in J!Actors : J!EndContext(a)
      PROVE  UNCHANGED <<data, repository, jobs, lock, op>>
  BY <1>3 DEF J!RunEnds, J!EndLoop, J!Close, J!CloseScheduler, J!WipePassword, J!CloseDB, J!EndContext
<1>4. ASSUME NEW a \in J!Actors, J!Work(a) PROVE JobInv'
  BY <1>4, LockStep, CallStep, SucceedStep, BackupFails, FinishStep DEF J!Work
<1> QED
  BY <1>1, <1>2, <1>3, <1>4, AskStep DEF J!Next, J!vars

(* A backup that is recorded as succeeded is in the repository whole, with *)
(* a copy of the database no older than the backup was asked for           *)
(* (backup/manager.go: RunCritical).                                       *)
THEOREM SucceededAreRestorable ==
    ASSUME J!Nobody \notin Clients
    PROVE  J!Spec => []SucceededIsRestorable
<1>1. J!Nobody \notin J!Actors
  BY DEF J!Nobody, J!Actors, J!Timer
<1>2. JobInv => SucceededIsRestorable
  BY DEF JobInv, SucceededIsRestorable
<1>3. J!Init => JobInv
  <2> SUFFICES ASSUME J!Init PROVE JobInv
    OBVIOUS
  <2>1. jobs = <<>> /\ DOMAIN jobs = {} /\ jobs \in Seq(Records)
    BY EmptySeq DEF J!Init
  <2>2. JobTypes
    BY <2>1 DEF J!Init, JobTypes
  <2> QED
    BY <1>1, <2>1, <2>2 DEF J!Init, JobInv, AtWork, J!SucceededIsRestorable
<1>4. JobInv /\ [J!Next]_(J!vars) => JobInv'
  BY <1>1, JobStep
<1> QED
  BY <1>2, <1>3, <1>4, PTL DEF J!Spec
=============================================================================
