----------------------------- MODULE MCIngress -----------------------------
(***************************************************************************)
(* Small instances of the ways in from outside: signed callbacks           *)
(* (ReplayGuard), the devices at the door (Intercom) and the bot           *)
(* (TelegramService).  They share no state: a behaviour is of one of them, *)
(* which part names, and the others stay as they began.                    *)
(***************************************************************************)
EXTENDS ReplayGuard, TLC

CONSTANTS
    c1, c2, k1, k2, n1, n2, r1, r2, ann, bob, phone, tablet,
    \* Intercom
    StateKeys, Requests, TTL, IntercomClock, MaxInputs, MaxTroubles,
    \* TelegramService
    Users, Accounts, Admins, Paired, NoUser, PrepareTTL, ConfirmTTL, MaxActionTTL, PairingTTL, Buffer,
    TelegramClock, MaxRings, MaxCodes, MaxUpdates, MaxChanges, TelegramTroubles

VARIABLES
    part,
    \* Intercom
    now, numbered, timed, button, reports, boots, served, opened, unheard, retained, wire, queue, handled,
    link, session, ringing, stored, commands, unlocks, presses, rung, taken, broken, cuts, failures, reported,
    \* TelegramService
    time, admins, disabled, bound, codes, actions, shown, bells, inbox, sent, offset, batch,
    at, current, pending, rings, bell, telling, doors, changes, trouble

(* Three tokens, two of which share a nonce but expire at different times,   *)
(* on two routes.                                                            *)
TwoCallers == {c1, c2}
MCKeyIDs == {k1, k2}
MCNonces == {n1, n2}
MCRoutes == {r1, r2}
MCTokens == {
  [kid |-> k1, nonce |-> n1, bind |-> r1, iat |-> 1, exp |-> 2],
  [kid |-> k1, nonce |-> n1, bind |-> r1, iat |-> 1, exp |-> 4],
  [kid |-> k2, nonce |-> n2, bind |-> r2, iat |-> 2, exp |-> 4] }
PairedAtFirst == (phone :> ann) @@ (tablet :> NoUser)
CallerSymmetry == Permutations(TwoCallers)

intercomVars ==
    <<now, numbered, timed, button, reports, boots, served, opened, unheard, retained, wire, queue, handled,
      link, session, ringing, stored, commands, unlocks, presses, rung, taken, broken, cuts, failures, reported>>
telegramVars ==
    <<time, admins, disabled, bound, codes, actions, shown, bells, inbox, sent, offset, batch,
      at, current, pending, rings, bell, telling, doors, changes, trouble>>

I == INSTANCE Intercom WITH MaxClock <- IntercomClock
T == INSTANCE TelegramService WITH
       None <- NoUser, MaxClock <- TelegramClock, MaxTroubles <- TelegramTroubles,
       now <- time, pc <- at, rung <- bell, unlocks <- doors, troubles <- trouble

MCInit ==
    /\ part \in {"callbacks", "intercom", "telegram"}
    /\ Init /\ I!Init /\ T!Init
    /\ part # "callbacks" => keyring = KeyIDs
    /\ part # "intercom" => numbered /\ timed
MCNext ==
    \/ part = "callbacks" /\ Next /\ UNCHANGED <<part, intercomVars, telegramVars>>
    \/ part = "intercom" /\ I!Next /\ UNCHANGED <<part, vars, telegramVars>>
    \/ part = "telegram" /\ T!Next /\ UNCHANGED <<part, vars, intercomVars>>
MCSpec == MCInit /\ [][MCNext]_<<part, vars, intercomVars, telegramVars>>

-----------------------------------------------------------------------------
(* A press rings once, or there is a cause (Intercom).                       *)
PressRingsOnce == I!PressRingsOnce
(* A door that opened has a command that says so, or a cause (Intercom).     *)
OpenedIsExplained == I!OpenedIsExplained
(* A door opens once for a confirmed answer (TelegramService).               *)
UnlockPerConfirmation == T!UnlockPerConfirmation
=============================================================================
