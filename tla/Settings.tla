------------------------------ MODULE Settings ------------------------------
(***************************************************************************)
(* What the daemon promises to those who change its configuration: there   *)
(* is one value, the operations of each client are carried out in order    *)
(* and at most once, and only a daemon that stops drops them.  The value   *)
(* outlives the daemon if it was stored: a save takes time, may fail and   *)
(* may be cut short.  The code behind it is modelled by Desk; the          *)
(* operations are those of proto.rs and tray.rs.                           *)
(***************************************************************************)
EXTENDS Config, Sequences, Naturals

CONSTANT Clients

VARIABLES value,  \* the configuration
          stored, \* the one a new daemon would have
          saving, \* the value is being stored
          sound,  \* the last save was completed
          asked   \* per client, the operations not carried out yet

Operations == [kind : {"GetState"}] \cup
              [kind : {"SetConfig"}, config : Configs] \cup
              [kind : {"SetMode"}, mode : ModeNames] \cup
              [kind : {"SetDisabled"}, disabled : BOOLEAN]

(* A mode that is not defined is not entered.                              *)
Carried(op, c) ==
    CASE op.kind = "GetState"    -> c
      [] op.kind = "SetConfig"   -> op.config
      [] op.kind = "SetMode"     -> [c EXCEPT !.active_mode = IF op.mode \in DOMAIN c.modes
                                                              THEN op.mode ELSE @]
      [] op.kind = "SetDisabled" -> [c EXCEPT !.disabled = op.disabled]

(* A client asks for one operation more.                                   *)
Ask(k) ==
    /\ asked' \in [Clients -> Seq(Operations)]
    /\ Len(asked'[k]) = Len(asked[k]) + 1
    /\ \A i \in 1 .. Len(asked[k]) : asked'[k][i] = asked[k][i]
    /\ \A other \in Clients \ {k} : asked'[other] = asked[other]
    /\ UNCHANGED <<value, stored, saving, sound>>

(* What changes the value is stored next.                                  *)
Serve(k) ==
    /\ ~saving /\ asked[k] # <<>>
    /\ value' = Carried(Head(asked[k]), value)
    /\ asked' = [asked EXCEPT ![k] = Tail(@)]
    /\ saving' \in BOOLEAN /\ (value' # value => saving')
    /\ UNCHANGED <<stored, sound>>

(* A save that does not succeed leaves what was stored, or nothing.        *)
Broken == stored' \in {stored, DefaultConfig} /\ sound' = FALSE

Store ==
    /\ saving /\ saving' = FALSE
    /\ (stored' = value /\ sound' = TRUE) \/ Broken
    /\ UNCHANGED <<value, asked>>

(* The daemon stops: the next one starts from what is stored.              *)
Lose ==
    /\ asked' = [k \in Clients |-> <<>>]
    /\ IF saving THEN Broken ELSE UNCHANGED <<stored, sound>>
    /\ saving' = FALSE
    /\ value' = stored'

Init ==
    /\ value \in Configs /\ stored = value /\ sound = TRUE /\ saving = FALSE
    /\ asked = [k \in Clients |-> <<>>]

Next == (\E k \in Clients : Ask(k) \/ Serve(k)) \/ Store \/ Lose

Spec == Init /\ [][Next]_<<value, stored, saving, sound, asked>>
=============================================================================
