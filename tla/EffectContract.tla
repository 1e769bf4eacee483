---------------------------- MODULE EffectContract ----------------------------
(***************************************************************************)
(* What the side-effect boundary promises of one effect, without saying    *)
(* how: it is recorded before it is sent, the permission to send is given  *)
(* once and spent at most once, and the record settles at most once, on    *)
(* what really happened in the world.                                      *)
(***************************************************************************)
CONSTANT Keys

VARIABLES phase,   \* what the record says of the effect
          permit,  \* the one permission to send
          world    \* what happened in the external system

cvars == <<phase, permit, world>>

Phases == {"absent", "noop", "reserved", "dispatched", "applied", "failed"}
Permits == {"none", "granted", "spent", "lost"}
Worlds == {"untouched", "pending", "done", "refused"}

Init ==
  /\ phase = [k \in Keys |-> "absent"]
  /\ permit = [k \in Keys |-> "none"]
  /\ world = [k \in Keys |-> "untouched"]

Reserve(k) ==
  /\ phase[k] = "absent"
  /\ \E p \in {"reserved", "noop"} : phase' = [phase EXCEPT ![k] = p]
  /\ UNCHANGED <<permit, world>>

Dispatch(k) ==
  /\ phase[k] = "reserved"
  /\ phase' = [phase EXCEPT ![k] = "dispatched"]
  /\ permit' = [permit EXCEPT ![k] = "granted"]
  /\ UNCHANGED world

Send(k) ==
  /\ permit[k] = "granted"
  /\ permit' = [permit EXCEPT ![k] = "spent"]
  /\ UNCHANGED <<phase, world>>

\* The holder of the permission died: nobody will send.
Lose(k) ==
  /\ permit[k] = "granted"
  /\ permit' = [permit EXCEPT ![k] = "lost"]
  /\ UNCHANGED <<phase, world>>

\* The world acts on the request it got, perhaps in two stages.
Act(k) ==
  /\ permit[k] = "spent"
  /\ \/ world[k] = "untouched" /\ \E o \in {"pending", "done", "refused"} :
          world' = [world EXCEPT ![k] = o]
     \/ world[k] = "pending" /\ \E o \in {"done", "refused"} :
          world' = [world EXCEPT ![k] = o]
  /\ UNCHANGED <<phase, permit>>

\* Asked about a request it has not seen, the world may refuse it for good.
Refuse(k) ==
  /\ phase[k] = "dispatched"
  /\ world[k] = "untouched"
  /\ world' = [world EXCEPT ![k] = "refused"]
  /\ UNCHANGED <<phase, permit>>

Settle(k) ==
  /\ phase[k] = "dispatched"
  /\ \/ world[k] = "done" /\ phase' = [phase EXCEPT ![k] = "applied"]
     \/ world[k] = "refused" /\ phase' = [phase EXCEPT ![k] = "failed"]
  /\ UNCHANGED <<permit, world>>

Next ==
  \E k \in Keys : \/ Reserve(k) \/ Dispatch(k) \/ Send(k) \/ Lose(k)
                  \/ Act(k) \/ Refuse(k) \/ Settle(k)

Spec == Init /\ [][Next]_cvars
=============================================================================
