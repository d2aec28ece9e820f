--------------------------- MODULE PresenceLifecycle ---------------------------
(***************************************************************************)
(* What the mumble mode promises of its presence in Discord: the bot joins *)
(* and leaves the voice channel, and bridges audio, one step of a ladder   *)
(* at a time.  A pipeline begins only where no other is left to be taken   *)
(* down, is announced at most once, and is down before the bot leaves; the *)
(* presence counts as active from before the bot joins until after it      *)
(* left, so that nobody joins twice.                                       *)
(***************************************************************************)
EXTENDS Naturals

VARIABLES
  active,    (* the presence: nobody else may start one                       *)
  level,     (* away, present, bridging, or taking the pipeline down          *)
  announced  (* how often the pipeline was announced                          *)

vars == <<active, level, announced>>

Init == active = FALSE /\ level = "away" /\ announced = 0

Join ==
  /\ ~active /\ level = "away"
  /\ active' = TRUE /\ level' = "present"
  /\ UNCHANGED announced

Begin ==
  /\ active /\ level = "present"
  /\ level' = "bridging" /\ announced' = 0
  /\ UNCHANGED active

Announce ==
  /\ level = "bridging" /\ announced = 0
  /\ announced' = 1
  /\ UNCHANGED <<active, level>>

End ==
  /\ level = "bridging"
  /\ level' = "ending"
  /\ UNCHANGED <<active, announced>>

Finish ==
  /\ level = "ending"
  /\ level' = "present"
  /\ UNCHANGED <<active, announced>>

Leave ==
  /\ level = "present"
  /\ level' = "away"
  /\ UNCHANGED <<active, announced>>

Clear ==
  /\ level = "away" /\ active
  /\ active' = FALSE
  /\ UNCHANGED <<level, announced>>

Next == Join \/ Begin \/ Announce \/ End \/ Finish \/ Leave \/ Clear

Spec == Init /\ [][Next]_vars

===============================================================================
