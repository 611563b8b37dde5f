----------------------------- MODULE BootContract -----------------------------
(***************************************************************************)
(* What the firmware promises of a boot, whatever is in main.elf and       *)
(* whatever read or allocation fails: memory is only gained while the file *)
(* is open, the application is started with the file closed, in memory     *)
(* that is allocated, and nothing the loader does changes its image from   *)
(* then on; everything is given back before the chip restarts.             *)
(***************************************************************************)
VARIABLES
  phase,    \* "off", "stopped", "loading", "running", "ending" or "released"
  open,     \* main.elf is open
  blocks,   \* heap blocks the loader holds
  img       \* what it has put into them, and where

vars == <<phase, open, blocks, img>>

Init == phase = "off" /\ ~open /\ blocks = {}

PowerOn ==
  phase = "off" /\ phase' \in {"loading", "stopped"} /\ UNCHANGED <<open, blocks>>
OpenFile == phase = "loading" /\ ~open /\ open' /\ UNCHANGED <<phase, blocks, img>>
NoFile == phase = "loading" /\ ~open /\ phase' = "ending" /\ UNCHANGED <<open, blocks, img>>
Acquire ==
  /\ phase = "loading" /\ open /\ \E b \in blocks' : blocks' = blocks \cup {b}
  /\ UNCHANGED <<phase, open, img>>
Load == phase = "loading" /\ open /\ UNCHANGED <<phase, open, blocks>>
Start ==
  /\ phase = "loading" /\ open /\ blocks # {} /\ phase' = "running" /\ ~open'
  /\ UNCHANGED <<blocks, img>>
GiveUp ==
  phase = "loading" /\ open /\ phase' = "ending" /\ ~open' /\ UNCHANGED <<blocks, img>>
Exit == phase = "running" /\ phase' = "ending" /\ UNCHANGED <<open, blocks, img>>
Release ==
  phase = "ending" /\ phase' = "released" /\ blocks' = {} /\ UNCHANGED <<open, img>>
Restart ==
  phase = "released" /\ blocks = {} /\ ~open /\ phase' = "off" /\ UNCHANGED <<open, blocks>>

Next ==
  \/ PowerOn \/ OpenFile \/ NoFile \/ Acquire \/ Load \/ Start \/ GiveUp
  \/ Exit \/ Release \/ Restart

Spec == Init /\ [][Next]_vars

=============================================================================
