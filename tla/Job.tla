-------------------------------- MODULE Job --------------------------------
(***************************************************************************)
(* What the beacon's loop assumes of the work it hands to another thread,  *)
(* a download (image_loader.py) or a modulation (modulator.py): it is      *)
(* started, it comes to one end, and that end, success or failure, stays   *)
(* until the next job is prepared.                                         *)
(***************************************************************************)
VARIABLE status   \* "idle", "running", "ok" or "failed"

Init == status = "idle"

Prepare == status # "running" /\ status' = "idle"
Launch == status # "running" /\ status' = "running"
Finish == status = "running" /\ status' \in {"ok", "failed"}

Next == Prepare \/ Launch \/ Finish

SafeSpec == Init /\ [][Next]_status
Spec == SafeSpec /\ WF_status(Finish)

=============================================================================
