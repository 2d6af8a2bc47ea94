------------------------------ MODULE CardOwner ------------------------------
(***************************************************************************)
(* What the media layer promises about the one microSD card that the USB   *)
(* host and the board share (rt1170/platform/waveform_msc.h): it has one   *)
(* owner at a time, it becomes the host's first, once it is published it   *)
(* is never withdrawn, and the board takes it from the host only while no  *)
(* host write is part way and the host does not prevent removal.           *)
(***************************************************************************)

VARIABLES
  owner,     \* "none" until the card is ready, then "host" or "board"
  partial,   \* a host WRITE(10) has put blocks on the card and may go on
  locked     \* the host prevents medium removal

ownerVars == <<owner, partial, locked>>

Init == owner = "none" /\ partial = FALSE /\ locked = FALSE

Publish == owner = "none" /\ owner' = "host" /\ UNCHANGED <<partial, locked>>

Write == owner = "host" /\ partial' = TRUE /\ UNCHANGED <<owner, locked>>

EndWrite == partial' = FALSE /\ UNCHANGED <<owner, locked>>

Lock == locked' \in BOOLEAN /\ UNCHANGED <<owner, partial>>

(* A new USB configuration, a bus reset or an unplug ends the host's write *)
(* and its lock together.                                                  *)
EndSession == partial' = FALSE /\ locked' = FALSE /\ UNCHANGED owner

TakeForBoard ==
  /\ owner = "host" /\ ~partial /\ ~locked
  /\ owner' = "board"
  /\ UNCHANGED <<partial, locked>>

GiveToHost == owner = "board" /\ owner' = "host" /\ UNCHANGED <<partial, locked>>

Next == Publish \/ Write \/ EndWrite \/ Lock \/ EndSession \/ TakeForBoard \/ GiveToHost

Spec == Init /\ [][Next]_ownerVars
=============================================================================
