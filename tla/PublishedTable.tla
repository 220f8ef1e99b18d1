---------------------------- MODULE PublishedTable ----------------------------
(***************************************************************************)
(* What a loaded table promises to those who read it: its contents are     *)
(* nothing, or exactly one bundle of source data, never a part of one.     *)
(* Loads that overlap leave a mixture, which the next load that does not   *)
(* overlap replaces.  A loader that clears the table first obeys           *)
(* ClearingSpec; one that replaces the contents in a transaction obeys     *)
(* SwappingSpec, where readers never see the table empty again.            *)
(***************************************************************************)
CONSTANT Bundle

VARIABLE content

Nothing == <<"nothing">>
Mixture == <<"mixture">>
Whole(b) == <<"whole", b>>

Init == content = Nothing

Clear == content' = Nothing

Publish(b) ==
  /\ content = Nothing
  /\ content' = Whole(b)

Swap(b) == content' = Whole(b)

Overlap == content' = Mixture

ClearingSpec == Init /\ [][Clear \/ Overlap \/ \E b \in Bundle : Publish(b)]_content

SwappingSpec == Init /\ [][Overlap \/ \E b \in Bundle : Swap(b)]_content
================================================================================
