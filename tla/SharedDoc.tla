------------------------------- MODULE SharedDoc -------------------------------
(***************************************************************************)
(* What a dashboard promises to whoever reads it, whatever the mechanism   *)
(* behind it: one document, a set of updates, that only gains updates      *)
(* while the dashboard is live, that nothing changes while it lies in the  *)
(* trash, and that ends only with the dashboard itself.                    *)
(***************************************************************************)
CONSTANT Updates        \* what can be written into a document

VARIABLES
  state,                \* "live", "trashed" or "gone"
  content               \* the updates a reader is served

shared == <<state, content>>

Init == state = "live" /\ content \in SUBSET Updates

\* A write merges: what it read stays in.
Write ==
  /\ state = "live"
  /\ content' \in SUBSET Updates
  /\ content \subseteq content'
  /\ state' = state

Trash == state = "live" /\ state' = "trashed" /\ UNCHANGED content

Restore == state = "trashed" /\ state' = "live" /\ UNCHANGED content

End == state # "gone" /\ state' = "gone" /\ content' = {}

Next == Write \/ Trash \/ Restore \/ End

Spec == Init /\ [][Next]_shared
=============================================================================
