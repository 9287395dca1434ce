---------------------------- MODULE DraftProperties ---------------------------
(* What the person who drafts a jam may rely on.                           *)
EXTENDS Draft

(* A tab that is told of its build sees to it that the draft leaves that   *)
(* list, though create found no row to link, or failed to: the row may be  *)
(* the work of a save that came later (builds.ts:336, page.tsx:365).       *)
BuiltLeavesTheList ==
    <>[]\A d \in Devices :
            Open(d) /\ tab[d].login /\ tab[d].build /\ spoilt = {} => row = Null \/ row.build

(* The tab has the newest edit of all, and that is worth a row.            *)
HasTheNewest(d) == Open(d) /\ tab[d].n = edits /\ WorthARow(tab[d])

(* The newest edit reaches the platform, through any number of timers that *)
(* later edits put off, the sign-in and other tabs: unless it emptied the  *)
(* draft, or a save fails, a tab is closed before its timer, or an older   *)
(* save comes last (use-build-draft.ts:54, 55, page.tsx:176).              *)
NewestReachesTheRow ==
    <>[]\A d \in Devices : HasTheNewest(d) /\ spoilt = {} => row # Null /\ row.n = edits

(* The snapshots that are, or are yet to be, in the row.                   *)
Held(d) ==
    {snap \in {row, tab[d].timer} : snap # Null} \cup {save.snap : save \in saves}

(* At any time the newest edit of a tab that is signed in is in the row,   *)
(* in the tab's timer or under way, unless it emptied the draft, a save    *)
(* was lost or came too late, or the draft was deleted                     *)
(* (use-build-draft.ts:54, 55).                                            *)
NewestIsHeld ==
    \A d \in Devices :
        HasTheNewest(d) /\ spoilt = {} => \E snap \in Held(d) : snap.n = edits

(* And so is the link of a tab that knows of its build (page.tsx:365).     *)
BuiltIsHeld ==
    \A d \in Devices :
        Open(d) /\ tab[d].login /\ tab[d].build /\ spoilt = {} =>
            \E snap \in Held(d) : snap.build

(* "falling back to the server row (cross-device / cleared cache)"         *)
(* (use-build-draft.ts:28): a wizard opened on a device that has no copy   *)
(* shows what the platform has.                                            *)
ResumesElsewhere ==
    [][\A d \in Devices :
        ~Open(d) /\ Open(d)' /\ local[d] = Null /\ row # Null => tab'[d].n = row.n]_vars
=============================================================================
