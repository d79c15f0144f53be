------------------------------ MODULE PaneView ------------------------------
(***************************************************************************)
(* What a terminal pane promises to whoever looks at it: it shows one      *)
(* unbroken run of the bytes its session has written.  The run grows at    *)
(* its end; it is cleared; or it is replaced by a replay or a snapshot     *)
(* that ends no earlier.  It never skips, repeats or reorders a byte, and  *)
(* never falls back to an older screen.                                    *)
(***************************************************************************)
EXTENDS Naturals

VARIABLES
    produced,   \* bytes the session has written
    view        \* what the pane shows: the bytes from view.from up to view.to

Blank == [from |-> 0, to |-> 0]

Runs(n) == {v \in [from : 0 .. n, to : 0 .. n] : v.from < v.to}

Init == produced = 0 /\ view = Blank

(* The session writes; what is shown stays.                                *)
Produce == produced' \in Nat /\ produced' > produced /\ UNCHANGED view

(* The pane paints the bytes that follow, or its first ones.               *)
Paint ==
    /\ view' \in Runs(produced)
    /\ view # Blank => view'.from = view.from /\ view'.to > view.to
    /\ UNCHANGED produced

(* The pane is rebuilt from a replay or a snapshot.                        *)
Rebuild == view' \in Runs(produced) /\ view'.to >= view.to /\ UNCHANGED produced

Clear == view' = Blank /\ UNCHANGED produced

Next == Produce \/ Paint \/ Rebuild \/ Clear

Spec == Init /\ [][Next]_<<produced, view>>

=============================================================================
