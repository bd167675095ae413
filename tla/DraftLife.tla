------------------------------ MODULE DraftLife ------------------------------
(***************************************************************************)
(* What the approval queue promises about a draft: nothing leaves it but   *)
(* by a decision, a decision stands, and only an approved draft is         *)
(* delivered.  A draft two reviewers decide at the same time is            *)
(* "contested": nothing is promised of it.                                 *)
(***************************************************************************)
CONSTANT Items
VARIABLE life

States == {"absent", "pending", "approved", "rejected", "delivered",
           "contested", "deleted"}

Init == life = [i \in Items |-> "absent"]

\* The drafts of a set move on together, as a digest or a deletion moves them.
Move(set, from, to) ==
    /\ \A i \in set : life[i] \in from
    /\ life' = [i \in Items |-> IF i \in set THEN to ELSE life[i]]

Submit(i)    == Move({i}, {"absent"}, "pending")
Decide(i, d) == Move({i}, {"pending"}, d)
Contest(i)   == Move({i}, {"pending"}, "contested")
Deliver(set) == Move(set, {"approved", "delivered"}, "delivered")
Delete(set)  == Move(set, States, "deleted")

Next ==
    \/ \E i \in Items : Submit(i) \/ Contest(i) \/ Decide(i, "approved")
                        \/ Decide(i, "rejected")
    \/ \E set \in SUBSET Items : Deliver(set) \/ Delete(set)

Spec == Init /\ [][Next]_life

=============================================================================
