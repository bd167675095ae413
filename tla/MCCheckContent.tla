--------------------------- MODULE MCCheckContent ---------------------------
(* Model checking of CheckContent: pages that differ in a time, or in words. *)
EXTENDS CheckContent

Line(w, t, k) == [words |-> w, time |-> t, kind |-> k]
MCRaw == { <<Line("old", FALSE, "text"), Line("", TRUE, "text"), Line("ok?", FALSE, "cookies")>>,
           <<Line("old", TRUE, "text"), Line("f()", FALSE, "script")>>,
           <<Line("new", FALSE, "text")>> }
\* The newest text of a history may be missing.
MCHistories == {[last |-> <<Line("old", FALSE, "text")>>,
                 changes |-> <<[old |-> None, new |-> new]>>] :
                new \in {None, <<Line("old", FALSE, "text")>>}}

=============================================================================
