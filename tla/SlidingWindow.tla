--------------------------- MODULE SlidingWindow ---------------------------
(***************************************************************************)
(* What the tracker of registration results promises: the most recent      *)
(* results, at most Size of them and oldest first.                         *)
(***************************************************************************)
EXTENDS Integers, Sequences

CONSTANT Size
VARIABLE window

Init == window = <<>>

Latest(s) == IF Len(s) > Size THEN Tail(s) ELSE s

Observe(ok) == window' = Latest(Append(window, ok))

\* Nothing is known, or just enough for a verdict.
Reset == window' \in {<<>>, <<TRUE>>, [i \in 1..(Size \div 2) |-> FALSE]}

Next == Reset \/ \E ok \in BOOLEAN : Observe(ok)

Spec == Init /\ [][Next]_window
=============================================================================
