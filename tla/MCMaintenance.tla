--------------------------- MODULE MCMaintenance ---------------------------
(***************************************************************************)
(* Small instances of Maintenance.                                         *)
(***************************************************************************)
EXTENDS Maintenance

CONSTANTS m1, m2

\* One step or two, of different total length.
MCPlans == {[count |-> 1, total |-> 1], [count |-> 2, total |-> 2]}
MCOnePlan == {[count |-> 1, total |-> 1]}

\* The ids are interchangeable: no definition orders them.
MCSymmetry == {[x \in {m1, m2} |-> x], [x \in {m1, m2} |-> IF x = m1 THEN m2 ELSE m1]}
=============================================================================
