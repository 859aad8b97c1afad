------------------------ MODULE MCInterfaceDispatch ------------------------
(* Inputs for model checking InterfaceDispatch. *)
EXTENDS InterfaceDispatch

At(kind, n) == <<[kind |-> kind, n |-> n]>> \o [k \in 1..4 |-> [kind |-> "any", n |-> 0]]

\* Every minute; the form refuses the others.
MCCron == {At("any", 0), At("at", 60), At("text", 0)}

\* The admin page gives the batch interface a schedule that cannot be read.
MCAdminInput == Batch \X {At("text", 0)}
=============================================================================
