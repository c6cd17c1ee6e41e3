--------------------------- MODULE AtomicInstall ---------------------------
(***************************************************************************)
(* What the mini app installer promises of one app id: the installed       *)
(* package is replaced in a single step, is never lost, and never gives    *)
(* way to a package of a lower version.                                    *)
(***************************************************************************)
EXTENDS Integers

CONSTANTS Packages, Version, None

VARIABLE app      \* the installed package, or None

Init == app = None

Install(p) ==
    /\ app # None => Version[p] >= Version[app]
    /\ app' = p

Next == \E p \in Packages : Install(p)

Spec == Init /\ [][Next]_app
=============================================================================
