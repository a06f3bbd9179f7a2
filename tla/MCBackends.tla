----------------------------- MODULE MCBackends -----------------------------
(* Backends for TLC: a static group for one service, and peers that publish *)
(* nothing, another service, or several.                                    *)
EXTENDS Backends

CONSTANTS a, b, p, q

MCSpecs == {[scope |-> a, peers |-> {p}]}
MCUserData == {[x \in {p, q} |-> IF x = p THEN {b} ELSE Missing],
               [x \in {p, q} |-> IF x = p THEN Missing ELSE {a, b}]}
=============================================================================
