--------------------------- MODULE MCScenarioOrder ---------------------------
(* A small instance of ScenarioOrder for TLC. *)
EXTENDS ScenarioOrder

CONSTANTS a0, b0, b1, c0

Ordered(r) == [on |-> r, kind |-> "order"]
Mapped(r) == [on |-> r, kind |-> "mapped"]
Configuration(r) == [on |-> r, kind |-> "configuration"]

\* Three components.  b0 needs a0; b1, which is a draft, nothing at first.
ThreeLocks == <<{a0}, {b0, b1}, {c0}>>
ThreeDo == {<<"install", "install", "install">>, <<"install", "verify", "install">>,
            <<"rollback", "rollback", "install">>}
AllInstalled == {<<"install", "install", "install">>}
ThreeNeeds == (a0 :> {}) @@ (b0 :> {Ordered(a0)}) @@ (b1 :> {}) @@ (c0 :> {})
ChangedNeeds == {{Ordered(c0)}, {Ordered(c0), Mapped(a0)}}
OrderNeeds == {{Ordered(c0)}}
FewConstraints == {{}, {<<3, 2>>}, {<<1, 3>>}}
=============================================================================
