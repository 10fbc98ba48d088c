------------------------------ MODULE MCResolver ------------------------------
(***************************************************************************)
(* Three packages, one of them in two versions, and a package that is not  *)
(* in the registry: every catalog of up to two requirements a coordinate.  *)
(***************************************************************************)
EXTENDS Resolver

C(package, version) == [package |-> package, version |-> version]

R(package, versions, optional) ==
    [package |-> package, versions |-> versions, optional |-> optional]

MCCandidates == <<C("a", 1), C("b", 1), C("b", 2), C("c", 1)>>

\* Up to two requirements, one of them perhaps twice.
Declared(S) == {<<>>} \cup {<<r>> : r \in S} \cup {<<r, q>> : r \in S, q \in S}

MCCatalogs ==
    {[c \in Coordinates |->
        CASE c = C("a", 1) -> x [] c = C("b", 1) -> y [] c = C("b", 2) -> z [] OTHER -> w] :
        x \in Declared({R("b", AnyVersion, FALSE), R("b", {1}, FALSE), R("c", {1}, FALSE), R("gone", AnyVersion, TRUE)}),
        y \in Declared({R("a", AnyVersion, FALSE), R("c", {1}, FALSE)}),
        z \in Declared({R("b", {1}, FALSE), R("c", {1}, FALSE), R("gone", AnyVersion, FALSE)}),
        w \in Declared({R("a", AnyVersion, FALSE), R("b", {2}, FALSE)})}

MCRequests ==
    {[roots |-> roots, strategy |-> strategy, optional |-> optional] :
        roots \in {<<R("a", AnyVersion, FALSE)>>, <<R("gone", AnyVersion, TRUE)>>,
                   <<R("b", AnyVersion, FALSE), R("a", AnyVersion, FALSE)>>},
        strategy \in {"highest", "lowest"}, optional \in BOOLEAN}
=============================================================================
