-------------------------------- MODULE Resolver --------------------------------
(***************************************************************************)
(* ReferenceResolverService._resolve (marketplace/resolver/service.py)     *)
(* with the dependency graph it builds (graph.py, models.py): a depth      *)
(* first search over a catalog, and the order of installation it gives.    *)
(*                                                                         *)
(* A requirement is [package, versions, optional]; its versions are the    *)
(* set it admits, or AnyVersion.  There is one publisher, no prerelease    *)
(* and no compatibility layer.                                             *)
(***************************************************************************)
EXTENDS Naturals, Sequences, FiniteSets, SequencesExt

CONSTANTS
    Candidates,   \* the coordinates of the registry, in the order of their keys
    AnyVersion,   \* the requirement that admits every version
    Catalogs,     \* the requirements of every coordinate, in declaration order
    Requests      \* [roots, strategy, optional], optional being include_optional

VARIABLES
    catalog,
    request,
    result      \* of the resolution, or Pending

vars == <<catalog, request, result>>

None == [package |-> "none", version |-> 0]

Pending == [status |-> "PENDING"]

Coordinates == ToSet(Candidates)

Init ==
    /\ catalog \in Catalogs
    /\ request \in Requests
    /\ result = Pending

-----------------------------------------------------------------------------
(* choose.                                                                  *)

Admits(requirement, c) ==
    /\ c.package = requirement.package
    /\ requirement.versions = AnyVersion \/ c.version \in requirement.versions

Matches(requirement) == {c \in Coordinates : Admits(requirement, c)}

\* DETERMINISTIC_FIRST, too, gives the lowest version: keys are sorted by it.
Choice(matches) ==
    CHOOSE c \in matches : \A d \in matches :
        IF request.strategy = "highest" THEN c.version >= d.version
                                        ELSE c.version <= d.version

-----------------------------------------------------------------------------
(* expand: the search.  s is its state: the nodes selected, the edges, the  *)
(* requirements seen of each package, the issues, and whether the builder   *)
(* raised.  path is visiting; it ends in the parent.                        *)

Start == [selected |-> {}, edges |-> {}, seen |-> {}, issues |-> {}, raised |-> FALSE]

Report(s, issue, when) == IF when THEN [s EXCEPT !.issues = @ \cup {issue}] ELSE s

VersionsSeen(s, package) == {r.versions : r \in {q \in s.seen : q.package = package}}

\* Different requirements of one package conflict unless one admits everything.
Conflicting(versions) == Cardinality(versions) > 1 /\ AnyVersion \notin versions

Seen(s, requirement) ==
    LET p == requirement.package
        t == [s EXCEPT !.seen = @ \cup {[package |-> p, versions |-> requirement.versions]}]
    IN  Report(t, "VERSION_CONFLICT", Conflicting(VersionsSeen(t, p)))

\* add_edge raises for an edge it has.
Link(s, path, c) ==
    IF path = <<>> THEN s
    ELSE LET edge == <<Last(path), c>>
         IN  [s EXCEPT !.edges = @ \cup {edge}, !.raised = @ \/ edge \in s.edges]

\* An optional dependency without a candidate is skipped, unless wanted.
Skipped(requirement) == requirement.optional /\ ~request.optional

\* A slip: what was selected before is taken for what is being visited.
MutantClosesCycle(s, target, path) == target \in s.selected

ClosesCycle(s, target, path) == target \in ToSet(path)

Same(r, q) == r.package = q.package /\ r.versions = q.versions

RECURSIVE Expand(_, _, _), ExpandFrom(_, _, _)

Expand(s, requirement, path) ==
    LET matches == Matches(requirement)
        c == Choice(matches)
        seen == Seen(s, requirement)
        linked == Link(Report(seen, "AMBIGUOUS_CANDIDATE", Cardinality(matches) > 1),
                       path, c)
    IN  IF s.raised THEN [s |-> s, target |-> None]
        ELSE IF matches = {}
        THEN [s |-> Report(seen, "MISSING", ~Skipped(requirement)), target |-> None]
        ELSE IF c \in s.selected \/ linked.raised
        THEN [s |-> linked, target |-> c]
        ELSE [s |-> ExpandFrom([linked EXCEPT !.selected = @ \cup {c}], Append(path, c), 1),
              target |-> c]

\* The loop over the dependencies of the parent, from the k-th on.
ExpandFrom(s, path, k) ==
    LET dependencies == catalog[Last(path)]
        again == \E j \in 1..(k - 1) : Same(dependencies[j], dependencies[k])
        found == Expand(s, dependencies[k], path)
    IN  IF k > Len(dependencies) \/ s.raised THEN s
        ELSE ExpandFrom(IF again THEN Report(s, "DUPLICATE_DEPENDENCY", TRUE)
                        ELSE Report(found.s, "CYCLE_DETECTED", ClosesCycle(s, found.target, path)),
                        path, k + 1)

-----------------------------------------------------------------------------
(* DependencyGraph.                                                         *)

\* dependencies_of, in the order of the edges' keys
DependenciesOf(edges, c) == SelectSeq(Candidates, LAMBDA d : <<c, d>> \in edges)

\* A slip: a node goes before its dependencies.
MutantPlaced(order, node) == <<node>> \o order

Placed(order, node) == Append(order, node)

RECURSIVE Visit(_, _, _)

\* visit of topological_order
Visit(edges, visited, node) ==
    IF node \in visited.seen THEN visited
    ELSE LET below == FoldLeft(LAMBDA v, d : Visit(edges, v, d),
                               [visited EXCEPT !.seen = @ \cup {node}],
                               DependenciesOf(edges, node))
         IN  [below EXCEPT !.order = Placed(@, node)]

InOrder(nodes) == SelectSeq(Candidates, LAMBDA c : c \in nodes)

TopologicalOrder(nodes, edges) ==
    FoldLeft(LAMBDA v, c : Visit(edges, v, c), [seen |-> {}, order |-> <<>>],
             InOrder(nodes)).order

RECURSIVE Trace(_, _, _, _)

\* visit of cycles
Trace(edges, traced, path, node) ==
    IF node \in ToSet(path) THEN [traced EXCEPT !.cycle = TRUE]
    ELSE IF node \in traced.visited THEN traced
    ELSE LET below == FoldLeft(LAMBDA t, d : Trace(edges, t, Append(path, node), d),
                               traced, DependenciesOf(edges, node))
         IN  [below EXCEPT !.visited = @ \cup {node}]

HasCycle(nodes, edges) ==
    FoldLeft(LAMBDA t, c : Trace(edges, t, <<>>, c), [visited |-> {}, cycle |-> FALSE],
             InOrder(nodes)).cycle

-----------------------------------------------------------------------------
(* _resolve.                                                                *)

\* A slip: a missing dependency does not count.
MutantFatal(issues) == issues \ {"AMBIGUOUS_CANDIDATE", "MISSING"}

Fatal(issues) == issues \ {"AMBIGUOUS_CANDIDATE"}

Status(s) ==
    IF s.raised THEN "RAISED"
    ELSE IF Fatal(s.issues) = {} THEN "RESOLVED"
    ELSE IF s.selected # {} THEN "PARTIAL"
    ELSE "UNRESOLVED"

Searched == FoldLeft(LAMBDA t, r : Expand(t, r, <<>>).s, Start, request.roots)

\* The graph is asked for cycles again, and an order is given without one.
Resolution ==
    LET found == Searched
        s == Report(found, "CYCLE_DETECTED",
                    ~found.raised /\ HasCycle(found.selected, found.edges))
    IN  [status |-> Status(s), selected |-> s.selected, edges |-> s.edges,
         issues |-> s.issues,
         order |-> IF "CYCLE_DETECTED" \in s.issues \/ s.raised THEN <<>>
                   ELSE TopologicalOrder(s.selected, s.edges)]

Resolve ==
    /\ result = Pending
    /\ result' = Resolution
    /\ UNCHANGED <<catalog, request>>

Spec == Init /\ [][Resolve]_vars

-----------------------------------------------------------------------------
(* Properties.                                                              *)

Returned == result # Pending /\ result.status # "RAISED"

\* What a selected coordinate depends on, by the declarations alone.
DependsOn(c, d) ==
    \E k \in DOMAIN catalog[c] :
        LET m == Matches(catalog[c][k]) IN m # {} /\ d = Choice(m)

\* A cycle among the dependencies of the selected coordinates is reported, and
\* nothing else is: the search and the declarations agree.
CyclesReported ==
    Returned =>
        ("CYCLE_DETECTED" \in result.issues
            <=> \E S \in SUBSET result.selected \ {{}} :
                   \A c \in S : \E d \in S : DependsOn(c, d))

Position(c) == CHOOSE n \in DOMAIN result.order : result.order[n] = c

\* The order of installation names every selected coordinate once, and each
\* after everything it depends on.
OrderRespected ==
    (Returned /\ "CYCLE_DETECTED" \notin result.issues) =>
        /\ ToSet(result.order) = result.selected
        /\ Len(result.order) = Cardinality(result.selected)
        /\ \A c, d \in result.selected : DependsOn(c, d) => Position(d) < Position(c)

\* A RESOLVED result is complete and minimal: every root and every dependency
\* of a selected coordinate has a selected candidate, unless it is optional,
\* and nothing is selected without being needed.
Complete ==
    (Returned /\ result.status = "RESOLVED") =>
        LET needed == ToSet(request.roots)
                        \cup UNION {ToSet(catalog[c]) : c \in result.selected}
        IN  /\ \A r \in needed : r.optional \/ Matches(r) \cap result.selected # {}
            /\ \A c \in result.selected : \E r \in needed : Admits(r, c)
=============================================================================
