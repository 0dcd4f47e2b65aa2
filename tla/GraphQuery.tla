----------------------------- MODULE GraphQuery -----------------------------
(***************************************************************************)
(* One query of the context graph (memory graph/query): FIND lists nodes,  *)
(* MATCH follows one edge, or walks paths of several edges depth first.    *)
(* It reads the rows it needs one statement at a time, with no transaction,*)
(* while mutations change them.  WHERE, grouping and columns are left out: *)
(* a condition is a choice of Targets.  The order of the rows is fixed:    *)
(* a list of rows is the set of them, taken in the order of their places.  *)
(***************************************************************************)
EXTENDS FiniteSets, Naturals, Sequences

CONSTANTS
    GraphNode, GraphEdge,
    From, To,      \* edge |-> node; all edges have the relation asked for
    NodePlace,     \* node |-> its place, last updated first
    EdgePlace,     \* edge |-> its place, first created first
    Starts,        \* nodes of the kind asked for, or the kind of FROM
    Targets,       \* nodes of the kind of TO
    Rank,          \* node |-> place of its ORDER BY value
    Asks,          \* statements: [least, most, limit]; FIND has most = 0
    Readable0, Active0,  \* what there may be at first
    Fading, Severed,     \* nodes and edges mutations are about
    MaxRoots,      \* the 100 of SearchNodes
    MaxPaths,      \* maxTraversalCandidates, and the 1000 of ListEdges
    MaxMutations   \* bound

ASSUME GraphAssumption ==
    /\ From \in [GraphEdge -> GraphNode] /\ To \in [GraphEdge -> GraphNode] /\ Rank \in [GraphNode -> Nat]
    /\ NodePlace \in [GraphNode -> Nat] /\ EdgePlace \in [GraphEdge -> Nat]
    /\ \A m, n \in GraphNode : NodePlace[m] = NodePlace[n] => m = n
    /\ \A d, e \in GraphEdge : EdgePlace[d] = EdgePlace[e] => d = e
    /\ IsFiniteSet(GraphNode) /\ IsFiniteSet(GraphEdge)
    /\ Starts \subseteq GraphNode /\ Targets \subseteq GraphNode
    /\ Asks \subseteq [least : Nat, most : Nat, limit : Nat]
    /\ \A q \in Asks : IF q.most = 0 THEN q.least = 0 ELSE q.least \in 1..q.most
    /\ \A nodes \in Readable0 : nodes \subseteq GraphNode
    /\ \A edges \in Active0 : edges \subseteq GraphEdge
    /\ Fading \subseteq GraphNode /\ Severed \subseteq GraphEdge
    /\ MaxRoots \in Nat /\ MaxPaths \in Nat /\ MaxMutations \in Nat

VARIABLES
    readable,    \* nodes that are active and of an allowed sensitivity
    active,      \* active edges
    ask,         \* the statement
    phase,       \* "search", "hop", "walk", "done"
    ids,         \* nodes found whose rows are still to be read
    roots,       \* nodes read, still to list or to walk from
    hops,        \* edges still to look at
    near,        \* may the first end of the next of them be read?
    stack,       \* the calls of walk
    found,       \* candidates: [start, path]
    answer,      \* those that are returned
    mutations,
    wasReadable, wasActive  \* history: what there has been since the query began

queryVars == <<readable, active, ask, phase, ids, roots, hops, near, stack, found, answer,
               mutations, wasReadable, wasActive>>
rowVars == <<readable, active, mutations, wasReadable, wasActive>>

QueryInit ==
    /\ readable \in Readable0 /\ active \in Active0 /\ ask \in Asks
    /\ phase = "search" /\ ids = {} /\ roots = {} /\ hops = {} /\ near = "unread" /\ stack = <<>>
    /\ found = <<>> /\ answer = {} /\ mutations = 0
    /\ wasReadable = readable /\ wasActive = active

Members(s) == {s[i] : i \in DOMAIN s}
First(rows, place) == {x \in rows : \A y \in rows : place[x] <= place[y]}
Prefix(rows, place, n) == {x \in rows : Cardinality({y \in rows : place[y] < place[x]}) < n}
IsReadable(n) == n \in readable
Full == Len(found) >= MaxPaths

\* SearchNodes, of a FIND or of a walk; ListEdges, of a MATCH of one edge.
Search ==
    /\ phase = "search"
    /\ IF ask.most = 1
       THEN /\ hops' = Prefix(active, EdgePlace, MaxPaths)
            /\ phase' = "hop" /\ UNCHANGED ids
       ELSE /\ ids' = Prefix(Starts \cap readable, NodePlace, MaxRoots)
            /\ phase' = "walk" /\ UNCHANGED hops
    /\ UNCHANGED <<rowVars, ask, roots, near, stack, found, answer>>

\* GetNode, one row after the other.  A walk judges its roots again, FIND does not.
GetRow ==
    /\ \E n \in First(ids, NodePlace) :
          /\ roots' = IF ask.most = 0 \/ IsReadable(n) THEN roots \cup {n} ELSE roots
          /\ ids' = ids \ {n}
    /\ UNCHANGED <<rowVars, ask, phase, hops, near, stack, found, answer>>

Hit(start, path) == found' = Append(found, [start |-> start, path |-> path])

\* executeFind: every node is a row.
Find ==
    /\ phase = "walk" /\ ask.most = 0 /\ ids = {}
    /\ \E n \in First(roots, NodePlace) : Hit(n, <<>>) /\ roots' = roots \ {n}
    /\ UNCHANGED <<rowVars, ask, phase, ids, hops, near, stack, answer>>

\* executeMatch: the row of one end of the edge is read, then that of the other.
GetFrom ==
    /\ phase = "hop" /\ near = "unread"
    /\ \E e \in First(hops, EdgePlace) : near' = IF IsReadable(From[e]) THEN "yes" ELSE "no"
    /\ UNCHANGED <<rowVars, ask, phase, ids, roots, hops, stack, found, answer>>

Hop ==
    /\ phase = "hop" /\ near # "unread" /\ near' = "unread"
    /\ \E e \in First(hops, EdgePlace) :
          /\ IF From[e] \in Starts /\ To[e] \in Targets /\ near = "yes" /\ IsReadable(To[e])
             THEN Hit(From[e], <<e>>) ELSE UNCHANGED found
          /\ hops' = hops \ {e}
    /\ UNCHANGED <<rowVars, ask, phase, ids, roots, stack, answer>>

-----------------------------------------------------------------------------
(* executeVariableMatch and walk.                                           *)

Call(n, path, seen) == [node |-> n, path |-> path, seen |-> seen, listed |-> FALSE, left |-> {}]
Top == stack[Len(stack)]
Below == SubSeq(stack, 1, Len(stack) - 1)

Root ==
    /\ phase = "walk" /\ ask.most > 1 /\ ids = {} /\ stack = <<>> /\ ~Full
    /\ \E n \in First(roots, NodePlace) : stack' = <<Call(n, <<>>, {n})>> /\ roots' = roots \ {n}
    /\ UNCHANGED <<rowVars, ask, phase, ids, hops, near, found, answer>>

ListOutgoingEdges ==
    /\ stack # <<>> /\ ~Top.listed /\ ~Full
    /\ stack' = Append(Below, [Top EXCEPT !.listed = TRUE,
                                          !.left = {e \in active : From[e] = Top.node}])
    /\ UNCHANGED <<rowVars, ask, phase, ids, roots, hops, near, found, answer>>

\* Fault: branches share the nodes they have seen.
SeenBy_Shared(call, n) == call.seen \cup {n}

\* extend copies the nodes a branch has seen: its siblings do not see them.
SeenBy(call, n) == call.seen

Follow ==
    /\ stack # <<>> /\ ~Full
    /\ \E e \in First(Top.left, EdgePlace) :
       LET n == To[e] path == Append(Top.path, e) call == [Top EXCEPT !.left = @ \ {e}] IN
       IF ~IsReadable(n) \/ n \in Top.seen
       THEN stack' = Append(Below, call) /\ UNCHANGED found
       ELSE /\ IF Len(path) >= ask.least /\ n \in Targets THEN Hit(stack[1].node, path)
               ELSE UNCHANGED found
            /\ LET here == Append(Below, [call EXCEPT !.seen = SeenBy(Top, n)]) IN
               stack' = IF Len(path) < ask.most
                        THEN Append(here, Call(n, path, Top.seen \cup {n})) ELSE here
    /\ UNCHANGED <<rowVars, ask, phase, ids, roots, hops, near, answer>>

Return ==
    /\ stack # <<>> /\ (Full \/ (Top.listed /\ Top.left = {}))
    /\ stack' = Below
    /\ UNCHANGED <<rowVars, ask, phase, ids, roots, hops, near, found, answer>>

-----------------------------------------------------------------------------
EndOf(c) == IF c.path = <<>> THEN c.start ELSE To[c.path[Len(c.path)]]

\* The first rows by ORDER BY, which leaves open the order of equal ones.
FirstOf(candidates, limit) ==
    {rows \in SUBSET candidates :
        /\ Cardinality(rows) = IF Cardinality(candidates) < limit THEN Cardinality(candidates) ELSE limit
        /\ \A c \in rows : \A d \in candidates \ rows : Rank[EndOf(c)] <= Rank[EndOf(d)]}

Answer ==
    /\ phase \in {"hop", "walk"} /\ ids = {} /\ hops = {} /\ stack = <<>>
    /\ roots = {} \/ (ask.most > 1 /\ Full)
    /\ phase' = "done"
    /\ answer' \in FirstOf(Members(found), ask.limit)
    /\ UNCHANGED <<rowVars, ask, ids, roots, hops, near, stack, found>>

\* DELETE, INSERT and SET on nodes and edges, by other queries.
Mutate ==
    /\ phase # "done" /\ mutations < MaxMutations
    /\ mutations' = mutations + 1
    /\ \/ \E n \in Fading : readable' \in {readable \ {n}, readable \cup {n}} /\ UNCHANGED active
       \/ \E e \in Severed : active' \in {active \ {e}, active \cup {e}} /\ UNCHANGED readable
    /\ wasReadable' = wasReadable \cup readable' /\ wasActive' = wasActive \cup active'
    /\ UNCHANGED <<ask, phase, ids, roots, hops, near, stack, found, answer>>

QueryNext ==
    \/ Search \/ GetRow \/ Find \/ GetFrom \/ Hop \/ Root \/ ListOutgoingEdges \/ Follow \/ Return \/ Answer
    \/ Mutate

QuerySpec == QueryInit /\ [][QueryNext]_queryVars

-----------------------------------------------------------------------------
(* Properties.                                                              *)

Candidate == [start : GraphNode, path : Seq(GraphEdge)]
Frame == [node : GraphNode, path : Seq(GraphEdge), seen : SUBSET GraphNode,
          listed : BOOLEAN, left : SUBSET GraphEdge]

\* The state is well typed.
QueryTypeOK ==
    /\ readable \subseteq wasReadable /\ wasReadable \subseteq GraphNode
    /\ active \subseteq wasActive /\ wasActive \subseteq GraphEdge
    /\ ask \in Asks /\ phase \in {"search", "hop", "walk", "done"}
    /\ ids \subseteq GraphNode /\ roots \subseteq GraphNode /\ hops \subseteq GraphEdge
    /\ near \in {"unread", "yes", "no"} /\ mutations \in 0..MaxMutations
    /\ stack \in Seq(Frame) /\ found \in Seq(Candidate) /\ answer \subseteq Members(found)

NodeAt(c, i) == IF i = 0 THEN c.start ELSE To[c.path[i]]

\* A path the statement is about, through these nodes and edges.
IsMatch(c, nodes, edges) ==
    /\ c.start \in Starts /\ Len(c.path) \in ask.least..ask.most
    /\ c.path # <<>> => EndOf(c) \in Targets
    /\ \A i \in 0..Len(c.path) : NodeAt(c, i) \in nodes
    /\ \A i \in 1..Len(c.path) : c.path[i] \in edges /\ From[c.path[i]] = NodeAt(c, i - 1)
    /\ ask.most > 1 => \A i, j \in 0..Len(c.path) : i # j => NodeAt(c, i) # NodeAt(c, j)

Matches(nodes, edges) ==
    {c \in [start : GraphNode, path : UNION {[1..n -> GraphEdge] : n \in ask.least..ask.most}] :
        IsMatch(c, nodes, edges)}

\* Every row is a match of rows that were there during the query, and is found once; a
\* query nobody disturbs and no limit of the executor cuts short finds all matches, and
\* returns the first of them.
QueryIsExact ==
    phase = "done" =>
       /\ \A c \in Members(found) : IsMatch(c, wasReadable, wasActive)
       /\ Cardinality(Members(found)) = Len(found) /\ Cardinality(answer) <= ask.limit
       /\ mutations = 0 /\ Cardinality(Starts \cap readable) <= MaxRoots
             /\ Len(found) < MaxPaths /\ (ask.most = 1 => Cardinality(active) <= MaxPaths) =>
          answer \in FirstOf(Matches(readable, active), ask.limit)
=============================================================================
