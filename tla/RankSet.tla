------------------------------ MODULE RankSet ------------------------------
(***************************************************************************)
(* rank_set.h: a red-black tree whose nodes count their subtrees, so that  *)
(* elements can be found by rank.                                          *)
(*                                                                         *)
(* A node is identified by its value, which never changes while the node   *)
(* lives.  The header's parent is the root, its left and right are the     *)
(* first and the last node.  The halves of the code that mirror each other *)
(* are one definition with the side as a parameter.                        *)
(***************************************************************************)
EXTENDS Integers, Sequences, FiniteSets

CONSTANT MaxValue       \* values are 1..MaxValue, compared by <

ASSUME SetAssumption == MaxValue \in Nat

Values == 1..MaxValue
header == 0
null == -1

VARIABLES
    tree,           \* header and nodes: [is_red, parent, left, right, node_count]
    iter            \* an Iterator the client keeps: a node or header

setVars == <<tree, iter>>

root(t) == t[header].parent
Nodes(t) == DOMAIN t \ {header}

Mirror(side) == IF side = "left" THEN "right" ELSE "left"

IsRed(t, n) == n # null /\ t[n].is_red
Count(t, n) == IF n = null THEN 0 ELSE t[n].node_count

SetParent(t, n, p) == IF n = null THEN t ELSE [t EXCEPT ![n].parent = p]

\* The link to old from above now leads to new.
Relink(t, old, new) ==
    LET p == t[old].parent
    IN  IF root(t) = old THEN [t EXCEPT ![header].parent = new]
        ELSE IF t[p].left = old THEN [t EXCEPT ![p].left = new]
        ELSE [t EXCEPT ![p].right = new]

\* A loop that only reads the tree is a function from where it is to where it
\* goes next, and ends where that is not defined: after one round for each node
\* at the latest.
StepOf(next, s) == IF s \in DOMAIN next THEN next[s] ELSE s

Walk(next, start) ==
    LET after[k \in 0..(MaxValue + 1)] ==
            IF k = 0 THEN start ELSE StepOf(next, after[k - 1])
    IN  after[MaxValue + 1]

\* As far as possible to one side.
Furthest(t, n, side) ==
    Walk([m \in {m \in Nodes(t) : t[m][side] # null} |-> t[m][side]], n)

resetHeaderNode ==
    [n \in {header} |-> [is_red |-> TRUE, parent |-> null, left |-> header,
                         right |-> header, node_count |-> 0]]

-----------------------------------------------------------------------------
(* Iterators *)

\* Up to the first node that is not on this side of its parent.
Climbed(t, n, side) ==
    Walk([m \in {m \in DOMAIN t : t[t[m].parent][side] = m} |-> t[m].parent], n)

\* (mutant) the header is not recognised
ClimbPast(t, n, side) == t[Climbed(t, n, side)].parent

\* The first node above n that has n on the other side, or where that ends.
Climb(t, n, side) ==
    LET top == Climbed(t, n, side)
        p == t[top].parent
    IN  IF t[top][side] # p THEN p ELSE top

increment(t, n) ==
    IF t[n].right # null THEN Furthest(t, t[n].right, "left")
    ELSE Climb(t, n, "right")

decrement(t, n) ==
    IF t[n].is_red /\ t[t[n].parent].parent = n THEN t[n].right
    ELSE IF t[n].left # null THEN Furthest(t, t[n].left, "right")
    ELSE Climb(t, n, "left")

-----------------------------------------------------------------------------
(* Counts and rotations *)

updateNodeCount(t, n) ==
    [t EXCEPT ![n].node_count = Count(t, t[n].left) + Count(t, t[n].right) + 1]

\* A loop that changes the tree goes in rounds on a state [tree, at]; a round
\* after its end changes nothing.
countRound(s) ==
    IF s.at = header THEN s
    ELSE [tree |-> updateNodeCount(s.tree, s.at), at |-> s.tree[s.at].parent]

countRounds(t, n) ==
    LET after[k \in 0..MaxValue] ==
            IF k = 0 THEN [tree |-> t, at |-> n]
            ELSE countRound(after[k - 1])
    IN  after

updateNodeCountToTop(t, n) == countRounds(t, n)[MaxValue].tree

\* (mutant) only the node that came up is counted again
rotateCountsUpper(t, x, side) ==
    LET y == t[x][Mirror(side)]
        inner == t[y][side]
        moved == SetParent([t EXCEPT ![x][Mirror(side)] = inner], inner, x)
        up == Relink([moved EXCEPT ![y].parent = t[x].parent], x, y)
    IN  updateNodeCount([up EXCEPT ![y][side] = x, ![x].parent = y], y)

\* rotateLeft for side = "left", rotateRight for "right": the other child of x
\* takes its place, and x becomes that node's child on this side.
rotate(t, x, side) ==
    LET y == t[x][Mirror(side)]
        inner == t[y][side]
        moved == SetParent([t EXCEPT ![x][Mirror(side)] = inner], inner, x)
        up == Relink([moved EXCEPT ![y].parent = t[x].parent], x, y)
        linked == [up EXCEPT ![y][side] = x, ![x].parent = y]
    IN  updateNodeCount(updateNodeCount(linked, x), y)

-----------------------------------------------------------------------------
(* Insertion *)

BlackenRoot(t) == [t EXCEPT ![t[header].parent].is_red = FALSE]

\* The end of the loop of insertNodeFixup: no red node above x.
insertSettled(t, x) == x = root(t) \/ ~t[t[x].parent].is_red

\* The red uncle and the parent become black, the grandparent red.
recolor(t, p, uncle, g) ==
    [t EXCEPT ![p].is_red = FALSE, ![uncle].is_red = FALSE, ![g].is_red = TRUE]

\* The black uncle stays: the parent, or x itself when it is inside, comes up.
lift(t, top, g, side) ==
    rotate([t EXCEPT ![top].is_red = FALSE, ![g].is_red = TRUE], g, Mirror(side))

insertRound(s) ==
    LET t == s.tree
        x == s.at
        p == t[x].parent
        g == t[p].parent
        side == IF p = t[g].left THEN "left" ELSE "right"
        uncle == t[g][Mirror(side)]
    IN  IF insertSettled(t, x) THEN s
        ELSE IF IsRed(t, uncle) THEN [tree |-> recolor(t, p, uncle, g), at |-> g]
        ELSE IF x = t[p][Mirror(side)]
        THEN [tree |-> lift(rotate(t, p, side), x, g, side), at |-> p]
        ELSE [tree |-> lift(t, p, g, side), at |-> x]

insertRounds(t, x) ==
    LET after[k \in 0..MaxValue] ==
            IF k = 0 THEN [tree |-> t, at |-> x]
            ELSE insertRound(after[k - 1])
    IN  after

insertNodeFixup(t, x) ==
    LET last == insertRounds(t, x)[MaxValue]
    IN  BlackenRoot(updateNodeCountToTop(last.tree, last.at))

\* A new red node for v at an empty place under p, and the header brought up to
\* date: its left, right or both follow the node p when they were at it.
Attach(t, v, p, side, ends) ==
    LET leaf == [is_red |-> TRUE, parent |-> p, left |-> null, right |-> null,
                 node_count |-> 0]
        added == [n \in DOMAIN t \cup {v} |-> IF n = v THEN leaf ELSE t[n]]
        linked == IF p = header THEN [added EXCEPT ![header].parent = v]
                  ELSE [added EXCEPT ![p][side] = v]
        h == [linked[header] EXCEPT
                !.left = IF "left" \in ends THEN v ELSE @,
                !.right = IF "right" \in ends THEN v ELSE @,
                !.node_count = @ + 1]
        counted == updateNodeCountToTop(linked, v)
    IN  insertNodeFixup([counted EXCEPT ![header] = h], v)

\* The search that insertNode, findNode and lowerBoundNode share: the node looked
\* at, and the last one passed that is not below v.
lowerBoundNode(t, v) ==
    Walk([s \in Nodes(t) \X DOMAIN t |->
            IF s[1] >= v THEN <<t[s[1]].left, s[1]>> ELSE <<t[s[1]].right, s[2]>>],
         <<root(t), header>>)[2]

insertNode(t, v) ==
    LET target == lowerBoundNode(t, v)
        last == Furthest(t, t[target].left, "right")
    IN  IF t[header].node_count = 0
        THEN Attach(t, v, header, "left", {"left", "right"})
        ELSE IF target = header THEN Attach(t, v, t[header].right, "right", {"right"})
        ELSE IF target = v THEN t
        ELSE IF t[target].left = null
        THEN Attach(t, v, target, "left",
                    IF t[header].left = target THEN {"left"} ELSE {})
        ELSE Attach(t, v, last, "right",
                    IF t[header].right = last THEN {"right"} ELSE {})

-----------------------------------------------------------------------------
(* Erasure *)

Blacken(t, n) == IF n = null THEN t ELSE [t EXCEPT ![n].is_red = FALSE]

\* Case 1: the sibling w of x is red.
raiseRed(t, p, w, side) ==
    rotate([t EXCEPT ![w].is_red = FALSE, ![p].is_red = TRUE], p, side)

\* Case 3: of the children of w only the one inside is red; it comes up.
bend(t, w, side) ==
    rotate([Blacken(t, t[w][side]) EXCEPT ![w].is_red = TRUE], w, Mirror(side))

\* (mutant) w keeps its colour
raiseBlackUncoloured(t, p, w, side) ==
    rotate(Blacken([t EXCEPT ![p].is_red = FALSE], t[w][Mirror(side)]), p, side)

\* Case 4: the child of w outside is red; w takes the place of p.
raiseBlack(t, p, w, side) ==
    rotate(Blacken([t EXCEPT ![w].is_red = t[p].is_red, ![p].is_red = FALSE],
                   t[w][Mirror(side)]),
           p, side)

\* One round of eraseNodeFixup with a sibling that is black.
shiftBlack(t, x, p, side) ==
    LET far == Mirror(side)
        w == t[p][far]
        bent == IF IsRed(t, t[w][far]) THEN t ELSE bend(t, w, side)
    IN  IF ~IsRed(t, t[w][side]) /\ ~IsRed(t, t[w][far])
        THEN [tree |-> [t EXCEPT ![w].is_red = TRUE], x |-> p, p |-> t[p].parent,
              over |-> FALSE]
        ELSE [tree |-> updateNodeCountToTop(raiseBlack(bent, p, bent[p][far], side), p),
              x |-> x, p |-> p, over |-> TRUE]

\* x, which may be null, is one black node short below p.
eraseSettled(s) == s.over \/ s.x = root(s.tree) \/ IsRed(s.tree, s.x)

eraseRound(s) ==
    LET t == s.tree
        side == IF s.x = t[s.p].left THEN "left" ELSE "right"
        w == t[s.p][Mirror(side)]
    IN  IF eraseSettled(s) THEN s
        ELSE shiftBlack(IF t[w].is_red THEN raiseRed(t, s.p, w, side) ELSE t,
                        s.x, s.p, side)

eraseRounds(t, x, p) ==
    LET after[k \in 0..MaxValue] ==
            IF k = 0 THEN [tree |-> t, x |-> x, p |-> p, over |-> FALSE]
            ELSE eraseRound(after[k - 1])
    IN  after

eraseNodeFixup(t, x, p) ==
    LET last == eraseRounds(t, x, p)[MaxValue]
    IN  Blacken(last.tree, last.x)

\* The tree with y, the successor of z, in the place and the colour of z.
Exchange(t, z, y, x) ==
    LET p == t[y].parent
        left == [t EXCEPT ![t[z].left].parent = y, ![y].left = t[z].left]
        right == IF y = t[z].right THEN left
                 ELSE [SetParent(left, x, p) EXCEPT ![p].left = x,
                                                    ![y].right = t[z].right,
                                                    ![t[z].right].parent = y]
    IN  [Relink(right, z, y) EXCEPT ![y].parent = t[z].parent,
                                    ![y].is_red = t[z].is_red,
                                    ![z].is_red = t[y].is_red]

\* The ends of the set without z.
EndsWithout(t, z) ==
    IF t[header].node_count = 1
    THEN [t EXCEPT ![header].left = header, ![header].right = header]
    ELSE IF t[header].left = z THEN [t EXCEPT ![header].left = increment(t, z)]
    ELSE IF t[header].right = z THEN [t EXCEPT ![header].right = decrement(t, z)]
    ELSE t

eraseNode(tr, z) ==
    LET t == EndsWithout(tr, z)
        both == t[z].left # null /\ t[z].right # null
        y == IF both THEN Furthest(t, t[z].right, "left") ELSE z
        x == IF t[y].left = null THEN t[y].right ELSE t[y].left
        p == IF both /\ y = t[z].right THEN y ELSE t[y].parent
        unlinked == IF both THEN Exchange(t, z, y, x)
                    ELSE Relink(SetParent(t, x, p), z, x)
        counted == updateNodeCountToTop(unlinked, p)
        fixed == IF t[y].is_red THEN counted ELSE eraseNodeFixup(counted, x, p)
    IN  [n \in DOMAIN t \ {z} |->
            IF n = header THEN [fixed[header] EXCEPT !.node_count = @ - 1]
            ELSE fixed[n]]

-----------------------------------------------------------------------------
(* Queries *)

findNode(t, v) ==
    LET n == lowerBoundNode(t, v)
    IN  IF n # header /\ v < n THEN header ELSE n

upperBoundNode(t, v) ==
    Walk([s \in Nodes(t) \X DOMAIN t |->
            IF v < s[1] THEN <<t[s[1]].left, s[1]>> ELSE <<t[s[1]].right, s[2]>>],
         <<root(t), header>>)[2]

\* The node looked at, and the rank wanted among the nodes below it.
selectNode(t, rank) ==
    LET left_count(n) == Count(t, t[n].left)
        found == Walk([s \in {s \in Nodes(t) \X (0..MaxValue) : s[2] # left_count(s[1])} |->
                        IF s[2] < left_count(s[1]) THEN <<t[s[1]].left, s[2]>>
                        ELSE <<t[s[1]].right, s[2] - (left_count(s[1]) + 1)>>],
                      <<root(t), rank>>)[1]
    IN  IF found = null THEN header ELSE found

\* The node looked at, and how many elements are known to be below v.
rankNode(t, v) ==
    LET left_count(n) == Count(t, t[n].left)
        found == Walk([s \in (Nodes(t) \ {v}) \X (0..MaxValue) |->
                        IF v < s[1] THEN <<t[s[1]].left, s[2]>>
                        ELSE <<t[s[1]].right, s[2] + 1 + left_count(s[1])>>],
                      <<root(t), 0>>)
    IN  IF found[1] = null THEN found[2] ELSE found[2] + left_count(found[1])

\* copyNodes: the nodes below n, linked among themselves; levels is at least the
\* length of the longest path.
copyNodes(t, levels) ==
    LET copy[k \in 0..levels] ==
            [n \in Nodes(t) \cup {null} |->
                IF n = null \/ k = 0 THEN [m \in {} |-> 0]
                ELSE LET l == copy[k - 1][t[n].left]
                         r == copy[k - 1][t[n].right]
                         node(m) == IF m \in DOMAIN l THEN l[m] ELSE r[m]
                     IN  [m \in {n} \cup DOMAIN l \cup DOMAIN r |->
                            IF m = n THEN [t[n] EXCEPT !.parent = null]
                            ELSE IF m \in {t[n].left, t[n].right}
                            THEN [node(m) EXCEPT !.parent = n] ELSE node(m)]]
    IN  copy[levels][root(t)]

UnderHeader(h, nodes) ==
    [n \in {header} \cup DOMAIN nodes |-> IF n = header THEN h ELSE nodes[n]]

\* (mutant) the ends are taken over without looking at the new nodes
CopyUnlinked(t) == UnderHeader(t[header], copyNodes(t, MaxValue))

\* The copy constructor: the ends are found again.
Copy(t) ==
    LET h == [resetHeaderNode[header] EXCEPT
                !.parent = root(t), !.node_count = t[header].node_count]
        copied == UnderHeader(h, copyNodes(t, MaxValue))
    IN  IF root(t) = null THEN copied
        ELSE [copied EXCEPT ![root(t)].parent = header,
                            ![header].left = Furthest(copied, root(t), "left"),
                            ![header].right = Furthest(copied, root(t), "right")]

-----------------------------------------------------------------------------
(* Operations.  The client keeps one iterator, and does not use one whose   *)
(* element it has erased by value.                                          *)

SetInit == tree = resetHeaderNode /\ iter = header

insert(v) ==
    /\ tree' = insertNode(tree, v)
    /\ iter' = v

eraseValue(v) ==
    /\ findNode(tree, v) # header
    /\ tree' = eraseNode(tree, v)
    /\ iter' = IF iter = v THEN header ELSE iter

eraseIterator ==
    /\ iter # header
    /\ iter' = increment(tree, iter)
    /\ tree' = eraseNode(tree, iter)

clearSet == tree' = resetHeaderNode /\ iter' = header

\* What find, lowerBound, upperBound and select may return.
found ==
    {findNode(tree, v) : v \in Values}
        \cup {lowerBoundNode(tree, v) : v \in Values}
        \cup {upperBoundNode(tree, v) : v \in Values}
        \cup {selectNode(tree, r) : r \in 0..MaxValue}

\* begin, end, rbegin and rend, or a search.
seek ==
    /\ iter' \in {tree[header].left, header, tree[header].right} \cup found
    /\ UNCHANGED tree

\* ++ of an Iterator on an element.  -- of a ReverseIterator does the same there;
\* from rend() it would be increment(header), which goes to the least node below
\* the greatest, seldom the first of all.  That step is left out.
advance ==
    /\ iter # header
    /\ iter' = increment(tree, iter)
    /\ UNCHANGED tree

\* -- of an Iterator, from end() too; ++ of a ReverseIterator, from the first element
\* to rend().
retreat ==
    /\ Nodes(tree) # {}
    /\ iter' = decrement(tree, iter)
    /\ UNCHANGED tree

SetNext ==
    \/ \E v \in Values : insert(v) \/ eraseValue(v)
    \/ eraseIterator
    \/ clearSet
    \/ seek
    \/ advance
    \/ retreat

SetSpec == SetInit /\ [][SetNext]_setVars

-----------------------------------------------------------------------------
(* Properties *)

elements == Nodes(tree)

Sorted == INSTANCE SortedSet WITH End <- header, elems <- elements

\* The number of black nodes on every path down from the root; -1 when paths
\* differ.
BlackHeight(t) ==
    LET height[k \in 0..MaxValue] ==
            [n \in Nodes(t) \cup {null} |->
                IF n = null \/ k = 0 THEN 0
                ELSE LET l == height[k - 1][t[n].left]
                         r == height[k - 1][t[n].right]
                     IN  IF l = -1 \/ l # r THEN -1 ELSE l + (IF t[n].is_red THEN 0 ELSE 1)]
    IN  height[MaxValue][root(t)]

\* Every sequence of insertions and erasures leaves a red-black tree: black root,
\* no red node with a red child, as many black nodes on every path. So the depth
\* stays logarithmic.
Balanced ==
    /\ ~IsRed(tree, root(tree))
    /\ \A n \in Nodes(tree) :
        tree[n].is_red => ~IsRed(tree, tree[n].left) /\ ~IsRed(tree, tree[n].right)
    /\ BlackHeight(tree) # -1

Below(v) == {e \in elements : e < v}

\* Counts, ends and links survive every rotation: each query on the tree answers
\* what it would on the sorted sequence of the elements, and from each element
\* increment and decrement go to its neighbours there, or to end().
QueriesExact ==
    /\ tree[header].node_count = Cardinality(elements)
    /\ tree[header].left = Sorted!Least(elements)
    /\ tree[header].right = Sorted!Greatest(elements)
    /\ \A v \in Values :
        /\ rankNode(tree, v) = Cardinality(Below(v))
        /\ lowerBoundNode(tree, v) = Sorted!Least(elements \ Below(v))
        /\ upperBoundNode(tree, v) = Sorted!Least(elements \ Below(v + 1))
        /\ findNode(tree, v) = IF v \in elements THEN v ELSE header
    /\ \A r \in 0..MaxValue :
        selectNode(tree, r) = Sorted!Least({e \in elements : Cardinality(Below(e)) = r})
    /\ \A n \in elements :
        /\ increment(tree, n) = Sorted!Least({e \in elements : e > n})
        /\ decrement(tree, n) = Sorted!Greatest({e \in elements : e < n})
    /\ elements # {} => decrement(tree, header) = Sorted!Greatest(elements)

\* A copy is the same tree, parents and ends included.
CopyIsEqual == Copy(tree) = tree

\* The tree implements the sorted set: rotations lose no node, iterators stay on
\* their element through insertions and other erasures, and erase goes on to the
\* next element.
ImplementsSortedSet == Sorted!Spec
=============================================================================
