---------------------------- MODULE RankSetProofs ----------------------------
(***************************************************************************)
(* Proofs about RankSet for every bound on the values.  The inductive      *)
(* invariant, SetInv, says that there are subtrees sub and black heights   *)
(* bh for which the nodes are linked, in order, counted and coloured       *)
(* (Shape, RedBlack), and that the header has the ends (Headed).           *)
(*                                                                         *)
(* Every operation is first described field by field (Rotated, Relinked,   *)
(* Spliced), then for what it does to sub, the counts and bh.  A loop is   *)
(* proved by what holds after k rounds (CountAfter, Rising, Sinking).      *)
(***************************************************************************)
EXTENDS RankSet, FiniteSetTheorems, WellFoundedInduction, TLAPS

-----------------------------------------------------------------------------
(* Induction *)

\* A set of naturals that is not empty has a least element.
LEMMA LeastElement ==
    ASSUME NEW S, S \subseteq Nat, S # {}
    PROVE  \E x \in S : \A y \in S : x <= y
<1> DEFINE R == OpToRel(<, Nat)
<1>1. IsWellFoundedOn(R, Nat)
  BY NatLessThanWellFounded
<1>2. \A x, y \in Nat : x < y => <<x, y>> \in R
  BY DEF OpToRel
<1> HIDE DEF R
<1>3. PICK x \in S : \A y \in S : <<y, x>> \notin R
  BY <1>1, WFMin
<1>4. ASSUME NEW y \in S PROVE x <= y
  <2>1. x \in Nat /\ y \in Nat /\ ~(y < x)
    BY <1>2, <1>3
  <2> QED
    BY <2>1
<1> QED
  BY <1>4

\* A set that has 0, and n + 1 with every n, has every natural.
LEMMA Induct ==
    ASSUME NEW S, 0 \in S, \A n \in Nat : n \in S => n + 1 \in S
    PROVE  Nat \subseteq S
<1> SUFFICES ASSUME ~(Nat \subseteq S) PROVE FALSE
  OBVIOUS
<1>1. PICK x \in Nat \ S : \A y \in Nat \ S : x <= y
  <2> DEFINE U == Nat \ S
  <2>1. U \subseteq Nat /\ U # {}
    OBVIOUS
  <2> HIDE DEF U
  <2>2. \E x \in U : \A y \in U : x <= y
    BY <2>1, LeastElement
  <2> QED
    BY <2>2 DEF U
<1>2. x # 0 /\ x - 1 \in Nat
  BY <1>1
<1>3. x - 1 \in S
  BY <1>1, <1>2
<1> QED
  BY <1>1, <1>2, <1>3

Sides == {"left", "right"}
Fields == {"is_red", "parent", "left", "right", "node_count"}

TreeNode == [is_red : BOOLEAN, parent : Int, left : Int, right : Int, node_count : Int]

\* The header and the nodes of D, whatever their links.
TypedTree(t, D) == D \subseteq Values /\ t \in [D \cup {header} -> TreeNode]

\* One write.
Write(t, n, f, v) == [t EXCEPT ![n][f] = v]
Fits(f, v) == IF f = "is_red" THEN v \in BOOLEAN ELSE v \in Int

Wrote(t, u, D, n, f, v) ==
    /\ TypedTree(u, D)
    /\ \A m \in D \cup {header}, g \in Fields :
        u[m][g] = IF m = n /\ g = f THEN v ELSE t[m][g]

\* One write changes one field, and keeps the types that fit.
LEMMA WriteIs ==
    ASSUME NEW t, NEW D, TypedTree(t, D), NEW n \in D \cup {header}, NEW f \in Fields, NEW v,
           Fits(f, v)
    PROVE  Wrote(t, Write(t, n, f, v), D, n, f, v)
<1>1. TypedTree(Write(t, n, f, v), D)
  BY DEF TypedTree, Write, Fits, Fields, TreeNode
<1>2. ASSUME NEW m \in D \cup {header}, NEW g \in Fields
      PROVE  Write(t, n, f, v)[m][g] = IF m = n /\ g = f THEN v ELSE t[m][g]
  <2>1. Write(t, n, f, v)[m] = IF m = n THEN [t[m] EXCEPT ![f] = v] ELSE t[m]
    BY DEF TypedTree, Write
  <2>2. t[m] \in TreeNode
    BY DEF TypedTree
  <2>3. [t[m] EXCEPT ![f] = v][g] = IF g = f THEN v ELSE t[m][g]
    BY <2>2 DEF TreeNode, Fields
  <2> QED
    BY <2>1, <2>3
<1> QED
  BY <1>1, <1>2 DEF Wrote

(***************************************************************************)
(* The shape of a tree: its nodes are N, and sub says which nodes are in   *)
(* the subtree of each.                                                    *)
(***************************************************************************)
Under(sub, n) == IF n = null THEN {} ELSE sub[n]

\* m is on this side of n.
Off(side, m, n) == IF side = "left" THEN m < n ELSE n < m

KidsFit(t, N, sub, n) ==
    \A side \in Sides :
        /\ sub[n] = {n} \cup Under(sub, t[n][side]) \cup Under(sub, t[n][Mirror(side)])
        /\ t[n][side] # null => t[n][side] \in N /\ t[t[n][side]].parent = n
        /\ \A m \in Under(sub, t[n][side]) : Off(side, m, n)

ParentFits(t, N, n) ==
    LET p == t[n].parent
    IN  IF p = header THEN root(t) = n
        ELSE p \in N /\ \E side \in Sides : t[p][side] = n

RootFits(t, N, sub) ==
    IF root(t) = null THEN N = {}
    ELSE root(t) \in N /\ t[root(t)].parent = header /\ sub[root(t)] = N

Linked(t, N, sub) ==
    /\ N \subseteq Values
    /\ sub \in [N -> SUBSET N]
    /\ \A n \in N : KidsFit(t, N, sub, n) /\ ParentFits(t, N, n)
    /\ RootFits(t, N, sub)

\* Neither the header nor null is a value.
LEMMA ValuesAre == /\ header \notin Values
                   /\ null \notin Values
                   /\ null # header
                   /\ Values \subseteq Int
                   /\ Values \subseteq Nat
BY SetAssumption DEF Values, header, null

\* The other side of the other side.
LEMMA MirrorIs ==
    ASSUME NEW side \in Sides
    PROVE  /\ Mirror(side) \in Sides
           /\ Mirror(side) # side
           /\ Mirror(Mirror(side)) = side
           /\ \A s \in Sides : s = side \/ s = Mirror(side)
BY DEF Mirror, Sides

\* A child, its place in the order and below its parent.
LEMMA KidIs ==
    ASSUME NEW t, NEW N, NEW sub, Linked(t, N, sub), NEW n \in N, NEW side \in Sides,
           t[n][side] # null
    PROVE  LET k == t[n][side]
           IN  /\ k \in N /\ k # n /\ k # header /\ k # t[n][Mirror(side)]
               /\ t[k].parent = n
               /\ k \in sub[k]
               /\ k \in sub[n]
               /\ sub[k] \subseteq sub[n]
               /\ n \notin sub[k]
               /\ Off(side, k, n)
<1> DEFINE k == t[n][side]
           other == t[n][Mirror(side)]
<1>1. KidsFit(t, N, sub, n) /\ Mirror(side) \in Sides
  BY MirrorIs DEF Linked
<1>2. k \in N /\ t[k].parent = n
  BY <1>1 DEF KidsFit
<1>3. KidsFit(t, N, sub, k)
  BY <1>2 DEF Linked
<1>4. k \in sub[k]
  BY <1>3 DEF KidsFit, Sides
<1>5. sub[k] \subseteq sub[n] /\ k \in sub[n]
  BY <1>1, <1>4 DEF KidsFit, Under
<1>6. \A m \in sub[k] : Off(side, m, n)
  BY <1>1 DEF KidsFit, Under
<1>7. n \notin sub[k] /\ k # n
  <2>1. n \in Int
    BY ValuesAre DEF Linked
  <2> QED
    BY <1>6, <1>4, <2>1 DEF Off
<1>8. k # other
  <2> SUFFICES ASSUME k = other PROVE FALSE
    OBVIOUS
  <2>1. \A m \in Under(sub, other) : Off(Mirror(side), m, n)
    BY <1>1 DEF KidsFit
  <2>2. Off(side, k, n) /\ Off(Mirror(side), k, n)
    BY <1>4, <1>6, <2>1 DEF Under
  <2>3. k \in Int /\ n \in Int
    BY <1>2, ValuesAre DEF Linked
  <2> QED
    BY <2>2, <2>3 DEF Off, Mirror, Sides
<1> QED
  BY <1>2, <1>4, <1>5, <1>6, <1>7, <1>8, ValuesAre DEF Linked

\* Every node is in its own subtree.
LEMMA SelfUnder ==
    ASSUME NEW t, NEW N, NEW sub, Linked(t, N, sub), NEW n \in N
    PROVE  n \in sub[n] /\ sub[n] \subseteq N /\ n \in Values /\ n # header /\ n # null
BY ValuesAre DEF Linked, KidsFit, Sides

\* The link from above.
LEMMA ParentIs2 ==
    ASSUME NEW t, NEW N, NEW sub, Linked(t, N, sub), NEW n \in N
    PROVE  LET p == t[n].parent
           IN  /\ p = header <=> root(t) = n
               /\ p # header => p \in N /\ p # n /\ p # null /\ \E s \in Sides : t[p][s] = n
                  /\ t[p][Mirror(s)] # n
<1> DEFINE p == t[n].parent
<1>1. ParentFits(t, N, n) /\ n # null
  BY SelfUnder DEF Linked
<1>2. root(t) = n => p = header
  BY <1>1 DEF Linked, RootFits
<1>3. CASE p = header
  BY <1>1, <1>3 DEF ParentFits
<1>4. CASE p # header
  <2>1. p \in N /\ \E s \in Sides : t[p][s] = n
    BY <1>1, <1>4 DEF ParentFits
  <2>2. PICK s \in Sides : t[p][s] = n
    BY <2>1
  <2>3. p # n /\ t[p][Mirror(s)] # n /\ p # null
    BY <1>1, <2>1, <2>2, KidIs, SelfUnder
  <2> QED
    BY <1>2, <1>4, <2>1, <2>2, <2>3
<1> QED
  BY <1>3, <1>4

-----------------------------------------------------------------------------
(* Rotation, field by field. *)

\* The node old hangs where its parent says.
Hangs(t, D, old) ==
    LET p == t[old].parent
    IN  /\ p = header <=> root(t) = old
        /\ p # header => p \in D /\ \E s \in Sides : t[p][s] = old /\ t[p][Mirror(s)] # old

Relinked(t, u, D, old, new) ==
    LET p == t[old].parent
    IN  /\ TypedTree(u, D)
        /\ \A m \in D \cup {header}, g \in Fields :
            u[m][g] = IF p = header
                      THEN IF m = header /\ g = "parent" THEN new ELSE t[m][g]
                      ELSE IF m = p /\ g \in Sides /\ t[p][g] = old THEN new
                      ELSE t[m][g]

\* Relink changes the one link that leads to old.
LEMMA RelinkIs ==
    ASSUME NEW t, NEW D, TypedTree(t, D), NEW old \in D, NEW new \in Int, Hangs(t, D, old)
    PROVE  Relinked(t, Relink(t, old, new), D, old, new)
<1> DEFINE p == t[old].parent
           u == Relink(t, old, new)
<1>0. /\ "parent" \in Fields /\ "left" \in Fields /\ "right" \in Fields
      /\ Fits("parent", new) /\ Fits("left", new) /\ Fits("right", new)
  BY DEF Fields, Fits
<1>1. CASE p = header
  <2> DEFINE n == header
  <2>1. u = Write(t, n, "parent", new)
    BY <1>1 DEF Relink, Write, Hangs
  <2>2. n \in D \cup {header}
    OBVIOUS
  <2> HIDE DEF n, u
  <2>3. Wrote(t, u, D, n, "parent", new)
    BY <2>1, <2>2, <1>0, WriteIs
  <2> QED
    BY <2>3, <1>1 DEF Wrote, Relinked, u, n
<1>2. CASE p # header
  <2>1. PICK s \in Sides : t[p][s] = old /\ t[p][Mirror(s)] # old
    BY <1>2 DEF Hangs
  <2>2. u = Write(t, p, s, new)
    BY <1>2, <2>1 DEF Relink, Write, Sides, Mirror, Hangs
  <2>3. s \in Fields /\ Fits(s, new) /\ p \in D \cup {header} /\ s \in Sides
    BY <1>2, <2>1 DEF Sides, Fields, Fits, Hangs
  <2> HIDE DEF u, p
  <2>4. Wrote(t, u, D, p, s, new)
    BY <2>2, <2>3, WriteIs
  <2>5. \A g \in Fields : g = s <=> g \in Sides /\ t[p][g] = old
    <3>1. t[p][s] = old /\ t[p][Mirror(s)] # old
      BY <2>1 DEF p
    <3> QED
      BY <3>1, <2>3, MirrorIs DEF Sides, Fields
  <2>6. ASSUME NEW m \in D \cup {header}, NEW g \in Fields
        PROVE  u[m][g] = IF m = p /\ g \in Sides /\ t[p][g] = old THEN new ELSE t[m][g]
    BY <2>4, <2>5 DEF Wrote
  <2> QED
    BY <1>2, <2>4, <2>6 DEF u, p, Relinked, Wrote
<1> QED
  BY <1>1, <1>2

\* SetParent writes one parent, or nothing for null.
LEMMA SetParentIs ==
    ASSUME NEW t, NEW D, TypedTree(t, D), NEW n \in D \cup {null}, NEW p \in Int
    PROVE  Wrote(t, SetParent(t, n, p), D, n, "parent", p)
<1>1. CASE n = null
  BY <1>1, ValuesAre DEF SetParent, TypedTree, Wrote
<1>2. CASE n # null
  <2>1. SetParent(t, n, p) = Write(t, n, "parent", p)
    BY <1>2 DEF SetParent, Write
  <2>2. "parent" \in Fields /\ Fits("parent", p)
    BY DEF Fields, Fits
  <2> QED
    BY <1>2, <2>1, <2>2, WriteIs
<1> QED
  BY <1>1, <1>2

CountsBelow(t, n) == Count(t, t[n].left) + Count(t, t[n].right) + 1

\* The fields of a node keep their types.
LEMMA FieldTypes ==
    ASSUME NEW t, NEW D, TypedTree(t, D), NEW n \in D \cup {header}
    PROVE  /\ t[n].is_red \in BOOLEAN /\ t[n].parent \in Int /\ t[n].left \in Int
           /\ t[n].right \in Int /\ t[n].node_count \in Int
           /\ \A s \in Sides : t[n][s] \in Int
BY DEF TypedTree, TreeNode, Sides

\* updateNodeCount writes one count.
LEMMA UpdateIs ==
    ASSUME NEW t, NEW D, TypedTree(t, D), NEW n \in D,
           \A s \in Sides : t[n][s] \in D \cup {null}
    PROVE  /\ Wrote(t, updateNodeCount(t, n), D, n, "node_count", CountsBelow(t, n))
           /\ CountsBelow(t, n) \in Int
<1>1. updateNodeCount(t, n) = Write(t, n, "node_count", CountsBelow(t, n))
  BY DEF updateNodeCount, Write, CountsBelow
<1>2. t[n].left \in D \cup {null} /\ t[n].right \in D \cup {null}
  BY DEF Sides
<1>3. \A m \in D : t[m].node_count \in Int
  BY FieldTypes
<1>4. CountsBelow(t, n) \in Int
  BY <1>2, <1>3 DEF CountsBelow, Count
<1> HIDE DEF CountsBelow
<1>5. "node_count" \in Fields /\ Fits("node_count", CountsBelow(t, n))
  BY <1>4 DEF Fields, Fits
<1> QED
  BY <1>1, <1>4, <1>5, WriteIs

\* What rotate does, field by field.
Rotated(t, u, D, x, side) ==
    LET far == Mirror(side)
        y == t[x][far]
        inner == t[y][side]
        p == t[x].parent
    IN  /\ TypedTree(u, D)
        /\ \A m \in D \cup {header} :
            /\ u[m].is_red = t[m].is_red
            /\ u[m].parent = IF m = x THEN y ELSE IF m = y THEN p
                             ELSE IF m = inner THEN x
                             ELSE IF m = header /\ p = header THEN y ELSE t[m].parent
            /\ m \notin {x, y} => u[m].node_count = t[m].node_count
            /\ \A s \in Sides :
                u[m][s] = IF m = x /\ s = far THEN inner
                          ELSE IF m = y /\ s = side THEN x
                          ELSE IF p # header /\ m = p /\ t[p][s] = x THEN y
                          ELSE t[m][s]
        /\ u[x].node_count = CountsBelow(u, x)
        /\ u[y].node_count = CountsBelow(u, y)

\* The rotations do what Rotated says, field by field.
LEMMA RotateIs ==
    ASSUME NEW t, NEW D, TypedTree(t, D), NEW N, NEW sub, Linked(t, N, sub), N \subseteq D,
           NEW x \in N, NEW side \in Sides, t[x][Mirror(side)] # null
    PROVE  Rotated(t, rotate(t, x, side), D, x, side)
<1> DEFINE far == Mirror(side)
           y == t[x][far]
           inner == t[y][side]
           p == t[x].parent
<1>2. /\ far \in Sides /\ far # side /\ side \in Fields /\ far \in Fields /\ "parent" \in Fields
      /\ \A s \in Sides : s = side \/ s = far
      /\ Sides \subseteq Fields /\ "parent" \notin Sides
      /\ "parent" # far /\ "parent" # side
  BY MirrorIs DEF Sides, Fields
<1>3. /\ y \in N /\ y # x /\ t[y].parent = x /\ y # t[x][side]
      /\ inner # null => inner \in N /\ inner # y /\ inner # x /\ t[inner].parent = y
  <2>1. y \in N /\ y # x /\ t[y].parent = x /\ y # t[x][side] /\ sub[y] \subseteq sub[x]
        /\ x \notin sub[y]
    BY <1>2, KidIs, MirrorIs
  <2>2. inner # null => inner \in N /\ inner # y /\ inner \in sub[y] /\ t[inner].parent = y
    BY <2>1, KidIs
  <2> QED
    BY <2>1, <2>2
<1>4. /\ p = header <=> root(t) = x
      /\ p # header => p \in N /\ p # x /\ p # null /\ \E s \in Sides : t[p][s] = x
         /\ t[p][Mirror(s)] # x
  BY ParentIs2
<1>5. y \in sub[x] /\ sub[y] \subseteq sub[x] /\ (inner # null => inner \in sub[y])
  BY <1>2, <1>3, KidIs
<1> HIDE DEF inner, y, far
<1>6. p # header => p \notin sub[x]
  <2> SUFFICES ASSUME p # header PROVE p \notin sub[x]
    OBVIOUS
  <2>1. PICK s \in Sides : t[p][s] = x
    BY <1>4
  <2>2. p \in N /\ x # null
    BY <1>4, SelfUnder
  <2> HIDE DEF p
  <2> QED
    BY <2>1, <2>2, KidIs
<1>7. p # y /\ p # inner
  <2>1. y # header /\ inner # header /\ p # null /\ header # null
    BY <1>3, <1>4, SelfUnder, ValuesAre
  <2> QED
    BY <1>6, <1>5, <2>1, <1>3
<1>8. x \in D /\ y \in D /\ (p # header => p \in D) /\ inner \in D \cup {null}
      /\ x \in Int /\ y \in Int /\ inner \in Int /\ p \in Int /\ x # header /\ y # header
      /\ inner # header
  <2>1. x \in N /\ y \in N /\ (p # header => p \in N) /\ inner \in N \cup {null}
    BY <1>3, <1>4
  <2>2. N \subseteq Int /\ header \notin N
    BY ValuesAre DEF Linked
  <2>3. null \in Int /\ header \in Int /\ null # header
    BY DEF null, header
  <2> QED
    BY <2>1, <2>2, <2>3
<1>9. "parent" \in Fields /\ Fits("parent", p) /\ Fits("parent", y) /\ Fits(side, x)
      /\ Fits(far, inner)
  BY <1>8, <1>2 DEF Fits, Sides, Fields
<1> HIDE DEF p
<1> DEFINE F == D \cup {header}
           a1 == Write(t, x, far, inner)
           a2 == SetParent(a1, inner, x)
           a3 == Write(a2, y, "parent", p)
           a4 == Relink(a3, x, y)
           a5 == Write(a4, y, side, x)
           a6 == Write(a5, x, "parent", y)
           a7 == updateNodeCount(a6, x)
           a8 == updateNodeCount(a7, y)
<1>10. rotate(t, x, side) = a8
  BY DEF rotate, Write, far, y, inner, p
<1>11. Wrote(t, a1, D, x, far, inner)
  BY <1>2, <1>8, <1>9, WriteIs
<1> HIDE DEF a1
<1>12. Wrote(a1, a2, D, inner, "parent", x)
  <2>1. TypedTree(a1, D)
    BY <1>11 DEF Wrote
  <2> QED
    BY <2>1, <1>8, SetParentIs
<1> HIDE DEF a2
<1>13. Wrote(a2, a3, D, y, "parent", p)
  BY <1>8, <1>9, <1>12, WriteIs DEF Wrote
<1> HIDE DEF a3
<1>14. \A m \in F, g \in Fields :
            a3[m][g] = IF m = x /\ g = far THEN inner
                       ELSE IF g = "parent" THEN IF m = y THEN p
                                                 ELSE IF m = inner THEN x ELSE t[m][g]
                       ELSE t[m][g]
  BY <1>2, <1>3, <1>11, <1>12, <1>13, <1>8 DEF Wrote
<1>141. \A m \in F :
            a3[m].parent = IF m = y THEN p ELSE IF m = inner THEN x ELSE t[m].parent
  BY <1>14, <1>9, <1>2
<1>15. a3[x].parent = p /\ (p = header <=> root(a3) = x)
       /\ \A s \in Sides : p # header => a3[p][s] = t[p][s]
  <2>1. a3[x].parent = p
    <3>1. x \in F /\ x # inner /\ x # y
      BY <1>8, <1>3, SelfUnder
    <3> QED
      BY <3>1, <1>141 DEF p
  <2>2. root(a3) = root(t)
    BY <1>14, <1>8, <1>9, <1>2 DEF root
  <2>3. ASSUME p # header, NEW s \in Sides PROVE a3[p][s] = t[p][s]
    BY <1>14, <1>8, <1>2, <1>4, <2>3 DEF p
  <2> QED
    BY <2>1, <2>2, <2>3, <1>4 DEF p
<1>16. Relinked(a3, a4, D, x, y)
  <2>1. Hangs(a3, D, x)
    BY <1>15, <1>4, <1>8, MirrorIs DEF p, Hangs
  <2> QED
    BY <2>1, <1>8, <1>13, RelinkIs DEF Wrote
<1> HIDE DEF a4
<1>17. Wrote(a4, a5, D, y, side, x)
  BY <1>2, <1>8, <1>9, <1>16, WriteIs DEF Relinked
<1> HIDE DEF a5
<1>18. Wrote(a5, a6, D, x, "parent", y)
  BY <1>8, <1>9, <1>17, WriteIs DEF Wrote
<1> HIDE DEF a6
<1>19. \A m \in F, s \in Sides :
        a6[m][s] = IF m = x /\ s = far THEN inner
                   ELSE IF m = y /\ s = side THEN x
                   ELSE IF p # header /\ m = p /\ t[p][s] = x THEN y
                   ELSE t[m][s]
  BY <1>2, <1>3, <1>4, <1>7, <1>8, <1>14, <1>15, <1>16, <1>17, <1>18 DEF p, Wrote, Relinked
<1>20. \A m \in F :
        a6[m].parent = IF m = x THEN y ELSE IF m = y THEN p ELSE IF m = inner THEN x
                       ELSE IF m = header /\ p = header THEN y ELSE t[m].parent
  <2> SUFFICES ASSUME NEW m \in F
               PROVE  a6[m].parent =
                        IF m = x THEN y ELSE IF m = y THEN p ELSE IF m = inner THEN x
                        ELSE IF m = header /\ p = header THEN y ELSE t[m].parent
    OBVIOUS
  <2>1. a3[m].parent = IF m = y THEN p ELSE IF m = inner THEN x ELSE t[m].parent
    BY <1>141
  <2>2. a4[m].parent = IF p = header /\ m = header THEN y ELSE a3[m].parent
    BY <1>16, <1>15, <1>9, <1>2 DEF Relinked
  <2>3. a5[m].parent = a4[m].parent
    BY <1>17, <1>9, <1>2 DEF Wrote
  <2>4. a6[m].parent = IF m = x THEN y ELSE a5[m].parent
    BY <1>18, <1>9 DEF Wrote
  <2> QED
    BY <2>1, <2>2, <2>3, <2>4, <1>8
<1>21. \A m \in F, g \in {"is_red", "node_count"} : a6[m][g] = t[m][g]
  <2>1. {"is_red", "node_count"} \subseteq Fields \ (Sides \cup {"parent"})
    BY DEF Fields, Sides
  <2> QED
    BY <2>1, <1>2, <1>14, <1>15, <1>16, <1>17, <1>18 DEF Wrote, Relinked
<1>22. \A s \in Sides : /\ a6[x][s] \in D \cup {null} /\ a6[x][s] \notin {x, y}
                        /\ a6[y][s] \in D \cup {null} /\ a6[y][s] # y
  <2> SUFFICES ASSUME NEW s \in Sides
               PROVE  /\ a6[x][s] \in D \cup {null} /\ a6[x][s] \notin {x, y}
                      /\ a6[y][s] \in D \cup {null} /\ a6[y][s] # y
    OBVIOUS
  <2>1. \A n \in N : t[n][s] \in N \cup {null} /\ t[n][s] # n
    BY KidIs, SelfUnder DEF Linked, KidsFit
  <2>2. x # null /\ y # null /\ t[x][side] # y
    BY <1>3, SelfUnder
  <2>3. a6[x][s] = IF s = far THEN inner ELSE t[x][s]
    BY <1>19, <1>8, <1>3, <1>4 DEF p
  <2>4. a6[y][s] = IF s = side THEN x ELSE t[y][s]
    BY <1>19, <1>8, <1>3, <1>7
  <2> QED
    BY <2>1, <2>2, <2>3, <2>4, <1>2, <1>3, <1>8
<1>23. Wrote(a6, a7, D, x, "node_count", CountsBelow(a6, x))
  <2>1. TypedTree(a6, D)
    BY <1>18 DEF Wrote
  <2> QED
    BY <2>1, <1>8, <1>22, UpdateIs
<1> HIDE DEF a7
<1>24. Wrote(a7, a8, D, y, "node_count", CountsBelow(a7, y))
  <2>1. TypedTree(a7, D)
    BY <1>23 DEF Wrote
  <2>2. \A s \in Sides : a7[y][s] \in D \cup {null}
    BY <1>22, <1>23, <1>2, <1>8 DEF Wrote, Fields, Sides
  <2> QED
    BY <2>1, <2>2, <1>8, UpdateIs
<1> HIDE DEF a8
<1>25. \A m \in F, g \in Fields \ {"node_count"} : a8[m][g] = a6[m][g]
  BY <1>23, <1>24 DEF Wrote
<1>26. \A m \in F : m \notin {x, y} => a8[m].node_count = t[m].node_count
  <2>1. "node_count" \in Fields
    BY DEF Fields
  <2>2. \A m \in F : m \notin {x, y} => a8[m].node_count = a6[m].node_count
    BY <2>1, <1>23, <1>24 DEF Wrote
  <2> QED
    BY <2>2, <1>21
<1>27. \A k \in D \cup {null} : k # y => Count(a8, k) = Count(a7, k)
  <2>1. "node_count" \in Fields
    BY DEF Fields
  <2> QED
    BY <2>1, <1>24 DEF Wrote, Count
<1>28. \A k \in D \cup {null} : k \notin {x, y} => Count(a8, k) = Count(a6, k)
  <2>1. "node_count" \in Fields
    BY DEF Fields
  <2>2. \A k \in D \cup {null} : k # x => Count(a7, k) = Count(a6, k)
    BY <2>1, <1>23 DEF Wrote, Count
  <2> QED
    BY <2>2, <1>27
<1>29. {"left", "right"} \subseteq Fields \ {"node_count"} /\ "left" \in Sides /\ "right" \in Sides
       /\ "node_count" \in Fields
  BY DEF Fields, Sides
<1>30. \A s \in Sides : a8[x][s] = a6[x][s] /\ a8[y][s] = a6[y][s] /\ a7[y][s] = a6[y][s]
  BY <1>25, <1>23, <1>8 DEF Fields, Sides, Wrote
<1>31. a8[x].node_count = CountsBelow(a8, x)
  <2>1. a8[x].node_count = CountsBelow(a6, x)
    BY <1>23, <1>24, <1>29, <1>8, <1>3 DEF Wrote
  <2>2. Count(a8, a8[x].left) = Count(a6, a6[x].left)
        /\ Count(a8, a8[x].right) = Count(a6, a6[x].right)
    BY <1>22, <1>28, <1>29, <1>30
  <2> QED
    BY <2>1, <2>2 DEF CountsBelow
<1>32. a8[y].node_count = CountsBelow(a8, y)
  <2>1. a8[y].node_count = CountsBelow(a7, y)
    BY <1>24, <1>29, <1>8 DEF Wrote
  <2>2. Count(a8, a8[y].left) = Count(a7, a7[y].left)
        /\ Count(a8, a8[y].right) = Count(a7, a7[y].right)
    BY <1>22, <1>27, <1>29, <1>30
  <2> QED
    BY <2>1, <2>2 DEF CountsBelow
<1>33. \A m \in F : /\ a8[m].is_red = t[m].is_red
                    /\ a8[m].parent = a6[m].parent
                    /\ \A s \in Sides : a8[m][s] = a6[m][s]
  <2>1. {"is_red", "parent"} \cup Sides \subseteq Fields \ {"node_count"}
    BY DEF Fields, Sides
  <2> QED
    BY <2>1, <1>21, <1>25
<1>34. TypedTree(a8, D)
  BY <1>24 DEF Wrote
<1>35. Rotated(t, a8, D, x, side)
  BY <1>19, <1>20, <1>26, <1>31, <1>32, <1>33, <1>34 DEF Rotated, far, y, inner, p
<1> QED
  BY <1>10, <1>35

-----------------------------------------------------------------------------
(* Rotation keeps the order *)

\* The subtrees after a rotation.
Turned(t, sub, x, side) ==
    LET y == t[x][Mirror(side)]
    IN  [n \in DOMAIN sub |->
            IF n = y THEN sub[x]
            ELSE IF n = x
            THEN {x} \cup Under(sub, t[x][side]) \cup Under(sub, t[y][side])
            ELSE sub[n]]

\* Off is a strict order on the numbers, its mirror image the opposite one.
LEMMA OffIs ==
    ASSUME NEW side \in Sides, NEW a \in Int, NEW b \in Int
    PROVE  /\ Off(side, a, b) <=> Off(Mirror(side), b, a)
           /\ \A c \in Int : Off(side, a, b) /\ Off(side, b, c) => Off(side, a, c)
           /\ ~Off(side, a, a)
           /\ a # b => Off(side, a, b) \/ Off(side, b, a)
           /\ ~(Off(side, a, b) /\ Off(side, b, a))
BY DEF Off, Mirror, Sides

\* The two children by name.
LEMMA KidsFitBy ==
    ASSUME NEW t, NEW N, NEW sub, NEW n, NEW side \in Sides,
           NEW a, NEW b, t[n][side] = a, t[n][Mirror(side)] = b,
           sub[n] = {n} \cup Under(sub, a) \cup Under(sub, b),
           a # null => a \in N /\ t[a].parent = n,
           b # null => b \in N /\ t[b].parent = n,
           \A m \in Under(sub, a) : Off(side, m, n),
           \A m \in Under(sub, b) : Off(Mirror(side), m, n)
    PROVE  KidsFit(t, N, sub, n)
<1> SUFFICES ASSUME NEW s \in Sides
             PROVE  /\ sub[n] = {n} \cup Under(sub, t[n][s]) \cup Under(sub, t[n][Mirror(s)])
                    /\ t[n][s] # null => t[n][s] \in N /\ t[t[n][s]].parent = n
                    /\ \A m \in Under(sub, t[n][s]) : Off(s, m, n)
  BY DEF KidsFit
<1>1. CASE s = side
  BY <1>1
<1>2. CASE s = Mirror(side)
  <2>1. Mirror(s) = side
    BY <1>2, MirrorIs
  <2> QED
    BY <1>2, <2>1
<1> QED
  BY <1>1, <1>2, MirrorIs

\* A rotation keeps the tree linked and in order: only two subtrees change.
LEMMA RotateLinked ==
    ASSUME NEW t, NEW D, TypedTree(t, D), NEW N, NEW sub, Linked(t, N, sub), N \subseteq D,
           NEW x \in N, NEW side \in Sides, t[x][Mirror(side)] # null,
           NEW u, Rotated(t, u, D, x, side)
    PROVE  Linked(u, N, Turned(t, sub, x, side))
<1> DEFINE far == Mirror(side)
           y == t[x][far]
           inner == t[y][side]
           outer == t[y][far]
           near == t[x][side]
           p == t[x].parent
           sub2 == Turned(t, sub, x, side)
<1>1. far \in Sides /\ far # side /\ Mirror(far) = side /\ \A s \in Sides : s = side \/ s = far
  BY MirrorIs
<1>2. /\ y \in N /\ y # x /\ t[y].parent = x /\ y # near /\ sub[y] \subseteq sub[x]
         /\ x \notin sub[y]
      /\ Off(far, y, x)
  BY <1>1, KidIs
<1>3. inner # null => inner \in N /\ inner # y /\ inner \in sub[y] /\ t[inner].parent = y
                      /\ inner # outer /\ inner # x
  BY <1>1, <1>2, KidIs
<1>4. /\ p = header <=> root(t) = x
      /\ p # header => p \in N /\ p # x /\ \E s \in Sides : t[p][s] = x
  BY ParentIs2
<1>5. p # y
  <2>1. p # header => \E s \in Sides : t[p][s] = x /\ p \in N
    BY <1>4
  <2>2. x # null /\ y # header
    BY <1>2, SelfUnder
  <2>3. y \in sub[x]
    BY <1>1, KidIs
  <2>4. \A q \in N, s \in Sides : t[q][s] = x => q \notin sub[x]
    BY <2>2, KidIs
  <2> QED
    BY <2>1, <2>2, <2>3, <2>4
<1>6. \A n \in N : n # header /\ n # null /\ n \in Int /\ n \in sub[n]
  BY SelfUnder, ValuesAre
<1>7. sub2 \in [N -> SUBSET N]
      /\ sub2[y] = sub[x]
      /\ sub2[x] = {x} \cup Under(sub, near) \cup Under(sub, inner)
      /\ \A n \in N : n \notin {x, y} => sub2[n] = sub[n]
  <2>1. sub \in [N -> SUBSET N]
    BY DEF Linked
  <2>2. near # null => near \in N
    BY KidIs
  <2> QED
    BY <1>2, <1>3, <2>1, <2>2 DEF Turned, Under
<1>8. KidsFit(t, N, sub, x) /\ KidsFit(t, N, sub, y)
  BY <1>2 DEF Linked
<1>9. /\ sub[x] = {x} \cup Under(sub, near) \cup sub[y]
      /\ sub[y] = {y} \cup Under(sub, inner) \cup Under(sub, outer)
      /\ \A m \in Under(sub, near) : Off(side, m, x)
      /\ \A m \in sub[y] : Off(far, m, x)
      /\ \A m \in Under(sub, inner) : Off(side, m, y)
      /\ \A m \in Under(sub, outer) : Off(far, m, y)
      /\ near # null => near \in N /\ t[near].parent = x
      /\ outer # null => outer \in N /\ t[outer].parent = y
  BY <1>1, <1>6, <1>8 DEF KidsFit, Under
<1>10. N \subseteq Values /\ N \subseteq Int /\ N \subseteq D /\ sub \in [N -> SUBSET N]
  BY ValuesAre DEF Linked
<1>11. \A n \in N : Under(sub2, n) = sub2[n] /\ Under(sub, n) = sub[n]
  BY <1>6 DEF Under
<1>12. Under(sub, null) = {} /\ Under(sub2, null) = {}
  BY DEF Under
<1>13. \A m \in N :
            u[m].parent = IF m = x THEN y ELSE IF m = y THEN p
                          ELSE IF m = inner THEN x ELSE t[m].parent
  BY <1>10, <1>6 DEF Rotated
<1>14. \A m \in N, s \in Sides :
            u[m][s] = IF m = x /\ s = far THEN inner
                      ELSE IF m = y /\ s = side THEN x
                      ELSE IF p # header /\ m = p /\ t[p][s] = x THEN y
                      ELSE t[m][s]
  BY <1>10 DEF Rotated
<1>15. root(u) = IF p = header THEN y ELSE root(t)
  <2>1. header # inner
    BY <1>3, <1>6, ValuesAre
  <2> QED
    BY <1>2, <1>6, <2>1 DEF Rotated, root
<1> HIDE DEF sub2, inner, outer, near, p, y, far
<1>16. ASSUME NEW n \in N, n \notin {x, y} PROVE KidsFit(u, N, sub2, n)
  <2>1. KidsFit(t, N, sub, n)
    BY DEF Linked
  <2> SUFFICES ASSUME NEW s \in Sides
               PROVE  /\ sub2[n] = {n} \cup Under(sub2, u[n][s]) \cup Under(sub2, u[n][Mirror(s)])
                      /\ u[n][s] # null => u[n][s] \in N /\ u[u[n][s]].parent = n
                      /\ \A m \in Under(sub2, u[n][s]) : Off(s, m, n)
    BY DEF KidsFit
  <2>2. ASSUME NEW r \in Sides
        PROVE  /\ Under(sub2, u[n][r]) = Under(sub, t[n][r])
               /\ u[n][r] # null => u[n][r] \in N /\ u[u[n][r]].parent = n
    <3>1. t[n][r] # null => t[n][r] \in N /\ t[t[n][r]].parent = n
      BY <2>1 DEF KidsFit
    <3>2. t[n][r] # y /\ (t[n][r] = inner => inner = null)
      BY <1>2, <1>3, <1>6, <3>1, <2>2, <1>16
    <3>3. CASE t[n][r] = x
      <4>1. n = p /\ p # header
        BY <3>1, <3>3, <1>6 DEF p
      <4>2. u[n][r] = y
        BY <4>1, <3>3, <1>14, <1>16
      <4>3. u[y].parent = n
        BY <4>1, <1>13, <1>2
      <4> QED
        BY <4>2, <4>3, <3>3, <1>2, <1>7, <1>11
    <3>4. CASE t[n][r] # x
      <4>1. u[n][r] = t[n][r]
        BY <3>4, <1>14, <1>16
      <4>2. t[n][r] # null => u[t[n][r]].parent = n
        BY <3>1, <3>2, <3>4, <1>13
      <4>3. t[n][r] # null => Under(sub2, t[n][r]) = Under(sub, t[n][r])
        BY <3>1, <3>2, <3>4, <1>7, <1>11
      <4> QED
        BY <4>1, <4>2, <4>3, <3>1, <1>12
    <3> QED
      BY <3>3, <3>4
  <2>3. Mirror(s) \in Sides
    BY MirrorIs
  <2> QED
    BY <2>1, <2>2, <2>3, <1>7, <1>16 DEF KidsFit
<1>17. KidsFit(u, N, sub2, x)
  <2>1. u[x][far] = inner /\ u[x][side] = near
    BY <1>1, <1>14, <1>2, <1>4 DEF near
  <2>2. near # null => near # x /\ near # y /\ near # inner
    BY <1>9, <1>2, <1>3, KidIs DEF near
  <2>3. near # null => u[near].parent = x
    BY <2>2, <1>9, <1>13
  <2>4. inner # null => u[inner].parent = x
    BY <1>3, <1>13
  <2>5. Under(sub2, near) = Under(sub, near) /\ Under(sub2, inner) = Under(sub, inner)
    <3>1. near # null => Under(sub2, near) = Under(sub, near)
      BY <1>7, <1>9, <1>11, <2>2
    <3>2. inner # null => Under(sub2, inner) = Under(sub, inner)
      BY <1>3, <1>7, <1>11
    <3> QED
      BY <3>1, <3>2, <1>12
  <2>6. \A m \in Under(sub, inner) : Off(far, m, x)
    BY <1>9
  <2> QED
    <3>1. Under(sub2, near) = Under(sub, near) /\ Under(sub2, inner) = Under(sub, inner)
      BY <2>5
    <3>2. /\ sub2[x] = {x} \cup Under(sub2, near) \cup Under(sub2, inner)
          /\ \A m \in Under(sub2, near) : Off(side, m, x)
          /\ \A m \in Under(sub2, inner) : Off(far, m, x)
      BY <3>1, <2>6, <1>7, <1>9
    <3> QED
      BY <2>1, <2>3, <2>4, <3>2, <1>1, <1>3, <1>9, KidsFitBy DEF far
<1>18. KidsFit(u, N, sub2, y)
  <2>1. u[y][side] = x /\ u[y][far] = outer
    BY <1>1, <1>14, <1>2, <1>5 DEF outer
  <2>2. outer # null => outer # x /\ outer # y /\ outer # inner
    BY <1>9, <1>2, <1>3, <1>5, <1>1, KidIs DEF outer, p
  <2>3. outer # null => u[outer].parent = y
    BY <2>2, <1>9, <1>13
  <2>4. u[x].parent = y
    BY <1>13
  <2>5. Under(sub2, outer) = Under(sub, outer) /\ Under(sub2, x) = sub2[x]
    <3>1. outer # null => Under(sub2, outer) = Under(sub, outer)
      BY <1>7, <1>9, <1>11, <2>2
    <3> QED
      BY <3>1, <1>11, <1>12
  <2>6. \A m \in sub2[x] : Off(side, m, y)
    <3>1. Off(side, x, y)
      BY <1>2, <1>1, <1>10, OffIs
    <3>2. ASSUME NEW m \in Under(sub, near) PROVE Off(side, m, y)
      <4>1. Off(side, m, x) /\ m \in Int /\ x \in Int /\ y \in Int
        BY <1>9, <1>10, <1>2, <3>2 DEF Under
      <4> QED
        BY <4>1, <3>1, OffIs
    <3> QED
      BY <3>1, <3>2, <1>7, <1>9
  <2>7. sub2[y] = {y} \cup sub2[x] \cup Under(sub, outer)
    BY <1>7, <1>9
  <2> QED
    <3>1. /\ sub2[y] = {y} \cup Under(sub2, x) \cup Under(sub2, outer)
          /\ \A m \in Under(sub2, x) : Off(side, m, y)
          /\ \A m \in Under(sub2, outer) : Off(far, m, y)
      BY <2>5, <2>6, <2>7, <1>9
    <3> QED
      BY <2>1, <2>3, <2>4, <3>1, <1>1, <1>6, <1>9, KidsFitBy DEF far
<1>19. ASSUME NEW n \in N PROVE ParentFits(u, N, n)
  <2>1. CASE n = x
    <3>1. u[x].parent = y /\ u[y][side] = x
      BY <1>13, <1>14, <1>2
    <3> QED
      BY <3>1, <2>1, <1>2, <1>6 DEF ParentFits
  <2>2. CASE n = y
    <3>1. u[y].parent = p
      BY <1>13, <1>2
    <3>2. CASE p = header
      BY <3>1, <3>2, <2>2, <1>15 DEF ParentFits
    <3>3. CASE p # header
      <4>1. PICK s \in Sides : t[p][s] = x
        BY <1>4, <3>3
      <4>2. u[p][s] = y
        BY <4>1, <1>14, <1>4, <1>5, <3>3
      <4> QED
        BY <3>1, <3>3, <2>2, <4>2, <1>4 DEF ParentFits
    <3> QED
      BY <3>2, <3>3
  <2>3. CASE n = inner /\ n \notin {x, y}
    <3>1. u[n].parent = x /\ u[x][far] = n
      BY <2>3, <1>13, <1>14, <1>1
    <3> QED
      BY <3>1, <1>1, <1>6 DEF ParentFits
  <2>4. CASE n \notin {x, y, inner}
    <3>1. u[n].parent = t[n].parent
      BY <2>4, <1>13
    <3>2. ParentFits(t, N, n)
      BY DEF Linked
    <3>3. CASE t[n].parent = header
      BY <3>1, <3>2, <3>3, <1>15, <1>4, <2>4 DEF ParentFits
    <3>4. CASE t[n].parent # header
      <4>1. PICK s \in Sides : t[t[n].parent][s] = n
        BY <3>2, <3>4 DEF ParentFits
      <4>2. t[n].parent \in N
        BY <3>2, <3>4 DEF ParentFits
      <4> DEFINE q == t[n].parent
      <4>3. t[q][s] = n /\ q \in N
        BY <4>1, <4>2
      <4> HIDE DEF q
      <4>4. ~(q = x /\ s = far) /\ ~(q = y /\ s = side)
        BY <4>3, <2>4 DEF y, inner
      <4>5. u[q][s] = n
        BY <4>3, <4>4, <2>4, <1>14
      <4> QED
        BY <3>1, <3>4, <4>3, <4>5 DEF ParentFits, q
    <3> QED
      BY <3>3, <3>4
  <2> QED
    BY <2>1, <2>2, <2>3, <2>4
<1>20. RootFits(u, N, sub2)
  <2>1. RootFits(t, N, sub)
    BY DEF Linked
  <2>2. root(t) # null /\ root(t) \in N /\ t[root(t)].parent = header /\ sub[root(t)] = N
    BY <2>1 DEF RootFits
  <2>3. CASE p = header
    <3>1. root(u) = y /\ u[y].parent = header /\ sub2[y] = N
      BY <2>2, <2>3, <1>15, <1>13, <1>2, <1>7, <1>4
    <3> QED
      BY <3>1, <1>2, <1>6 DEF RootFits
  <2>4. CASE p # header
    <3>1. root(u) = root(t) /\ root(t) # x
      BY <2>4, <1>15, <1>4
    <3>2. root(t) # y /\ root(t) # inner
      BY <2>2, <1>2, <1>3, <1>6
    <3>3. u[root(t)].parent = header /\ sub2[root(t)] = N
      BY <3>1, <3>2, <2>2, <1>13, <1>7
    <3> QED
      BY <3>1, <3>3, <2>2 DEF RootFits
  <2> QED
    BY <2>3, <2>4
<1> QED
  BY <1>7, <1>10, <1>16, <1>17, <1>18, <1>19, <1>20 DEF Linked, sub2

\* Subtrees are finite and no larger than the number of values.
LEMMA FiniteNodes ==
    ASSUME NEW t, NEW N, NEW sub, Linked(t, N, sub)
    PROVE  /\ IsFiniteSet(N) /\ Cardinality(N) \in Nat /\ Cardinality(N) <= MaxValue
           /\ \A n \in N : /\ IsFiniteSet(sub[n]) /\ Cardinality(sub[n]) \in Nat
                           /\ Cardinality(sub[n]) <= MaxValue
                           /\ Cardinality(sub[n]) # 0
<1>1. IsFiniteSet(Values) /\ Cardinality(Values) = MaxValue
  BY SetAssumption, FS_Interval DEF Values
<1>2. \A S \in SUBSET Values : /\ IsFiniteSet(S) /\ Cardinality(S) \in Nat
                               /\ Cardinality(S) <= MaxValue
  BY <1>1, FS_Subset, FS_CardinalityType
<1>3. N \in SUBSET Values /\ \A n \in N : sub[n] \in SUBSET Values
  BY DEF Linked
<1>4. \A n \in N : sub[n] # {}
  BY SelfUnder
<1> QED
  BY <1>2, <1>3, <1>4, FS_EmptySet

\* Induction from the leaves: a set that has a node whenever it has its children.
LEMMA FromLeaves ==
    ASSUME NEW t, NEW N, NEW sub, Linked(t, N, sub), NEW P,
           \A n \in N : (\A s \in Sides : t[n][s] # null => t[n][s] \in P) => n \in P
    PROVE  N \subseteq P
<1> SUFFICES ASSUME NEW a \in N, a \notin P PROVE FALSE
  OBVIOUS
<1> DEFINE Size(n) == Cardinality(sub[n])
           S == {Size(n) : n \in N \ P}
<1>1. S \subseteq Nat /\ S # {}
  BY FiniteNodes
<1>2. PICK k \in S : \A j \in S : k <= j
  <2> HIDE DEF S
  <2> QED
    BY <1>1, LeastElement
<1>3. PICK n \in N \ P : k = Size(n)
  BY <1>2
<1>4. PICK s \in Sides : t[n][s] # null /\ t[n][s] \notin P
  BY <1>3
<1> DEFINE c == t[n][s]
<1>5. c \in N \ P /\ sub[c] \subseteq sub[n] /\ n \notin sub[c] /\ n \in sub[n]
  BY <1>3, <1>4, KidIs, SelfUnder
<1> HIDE DEF c
<1>6. IsFiniteSet(sub[n]) /\ Size(n) \in Nat /\ Size(c) \in Nat
  BY <1>3, <1>5, FiniteNodes
<1>7. Size(c) <= Size(n) /\ Size(c) # Size(n)
  <2>1. sub[c] \in SUBSET sub[n] /\ sub[c] # sub[n]
    BY <1>5
  <2> QED
    BY <2>1, <1>6, FS_Subset
<1>8. Size(c) \in S
  BY <1>5
<1> QED
  BY <1>2, <1>3, <1>6, <1>7, <1>8

\* The subtree of a node below a is part of that of a, and so is its parent, unless
\* it is a itself.
BelowFits(t, N, sub, a) ==
    \A m \in sub[a] : /\ sub[m] \subseteq sub[a]
                      /\ m # a => t[m].parent \in sub[a] /\ a \notin sub[m]

\* Subtrees nest.
LEMMA BelowIs ==
    ASSUME NEW t, NEW N, NEW sub, Linked(t, N, sub), NEW a \in N
    PROVE  BelowFits(t, N, sub, a)
<1> DEFINE P == {n \in N : BelowFits(t, N, sub, n)}
<1>1. ASSUME NEW n \in N, \A s \in Sides : t[n][s] # null => t[n][s] \in P
      PROVE  n \in P
  <2>1. ASSUME NEW m \in sub[n], m # n
        PROVE  sub[m] \subseteq sub[n] /\ t[m].parent \in sub[n] /\ n \notin sub[m]
    <3>1. PICK s \in Sides : t[n][s] # null /\ m \in sub[t[n][s]]
      <4>1. /\ "left" \in Sides /\ Mirror("left") \in Sides
            /\ sub[n] = {n} \cup Under(sub, t[n]["left"]) \cup Under(sub, t[n][Mirror("left")])
        BY DEF Linked, KidsFit, Sides, Mirror
      <4> QED
        BY <4>1, <2>1 DEF Under
    <3> DEFINE c == t[n][s]
    <3>2. c \in P /\ sub[c] \subseteq sub[n] /\ n \in sub[n] /\ t[c].parent = n /\ n \notin sub[c]
      BY <3>1, <1>1, KidIs, SelfUnder
    <3>3. m \in sub[c]
      BY <3>1
    <3> HIDE DEF c
    <3> QED
      BY <3>2, <3>3 DEF BelowFits
  <2> QED
    BY <2>1 DEF BelowFits
<1> HIDE DEF P
<1>2. N \subseteq P
  BY <1>1, FromLeaves
<1> QED
  BY <1>2 DEF P

\* The nodes that m is below are m itself and those that its parent is below.
LEMMA AboveIs ==
    ASSUME NEW t, NEW N, NEW sub, Linked(t, N, sub), NEW m \in N, NEW a \in N
    PROVE  m \in sub[a] <=> a = m \/ (t[m].parent # header /\ t[m].parent \in sub[a])
<1> DEFINE p == t[m].parent
<1>1. m \in sub[m] /\ m \in sub[a] /\ m # a => p \in sub[a]
  BY BelowIs, SelfUnder DEF BelowFits
<1>2. header \notin sub[a]
  BY SelfUnder
<1>3. ASSUME p # header, p \in sub[a] PROVE m \in sub[a]
  <2>1. p \in N /\ \E s \in Sides : t[p][s] = m
    BY <1>3, ParentIs2
  <2>2. m \in sub[p]
    BY <2>1, KidIs, SelfUnder
  <2>3. sub[p] \subseteq sub[a]
    BY <1>3, BelowIs DEF BelowFits
  <2> QED
    BY <2>2, <2>3
<1> QED
  BY <1>1, <1>2, <1>3, SelfUnder

-----------------------------------------------------------------------------
(* Counts *)

Counted(t, sub, n) == t[n].node_count = Cardinality(sub[n])

\* A node counts its subtree when its children count theirs.
LEMMA CountedByKids ==
    ASSUME NEW t, NEW N, NEW sub, Linked(t, N, sub), NEW n \in N,
           \A s \in Sides : t[n][s] # null => Counted(t, sub, t[n][s])
    PROVE  CountsBelow(t, n) = Cardinality(sub[n])
<1> DEFINE l == t[n]["left"]
           r == t[n]["right"]
           L == Under(sub, l)
           R == Under(sub, r)
<1>1. "left" \in Sides /\ "right" \in Sides /\ Mirror("left") = "right" /\ KidsFit(t, N, sub, n)
  BY DEF Sides, Mirror, Linked
<1>2. sub[n] = {n} \cup L \cup R /\ (\A m \in L : m < n) /\ (\A m \in R : n < m)
  BY <1>1 DEF KidsFit, Off
<1>3. IsFiniteSet(sub[n]) /\ sub[n] \subseteq Int /\ n \in Int
  BY FiniteNodes, SelfUnder, ValuesAre DEF Linked
<1>4. Count(t, l) = Cardinality(L) /\ Count(t, r) = Cardinality(R)
  BY <1>1, FS_EmptySet DEF Count, Under, Counted
<1> HIDE DEF L, R, l, r
<1>5. IsFiniteSet(L) /\ IsFiniteSet(R) /\ n \notin L \cup R /\ L \cap R = {}
  BY <1>2, <1>3, FS_Subset
<1>6. /\ IsFiniteSet(L \cup R)
      /\ Cardinality(L \cup R) = Cardinality(L) + Cardinality(R) - Cardinality(L \cap R)
  BY <1>5, FS_Union
<1>7. Cardinality((L \cup R) \cup {n}) = Cardinality(L \cup R) + 1
  BY <1>5, <1>6, FS_AddElement
<1>8. sub[n] = (L \cup R) \cup {n} /\ Cardinality(L \cap R) = 0
  BY <1>2, <1>5, FS_EmptySet
<1>9. Cardinality(L) \in Nat /\ Cardinality(R) \in Nat
  BY <1>5, FS_CardinalityType
<1>10. Cardinality(sub[n]) = Count(t, l) + Count(t, r) + 1
  BY <1>4, <1>6, <1>7, <1>8, <1>9
<1> QED
  BY <1>10 DEF CountsBelow, l, r

\* A rotation keeps the counts.
LEMMA RotateCounted ==
    ASSUME NEW t, NEW D, TypedTree(t, D), NEW N, NEW sub, Linked(t, N, sub), N \subseteq D,
           NEW x \in N, NEW side \in Sides, t[x][Mirror(side)] # null,
           NEW u, Rotated(t, u, D, x, side),
           \A n \in N : Counted(t, sub, n)
    PROVE  \A n \in N : Counted(u, Turned(t, sub, x, side), n)
<1> DEFINE y == t[x][Mirror(side)]
           sub2 == Turned(t, sub, x, side)
<1>1. Linked(u, N, sub2)
  BY RotateLinked
<1>2. y \in N /\ y # x /\ Mirror(side) \in Sides
  BY KidIs, MirrorIs
<1>3. DOMAIN sub = N
  BY DEF Linked
<1>4. ASSUME NEW n \in N, n \notin {x, y} PROVE Counted(u, sub2, n)
  <2>1. u[n].node_count = t[n].node_count
    BY <1>4 DEF Rotated
  <2>2. sub2[n] = sub[n]
    BY <1>4, <1>3 DEF Turned
  <2> QED
    BY <2>1, <2>2 DEF Counted
<1>5. u[x].node_count = CountsBelow(u, x) /\ u[y].node_count = CountsBelow(u, y)
  BY DEF Rotated
<1>6. \A s \in Sides : u[x][s] # null => u[x][s] \in N /\ u[x][s] \notin {x, y}
  <2>1. u[y][side] = x
    BY <1>2, MirrorIs, SelfUnder DEF Rotated
  <2>2. ASSUME NEW s \in Sides, u[x][s] # null PROVE u[x][s] \in N /\ u[x][s] \notin {x, y}
    <3>1. u[x][s] \in N /\ u[x][s] # x /\ u[u[x][s]].parent = x
      BY <1>1, <2>2, KidIs
    <3>2. u[x].parent = y
      BY DEF Rotated
    <3>3. u[x].parent # x /\ u[y].parent # x
      <4>1. x \in sub2[y]
        BY <1>1, <1>2, <2>1, KidIs, SelfUnder
      <4>2. \A s2 \in Sides : u[x][s2] = y => y \in N /\ x \notin sub2[y]
        BY <1>1, <1>2, KidIs, SelfUnder
      <4>3. ASSUME u[y].parent = x PROVE FALSE
        <5>1. x # header
          BY SelfUnder
        <5>2. \E s2 \in Sides : u[x][s2] = y
          BY <4>3, <5>1, <1>1, <1>2, ParentIs2
        <5> QED
          BY <5>2, <4>1, <4>2
      <4> QED
        BY <3>2, <1>2, <4>3
    <3> QED
      BY <3>1, <3>3
  <2> QED
    BY <2>2
<1> HIDE DEF y, sub2
<1>7. Counted(u, sub2, x)
  BY <1>1, <1>4, <1>5, <1>6, CountedByKids DEF Counted
<1>8. Counted(u, sub2, y)
  <2>1. \A s \in Sides : u[y][s] # null => u[y][s] \in N /\ u[y][s] # y
    BY <1>1, <1>2, KidIs
  <2>2. \A s \in Sides : u[y][s] # null => Counted(u, sub2, u[y][s])
    BY <2>1, <1>4, <1>7
  <2> QED
    BY <2>2, <1>1, <1>2, <1>5, CountedByKids DEF Counted
<1> QED
  BY <1>4, <1>7, <1>8 DEF sub2

-----------------------------------------------------------------------------
(* Colours and heights. *)

\* No two red nodes in a row, but where the upper one is in A or the lower in B.
PairAt(t, n, s, A, B) ==
    t[n].is_red /\ t[n][s] # null /\ t[t[n][s]].is_red => n \in A \/ t[n][s] \in B

\* The black height of a place.  The place at side ds of dp, if dp is a node, is one
\* short.
H(bh, n) == IF n = null THEN 0 ELSE bh[n]
Short(n, s, dp, ds) == IF n = dp /\ s = ds THEN 1 ELSE 0
Black(t, n) == IF t[n].is_red THEN 0 ELSE 1

HeightAt(t, bh, n, dp, ds) ==
    \A s \in Sides : bh[n] = H(bh, t[n][s]) + Short(n, s, dp, ds) + Black(t, n)

\* Where links lead after a rotation.
LEMMA RotatedKids ==
    ASSUME NEW t, NEW D, TypedTree(t, D), NEW N, NEW sub, Linked(t, N, sub), N \subseteq D,
           NEW x \in N, NEW side \in Sides, t[x][Mirror(side)] # null,
           NEW u, Rotated(t, u, D, x, side)
    PROVE  LET y == t[x][Mirror(side)]
               p == t[x].parent
           IN  /\ y \in N /\ y # x /\ p # x /\ p # y
               /\ u[x][Mirror(side)] = t[y][side] /\ u[x][side] = t[x][side]
               /\ u[y][side] = x /\ u[y][Mirror(side)] = t[y][Mirror(side)]
               /\ t[x][side] # x /\ t[x][side] # y
               /\ t[y][side] # x /\ t[y][side] # y
               /\ t[y][Mirror(side)] # x /\ t[y][Mirror(side)] # y
               /\ \A n \in N : n \notin {x, y} =>
                    \A s \in Sides :
                        /\ t[n][s] # y
                        /\ u[n][s] = IF t[n][s] = x THEN y ELSE t[n][s]
                        /\ t[n][s] = x => p # header /\ n = p
               /\ u[x].parent = y /\ u[y].parent = p
               /\ root(u) = (IF root(t) = x THEN y ELSE root(t))
               /\ \A n \in N : u[n].is_red = t[n].is_red
<1> DEFINE far == Mirror(side)
           y == t[x][far]
           p == t[x].parent
<1>1. far \in Sides /\ far # side /\ Mirror(far) = side
  BY MirrorIs
<1>2. y \in N /\ y # x /\ t[y].parent = x /\ t[x][side] # y /\ sub[y] \subseteq sub[x]
      /\ x \notin sub[y] /\ y \in sub[x]
  BY <1>1, KidIs
<1>3. \A n \in N, s \in Sides : t[n][s] # null => t[n][s] # n /\ t[n][s] \in N
      /\ t[t[n][s]].parent = n
                                                  /\ n \notin sub[t[n][s]] /\ t[n][s] \in sub[n]
  BY KidIs
<1>4. /\ p = header <=> root(t) = x
      /\ p # header => p \in N /\ p # x /\ \E s \in Sides : t[p][s] = x
  BY ParentIs2
<1>5. \A n \in N : n # null /\ n # header /\ n \in sub[n] /\ n \in D
  BY SelfUnder
<1>6. p # y /\ p # x
  BY <1>2, <1>3, <1>4, <1>5
<1>7. t[y][side] # x /\ t[y][far] # x
  BY <1>1, <1>2, <1>3, <1>5
<1>8. t[x][side] # x /\ t[y][side] # y /\ t[y][far] # y
  BY <1>1, <1>2, <1>3, <1>5
<1>9. ASSUME NEW n \in N, n \notin {x, y}, NEW s \in Sides
      PROVE  /\ t[n][s] # y
             /\ u[n][s] = IF t[n][s] = x THEN y ELSE t[n][s]
             /\ t[n][s] = x => p # header /\ n = p
  <2>1. t[n][s] # y
    BY <1>2, <1>3, <1>5, <1>9
  <2>2. t[n][s] = x => n = p /\ p # header
    BY <1>3, <1>5, <1>9
  <2>3. u[n][s] = IF p # header /\ n = p /\ t[p][s] = x THEN y ELSE t[n][s]
    BY <1>9, <1>5 DEF Rotated
  <2> QED
    BY <2>1, <2>2, <2>3
<1>10. u[x][far] = t[y][side] /\ u[x][side] = t[x][side]
  BY <1>1, <1>2, <1>5, <1>6 DEF Rotated
<1>11. u[y][side] = x /\ u[y][far] = t[y][far]
  BY <1>1, <1>2, <1>5, <1>6 DEF Rotated
<1>12. u[x].parent = y /\ u[y].parent = p
  BY <1>2, <1>5 DEF Rotated
<1>13. root(u) = IF root(t) = x THEN y ELSE root(t)
  <2>1. header # t[y][side]
    BY <1>2, <1>3, <1>5, ValuesAre
  <2>2. root(u) = IF p = header THEN y ELSE root(t)
    BY <2>1, <1>2, <1>5 DEF Rotated, root
  <2> QED
    BY <2>2, <1>4
<1>14. \A n \in N : u[n].is_red = t[n].is_red
  BY <1>5 DEF Rotated
<1> QED
  BY <1>2, <1>6, <1>7, <1>8, <1>9, <1>10, <1>11, <1>12, <1>13, <1>14

SameLinks(t, u, N) ==
    /\ root(u) = root(t)
    /\ \A n \in N : u[n].parent = t[n].parent /\ \A s \in Sides : u[n][s] = t[n][s]

\* Colours and counts do not matter to the links.
LEMMA SameLinked ==
    ASSUME NEW t, NEW u, NEW N, NEW sub, Linked(t, N, sub), SameLinks(t, u, N)
    PROVE  Linked(u, N, sub)
<1>1. ASSUME NEW n \in N PROVE KidsFit(u, N, sub, n) /\ ParentFits(u, N, n)
  <2>1. KidsFit(t, N, sub, n) /\ ParentFits(t, N, n)
    BY DEF Linked
  <2>2. KidsFit(u, N, sub, n)
    <3> SUFFICES ASSUME NEW s \in Sides
                 PROVE  /\ sub[n] = {n} \cup Under(sub, u[n][s]) \cup Under(sub, u[n][Mirror(s)])
                        /\ u[n][s] # null => u[n][s] \in N /\ u[u[n][s]].parent = n
                        /\ \A m \in Under(sub, u[n][s]) : Off(s, m, n)
      BY DEF KidsFit
    <3>1. u[n][s] = t[n][s] /\ u[n][Mirror(s)] = t[n][Mirror(s)]
      BY MirrorIs DEF SameLinks
    <3> QED
      BY <3>1, <2>1 DEF KidsFit, SameLinks
  <2>3. ParentFits(u, N, n)
    BY <2>1 DEF ParentFits, SameLinks
  <2> QED
    BY <2>2, <2>3
<1>2. RootFits(u, N, sub)
  BY DEF RootFits, SameLinks, Linked
<1> QED
  BY <1>1, <1>2 DEF Linked

\* u is t with another colour at n.
PaintedAt(t, u, D, n, c) == Wrote(t, u, D, n, "is_red", c)

Painted(t, n, c) == [t EXCEPT ![n].is_red = c]

\* A colour is one write.
LEMMA PaintIs ==
    ASSUME NEW t, NEW D, TypedTree(t, D), NEW n \in D, NEW c \in BOOLEAN
    PROVE  PaintedAt(t, Painted(t, n, c), D, n, c)
<1>1. Painted(t, n, c) = Write(t, n, "is_red", c)
  BY DEF Write, Painted
<1>2. "is_red" \in Fields /\ Fits("is_red", c)
  BY DEF Fields, Fits
<1>3. Wrote(t, Write(t, n, "is_red", c), D, n, "is_red", c)
  BY <1>2, WriteIs
<1> QED
  BY <1>1, <1>3 DEF PaintedAt

\* What painting and rotations keep of the header, and of the nodes that are not
\* linked.
HeaderKept(t, u) ==
    /\ u[header].is_red = t[header].is_red
    /\ u[header].left = t[header].left
    /\ u[header].right = t[header].right
    /\ u[header].node_count = t[header].node_count

-----------------------------------------------------------------------------
(* updateNodeCountToTop *)

CountRoundsOf(f, first, m) ==
    f = [k \in 0..m |-> IF k = 0 THEN first ELSE countRound(f[k - 1])]

\* The recursion over the rounds of counting is well defined.
LEMMA CountRoundsExist ==
    ASSUME NEW first, NEW m \in Nat
    PROVE  \E f : CountRoundsOf(f, first, m)
<1> DEFINE S == {k \in Nat : \E f : CountRoundsOf(f, first, k)}
<1>1. 0 \in S
  <2> DEFINE g == [n \in 0..0 |-> first]
  <2>1. CountRoundsOf(g, first, 0)
    BY DEF CountRoundsOf
  <2> QED
    BY <2>1
<1>2. ASSUME NEW k \in Nat, k \in S PROVE k + 1 \in S
  <2>1. PICK f : CountRoundsOf(f, first, k)
    BY <1>2
  <2> DEFINE g == [n \in 0..(k + 1) |-> IF n <= k THEN f[n] ELSE countRound(f[k])]
             h == [n \in 0..(k + 1) |-> IF n = 0 THEN first ELSE countRound(g[n - 1])]
  <2>2. \A n \in 0..(k + 1) : g[n] = h[n]
    BY <2>1 DEF CountRoundsOf
  <2>3. g = h
    BY <2>2
  <2> HIDE DEF g
  <2>4. CountRoundsOf(g, first, k + 1)
    BY <2>3 DEF CountRoundsOf
  <2> QED
    BY <2>4
<1> HIDE DEF S
<1>3. m \in S
  BY <1>1, <1>2, Induct
<1> QED
  BY <1>3 DEF S

CountSteps(f) == \A k \in 1..MaxValue : f[k] = countRound(f[k - 1])

\* The rounds of counting start at the node and follow each other.
LEMMA CountRoundsAre ==
    ASSUME NEW t, NEW n
    PROVE  /\ countRounds(t, n)[0] = [tree |-> t, at |-> n]
           /\ CountSteps(countRounds(t, n))
<1> DEFINE f == countRounds(t, n)
           first == [tree |-> t, at |-> n]
<1>1. CountRoundsOf(f, first, MaxValue)
  <2>1. \E g : CountRoundsOf(g, first, MaxValue)
    BY SetAssumption, CountRoundsExist
  <2>2. f = CHOOSE g : CountRoundsOf(g, first, MaxValue)
    BY DEF countRounds, CountRoundsOf
  <2> HIDE DEF f, first
  <2> QED
    BY <2>1, <2>2
<1> HIDE DEF f, first
<1>2. f[0] = first
  BY <1>1, SetAssumption DEF CountRoundsOf
<1>3. ASSUME NEW k \in 1..MaxValue PROVE f[k] = countRound(f[k - 1])
  <2>1. k \in 0..MaxValue /\ k # 0
    BY SetAssumption
  <2> QED
    BY <1>1, <2>1 DEF CountRoundsOf
<1> QED
  BY <1>2, <1>3 DEF f, first, CountSteps

\* u is t but for the counts of nodes.
SameButCounts(t, u, D) ==
    /\ TypedTree(u, D)
    /\ \A m \in D \cup {header}, g \in Fields \ {"node_count"} : u[m][g] = t[m][g]
    /\ u[header].node_count = t[header].node_count

\* Counting changes neither links nor colours nor the header.
LEMMA SameButCountsKeeps ==
    ASSUME NEW t, NEW D, NEW u, SameButCounts(t, u, D), NEW N, N \subseteq D
    PROVE  /\ SameLinks(t, u, N)
           /\ HeaderKept(t, u)
           /\ \A m \in D \cup {header} : u[m].is_red = t[m].is_red
<1>1. {"parent", "left", "right", "is_red"} \cup Sides \subseteq Fields \ {"node_count"}
  BY DEF Fields, Sides
<1>2. /\ \A m \in D \cup {header}, g \in Fields \ {"node_count"} : u[m][g] = t[m][g]
      /\ u[header].node_count = t[header].node_count
  BY DEF SameButCounts
<1>3. \A m \in D \cup {header} :
        /\ u[m].is_red = t[m].is_red /\ u[m].parent = t[m].parent
        /\ u[m].left = t[m].left /\ u[m].right = t[m].right
        /\ \A s \in Sides : u[m][s] = t[m][s]
  BY <1>1, <1>2
<1> QED
  BY <1>2, <1>3 DEF SameLinks, HeaderKept, root

\* Counts are right but above the node n, or everywhere when n is the header.
CountedBut(t, N, sub, n) ==
    \A m \in N : n = header \/ n \notin sub[m] => Counted(t, sub, m)

CountAfter(t, D, N, sub, k, s) ==
    /\ SameButCounts(t, s.tree, D)
    /\ CountedBut(s.tree, N, sub, s.at)
    /\ s.at = header \/ (s.at \in N /\ Cardinality(sub[s.at]) > k)

\* A round puts one more count right and goes up by one node.
LEMMA CountRoundIs ==
    ASSUME NEW t, NEW D, TypedTree(t, D), NEW N, NEW sub, Linked(t, N, sub), N \subseteq D,
           NEW k \in Nat, NEW s, CountAfter(t, D, N, sub, k, s)
    PROVE  CountAfter(t, D, N, sub, k + 1, countRound(s))
<1> DEFINE a == s.at
           v == s.tree
           p == v[a].parent
           u == updateNodeCount(v, a)
<1>1. CASE a = header
  BY <1>1 DEF CountAfter, countRound
<1>2. CASE a # header
  <2>1. a \in N /\ Cardinality(sub[a]) > k /\ SameButCounts(t, v, D) /\ CountedBut(v, N, sub, a)
    BY <1>2 DEF CountAfter
  <2>2. TypedTree(v, D) /\ Linked(v, N, sub) /\ a \in D
    BY <2>1, SameButCountsKeeps, SameLinked DEF SameButCounts
  <2> HIDE DEF a, v
  <2>3. \A r \in Sides : v[a][r] # null => v[a][r] \in N /\ v[a][r] # a /\ a \notin sub[v[a][r]]
    BY <2>1, <2>2, KidIs
  <2>4. CountsBelow(v, a) = Cardinality(sub[a])
    BY <2>1, <2>2, <2>3, CountedByKids DEF CountedBut
  <2>5. Wrote(v, u, D, a, "node_count", CountsBelow(v, a))
    BY <2>2, <2>3, UpdateIs
  <2>6. "node_count" \in Fields /\ a # header
    BY <1>2 DEF Fields, a
  <2> HIDE DEF u
  <2>7. TypedTree(u, D) /\ u[header].node_count = v[header].node_count
        /\ \A m \in D : u[m].node_count = IF m = a THEN CountsBelow(v, a) ELSE v[m].node_count
    BY <2>5, <2>6 DEF Wrote
  <2>8. SameButCounts(t, u, D)
    BY <2>1, <2>5, <2>7 DEF SameButCounts, Wrote
  <2>9. CountedBut(u, N, sub, p)
    <3> SUFFICES ASSUME NEW m \in N, p = header \/ p \notin sub[m] PROVE Counted(u, sub, m)
      BY DEF CountedBut
    <3>1. CASE m = a
      BY <3>1, <2>4, <2>7, <2>2 DEF Counted
    <3>2. CASE m # a
      <4>1. a \notin sub[m]
        BY <2>1, <2>2, <3>2, AboveIs
      <4> QED
        BY <3>2, <4>1, <2>1, <2>7 DEF CountedBut, Counted
    <3> QED
      BY <3>1, <3>2
  <2>10. p = header \/ (p \in N /\ Cardinality(sub[p]) > k + 1)
    <3> SUFFICES ASSUME p # header PROVE p \in N /\ Cardinality(sub[p]) > k + 1
      OBVIOUS
    <3>1. p \in N /\ p # a /\ \E r \in Sides : v[p][r] = a
      BY <2>1, <2>2, ParentIs2
    <3> HIDE DEF p
    <3>2. sub[a] \subseteq sub[p] /\ p \notin sub[a] /\ p \in sub[p]
      BY <2>1, <2>2, <3>1, KidIs, SelfUnder
    <3>3. IsFiniteSet(sub[p]) /\ Cardinality(sub[p]) \in Nat /\ Cardinality(sub[a]) \in Nat
      BY <2>1, <2>2, <3>1, FiniteNodes
    <3>4. Cardinality(sub[a]) <= Cardinality(sub[p]) /\ Cardinality(sub[a]) # Cardinality(sub[p])
      BY <3>2, <3>3, FS_Subset
    <3> QED
      BY <2>1, <3>1, <3>3, <3>4
  <2>11. countRound(s) = [tree |-> u, at |-> p]
    BY <1>2 DEF countRound, u, p, a, v
  <2> QED
    BY <2>8, <2>9, <2>10, <2>11 DEF CountAfter
<1> QED
  BY <1>1, <1>2

\* updateNodeCountToTop puts every count right when only those above n were wrong.
LEMMA CountToTopIs ==
    ASSUME NEW t, NEW D, TypedTree(t, D), NEW N, NEW sub, Linked(t, N, sub), N \subseteq D,
           NEW n \in N \cup {header}, CountedBut(t, N, sub, n)
    PROVE  LET u == updateNodeCountToTop(t, n)
           IN  SameButCounts(t, u, D) /\ \A m \in N : Counted(u, sub, m)
<1> DEFINE f == countRounds(t, n)
           S == {k \in Nat : k <= MaxValue => CountAfter(t, D, N, sub, k, f[k])}
<1>1. 0 \in S
  <2>1. SameButCounts(t, t, D)
    BY DEF SameButCounts
  <2>2. n \in N => Cardinality(sub[n]) > 0
    BY FiniteNodes
  <2>3. f[0] = [tree |-> t, at |-> n]
    BY CountRoundsAre
  <2> QED
    BY <2>1, <2>2, <2>3 DEF CountAfter
<1>2. ASSUME NEW k \in Nat, k \in S PROVE k + 1 \in S
  <2> SUFFICES ASSUME k + 1 <= MaxValue PROVE CountAfter(t, D, N, sub, k + 1, f[k + 1])
    OBVIOUS
  <2>1. CountAfter(t, D, N, sub, k, f[k])
    BY <1>2, SetAssumption
  <2>2. f[k + 1] = countRound(f[k])
    <3> DEFINE j == k + 1
    <3>1. j \in 1..MaxValue /\ j - 1 = k
      BY SetAssumption
    <3>2. CountSteps(f)
      BY CountRoundsAre
    <3> HIDE DEF j, f
    <3>3. f[j] = countRound(f[j - 1])
      BY <3>1, <3>2 DEF CountSteps
    <3> QED
      BY <3>1, <3>3 DEF j
  <2> HIDE DEF f
  <2> QED
    BY <2>1, <2>2, CountRoundIs
<1>3. CountAfter(t, D, N, sub, MaxValue, f[MaxValue])
  <2> HIDE DEF S
  <2>1. MaxValue \in S
    BY <1>1, <1>2, SetAssumption, Induct
  <2> QED
    BY <2>1, SetAssumption DEF S
<1> DEFINE last == f[MaxValue]
<1>4. last.at = header
  <2>1. last.at = header \/ (last.at \in N /\ Cardinality(sub[last.at]) > MaxValue)
    BY <1>3 DEF CountAfter
  <2> HIDE DEF last
  <2>2. last.at \in N => Cardinality(sub[last.at]) <= MaxValue /\ Cardinality(sub[last.at]) \in Nat
    BY FiniteNodes
  <2> QED
    BY <2>1, <2>2, SetAssumption
<1>5. updateNodeCountToTop(t, n) = last.tree
  BY DEF updateNodeCountToTop
<1> QED
  BY <1>3, <1>4, <1>5 DEF CountAfter, CountedBut

-----------------------------------------------------------------------------
(* Reading the tree *)

\* Induction from the root: a set that has a node whenever it has its parent.
LEMMA FromRoot ==
    ASSUME NEW t, NEW N, NEW sub, Linked(t, N, sub), NEW P,
           \A n \in N : (t[n].parent = header \/ t[n].parent \in P) => n \in P
    PROVE  N \subseteq P
<1> SUFFICES ASSUME NEW a \in N, a \notin P PROVE FALSE
  OBVIOUS
<1> DEFINE Lack(n) == MaxValue - Cardinality(sub[n])
           S == {Lack(n) : n \in N \ P}
<1>1. S \subseteq Nat /\ S # {}
  BY FiniteNodes, SetAssumption
<1>2. PICK k \in S : \A j \in S : k <= j
  <2> HIDE DEF S
  <2> QED
    BY <1>1, LeastElement
<1>3. PICK n \in N \ P : k = Lack(n)
  BY <1>2
<1> DEFINE p == t[n].parent
<1>4. p # header /\ p \notin P
  BY <1>3
<1>5. p \in N /\ \E s \in Sides : t[p][s] = n
  BY <1>3, <1>4, ParentIs2
<1> HIDE DEF p
<1>6. sub[n] \subseteq sub[p] /\ p \notin sub[n] /\ p \in sub[p]
  BY <1>3, <1>5, KidIs, SelfUnder
<1>7. IsFiniteSet(sub[p]) /\ Cardinality(sub[p]) \in Nat /\ Cardinality(sub[n]) \in Nat
  BY <1>3, <1>5, FiniteNodes
<1>8. Cardinality(sub[n]) <= Cardinality(sub[p]) /\ Cardinality(sub[n]) # Cardinality(sub[p])
  BY <1>6, <1>7, FS_Subset
<1>9. Lack(p) \in S
  BY <1>4, <1>5
<1>10. Lack(p) < Lack(n)
  BY <1>7, <1>8, SetAssumption
<1>11. Lack(p) \in Int /\ Lack(n) \in Int
  BY <1>7, SetAssumption
<1> HIDE DEF Lack, S
<1> QED
  BY <1>2, <1>3, <1>9, <1>10, <1>11

\* A node outside of a subtree is on one side of all of it.
Outside(sub, N, a) ==
    \A e \in N \ sub[a] : \E s \in Sides : \A m \in sub[a] : Off(s, e, m)

\* A node that is not in a subtree is on one side of all of it.
LEMMA OutsideIs ==
    ASSUME NEW t, NEW N, NEW sub, Linked(t, N, sub), NEW a \in N
    PROVE  Outside(sub, N, a)
<1> DEFINE P == {n \in N : Outside(sub, N, n)}
<1>1. ASSUME NEW n \in N, t[n].parent = header \/ t[n].parent \in P PROVE n \in P
  <2> SUFFICES ASSUME NEW e \in N \ sub[n]
               PROVE  \E s \in Sides : \A m \in sub[n] : Off(s, e, m)
    BY DEF Outside
  <2>1. CASE t[n].parent = header
    <3>1. sub[n] = N
      BY <2>1, ParentIs2 DEF Linked, RootFits
    <3> QED
      BY <3>1
  <2>2. CASE t[n].parent # header
    <3> DEFINE p == t[n].parent
    <3>1. PICK s \in Sides : t[p][s] = n
      BY <2>2, ParentIs2
    <3>2. p \in N /\ p \in P /\ n # null /\ N \subseteq Int
      BY <2>2, <1>1, ParentIs2, SelfUnder, ValuesAre DEF Linked
    <3> HIDE DEF p
    <3>3. sub[n] \subseteq sub[p] /\ KidsFit(t, N, sub, p) /\ sub[n] \subseteq N
      BY ZenonT(40), <3>1, <3>2, KidIs, SelfUnder DEF Linked
    <3>4. CASE e \notin sub[p]
      BY <3>2, <3>3, <3>4 DEF Outside
    <3>5. CASE e \in sub[p]
      <4>1. \A m \in sub[n] : Off(s, m, p)
        BY <3>1, <3>2, <3>3 DEF KidsFit, Under
      <4>2. e = p \/ Off(Mirror(s), e, p)
        BY <3>1, <3>2, <3>3, <3>5, MirrorIs DEF KidsFit, Under
      <4>3. ASSUME NEW m \in sub[n] PROVE Off(Mirror(s), e, m)
        <5>1. m \in Int /\ e \in Int /\ p \in Int /\ Off(s, m, p) /\ Mirror(s) \in Sides
          BY <3>2, <3>3, <4>1, MirrorIs
        <5>2. Off(Mirror(s), p, m)
          BY <5>1, OffIs
        <5> QED
          BY <4>2, <5>1, <5>2, OffIs
      <4>4. Mirror(s) \in Sides
        BY MirrorIs
      <4> QED
        BY <4>3, <4>4
    <3> QED
      BY <3>4, <3>5
  <2> QED
    BY <2>1, <2>2
<1> HIDE DEF P
<1>2. N \subseteq P
  BY <1>1, FromRoot
<1> QED
  BY <1>2 DEF P

-----------------------------------------------------------------------------
(* Walks *)

WalkOf(f, next, start, m) ==
    f = [k \in 0..m |-> IF k = 0 THEN start ELSE StepOf(next, f[k - 1])]

\* The recursion of a walk is well defined.
LEMMA WalkExists ==
    ASSUME NEW next, NEW start, NEW m \in Nat
    PROVE  \E f : WalkOf(f, next, start, m)
<1> DEFINE S == {k \in Nat : \E f : WalkOf(f, next, start, k)}
<1>1. 0 \in S
  <2> DEFINE g == [n \in 0..0 |-> start]
  <2>1. WalkOf(g, next, start, 0)
    BY DEF WalkOf
  <2> QED
    BY <2>1
<1>2. ASSUME NEW k \in Nat, k \in S PROVE k + 1 \in S
  <2>1. PICK f : WalkOf(f, next, start, k)
    BY <1>2
  <2> DEFINE g == [n \in 0..(k + 1) |-> IF n <= k THEN f[n] ELSE StepOf(next, f[k])]
             h == [n \in 0..(k + 1) |-> IF n = 0 THEN start ELSE StepOf(next, g[n - 1])]
  <2>2. \A n \in 0..(k + 1) : g[n] = h[n]
    BY <2>1 DEF WalkOf
  <2>3. g = h
    BY <2>2
  <2> HIDE DEF g
  <2>4. WalkOf(g, next, start, k + 1)
    BY <2>3 DEF WalkOf
  <2> QED
    BY <2>4
<1> HIDE DEF S
<1>3. m \in S
  BY <1>1, <1>2, Induct
<1> QED
  BY <1>3 DEF S

\* A walk that stays in S, and on which rank falls, ends in S.
LEMMA WalkEnds ==
    ASSUME NEW next, NEW start, NEW S, start \in S,
           NEW rank, \A s \in S : rank[s] \in 0..(MaxValue + 1),
           \A s \in S : s \in DOMAIN next => next[s] \in S /\ rank[next[s]] < rank[s]
    PROVE  Walk(next, start) \in S /\ Walk(next, start) \notin DOMAIN next
<1> DEFINE m == MaxValue + 1
           f == CHOOSE g : WalkOf(g, next, start, m)
<1>1. m \in Nat
  BY SetAssumption
<1>2. Walk(next, start) = f[m]
  BY DEF Walk, WalkOf
<1> HIDE DEF m
<1>3. WalkOf(f, next, start, m)
  BY <1>1, WalkExists
<1> HIDE DEF f
<1> DEFINE Left(s, k) == s \in S /\ (s \in DOMAIN next => rank[s] + k <= m)
           T == {k \in Nat : k <= m => Left(f[k], k)}
<1>4. 0 \in T
  <2>1. f[0] = start
    BY <1>1, <1>3 DEF WalkOf
  <2>2. rank[start] \in 0..m
    BY DEF m
  <2> QED
    BY <2>1, <2>2, <1>1
<1>5. ASSUME NEW k \in Nat, k \in T PROVE k + 1 \in T
  <2> SUFFICES ASSUME k + 1 <= m PROVE Left(f[k + 1], k + 1)
    OBVIOUS
  <2> DEFINE j == k + 1
  <2>1. j \in 0..m /\ j # 0 /\ j - 1 = k
    BY <1>1
  <2> HIDE DEF j
  <2>2. f[j] = StepOf(next, f[j - 1])
    BY <1>3, <2>1 DEF WalkOf
  <2>3. f[k + 1] = StepOf(next, f[k])
    BY <2>1, <2>2 DEF j
  <2>4. Left(f[k], k)
    BY <1>5, <1>1
  <2> DEFINE a == f[k]
             b == f[k + 1]
  <2>5. a \in S /\ (a \in DOMAIN next => rank[a] + k <= m) /\ b = StepOf(next, a)
    BY <2>3, <2>4
  <2> HIDE DEF a, b
  <2>6. CASE a \in DOMAIN next
    <3>1. b \in S /\ rank[b] < rank[a] /\ rank[a] \in 0..(MaxValue + 1)
          /\ rank[b] \in 0..(MaxValue + 1)
      BY <2>5, <2>6 DEF StepOf
    <3> QED
      BY <3>1, <2>5, <2>6, <1>1, SetAssumption DEF b
  <2>7. CASE a \notin DOMAIN next
    BY <2>5, <2>7 DEF StepOf, b
  <2> QED
    BY <2>6, <2>7
<1>6. Left(f[m], m)
  <2> HIDE DEF T
  <2>1. m \in T
    BY <1>1, <1>4, <1>5, Induct
  <2> QED
    BY <2>1, <1>1 DEF T
<1> DEFINE last == f[m]
<1>7. last \in S /\ (last \in DOMAIN next => rank[last] + m <= m)
  BY <1>6
<1> HIDE DEF last
<1>8. ASSUME last \in DOMAIN next PROVE FALSE
  <2>1. next[last] \in S /\ rank[next[last]] < rank[last]
    BY <1>7, <1>8
  <2>2. rank[next[last]] \in 0..(MaxValue + 1) /\ rank[last] \in 0..(MaxValue + 1)
    BY <1>7, <2>1
  <2> QED
    BY <1>1, <1>7, <1>8, <2>1, <2>2, SetAssumption
<1> QED
  BY <1>2, <1>7, <1>8 DEF last

\* What a linked tree says of its nodes as numbers.
LEMMA Plain ==
    ASSUME NEW t, NEW N, NEW sub, Linked(t, N, sub)
    PROVE  /\ N \subseteq Int /\ N \subseteq Values
           /\ header \notin N /\ null \notin N /\ null # header
           /\ \A n \in N : n \in sub[n] /\ sub[n] \subseteq N
BY ValuesAre, SelfUnder DEF Linked

\* a is the element of S that is farthest on this side; the header when S is empty.
ExtremeIs(side, S, a) ==
    IF S = {} THEN a = header
    ELSE a \in S /\ \A e \in S : e = a \/ Off(side, a, e)

\* What is on this side of n.
Beyond(side, N, n) == {e \in N : Off(side, e, n)}

\* Going as far as possible to one side ends at the extreme node of the subtree.
LEMMA FurthestIs ==
    ASSUME NEW t, NEW D, TypedTree(t, D), NEW N, NEW sub, Linked(t, N, sub), N \subseteq D,
           NEW n \in N, NEW side \in Sides
    PROVE  LET a == Furthest(t, n, side)
           IN  /\ a \in sub[n] /\ t[a][side] = null
               /\ ExtremeIs(side, sub[n], a)
<1> DEFINE far == Mirror(side)
           next == [m \in {m \in Nodes(t) : t[m][side] # null} |-> t[m][side]]
           S == {m \in sub[n] : \A e \in sub[n] \ sub[m] : Off(far, e, m)}
           rank == [m \in N |-> Cardinality(sub[m])]
           a == Walk(next, n)
<1>1. sub[n] \subseteq N /\ n \in sub[n] /\ N \subseteq Int /\ far \in Sides /\ Mirror(far) = side
  BY SelfUnder, MirrorIs, ValuesAre DEF Linked
<1>2. N \subseteq Nodes(t)
  BY ValuesAre DEF TypedTree, Nodes, Linked
<1>3. n \in S
  BY <1>1
<1>4. \A s \in S : rank[s] \in 0..(MaxValue + 1)
  BY <1>1, FiniteNodes, SetAssumption
<1>5. ASSUME NEW m \in S, m \in DOMAIN next
      PROVE  next[m] \in S /\ rank[next[m]] < rank[m]
  <2> DEFINE k == t[m][side]
  <2>1. m \in N /\ k # null /\ next[m] = k
    BY <1>1, <1>5
  <2>2. k \in N /\ sub[k] \subseteq sub[m] /\ m \notin sub[k] /\ Off(side, k, m) /\ k \in sub[m]
        /\ m \in sub[m]
    BY <2>1, KidIs, SelfUnder
  <2>3. sub[m] \subseteq sub[n]
    BY BelowIs DEF BelowFits
  <2>4. sub[m] = {m} \cup Under(sub, k) \cup Under(sub, t[m][far])
        /\ \A e \in Under(sub, t[m][far]) : Off(far, e, m)
    BY <2>1, <1>1 DEF Linked, KidsFit
  <2> HIDE DEF k
  <2>5. ASSUME NEW e \in sub[n] \ sub[k] PROVE Off(far, e, k)
    <3>1. e \in Int /\ k \in Int /\ m \in Int /\ Off(far, m, k)
      BY ZenonT(40), <1>1, <2>1, <2>2, OffIs
    <3>2. e = m \/ Off(far, e, m)
      BY <2>1, <2>4, <2>5 DEF Under
    <3> QED
      BY <3>1, <3>2, <1>1, OffIs
  <2>6. Cardinality(sub[k]) < Cardinality(sub[m])
    <3>1. sub[k] \in SUBSET sub[m] /\ sub[k] # sub[m]
      BY <2>2
    <3>2. IsFiniteSet(sub[m]) /\ Cardinality(sub[m]) \in Nat /\ Cardinality(sub[k]) \in Nat
      BY <2>1, <2>2, FiniteNodes
    <3> QED
      BY <3>1, <3>2, FS_Subset
  <2> QED
    BY <2>1, <2>2, <2>3, <2>5, <2>6
<1> HIDE DEF next
<1>6. a \in S /\ a \notin DOMAIN next
  <2> HIDE DEF S, rank
  <2> QED
    BY <1>3, <1>4, <1>5, WalkEnds
<1>7. Furthest(t, n, side) = a
  BY DEF Furthest, next
<1> HIDE DEF a
<1>8. a \in N /\ t[a][side] = null
  BY <1>1, <1>2, <1>6 DEF next
<1>9. ASSUME NEW e \in sub[n], e # a PROVE Off(side, a, e)
  <2>1. e \in Int /\ a \in Int
    BY <1>1, <1>8
  <2>2. Off(far, e, a)
    <3>1. sub[a] = {a} \cup Under(sub, t[a][side]) \cup Under(sub, t[a][far])
          /\ \A m \in Under(sub, t[a][far]) : Off(far, m, a)
      BY <1>8, <1>1 DEF Linked, KidsFit
    <3> QED
      BY <3>1, <1>6, <1>8, <1>9 DEF Under
  <2> QED
    BY <2>1, <2>2, <1>1, OffIs
<1> QED
  BY <1>6, <1>7, <1>8, <1>9 DEF ExtremeIs

\* The node above n that has n on the other side.
LEMMA ClimbIs ==
    ASSUME NEW t, NEW D, TypedTree(t, D), NEW N, NEW sub, Linked(t, N, sub), N \subseteq D,
           NEW n \in N, NEW side \in Sides, t[n][side] = null
    PROVE  ExtremeIs(Mirror(side), Beyond(side, N, n), Climb(t, n, side))
<1> DEFINE far == Mirror(side)
           next == [m \in {m \in DOMAIN t : t[t[m].parent][side] = m} |-> t[m].parent]
           Last(m) == \A e \in Under(sub, m) : e = n \/ Off(far, e, n)
           S == {m \in N : n \in sub[m] /\ Last(m)}
                \cup {m \in {header} : t[header][side] = root(t)
                    /\ \A e \in N : e = n \/ Off(far, e, n)}
           rank == [m \in N \cup {header} |-> IF m = header THEN 0 ELSE MaxValue + 1 - Cardinality(sub[m])]
           top == Walk(next, n)
<1>1. sub[n] \subseteq N /\ n \in sub[n] /\ N \subseteq Int /\ far \in Sides /\ Mirror(far) = side
      /\ header \notin N /\ null \notin N /\ null # header
      /\ \A s \in Sides : s = side \/ s = far
  BY Plain, MirrorIs
<1>2. N \subseteq DOMAIN t
  BY ValuesAre DEF TypedTree, Linked
<1>3. n \in S
  <2>1. sub[n] = {n} \cup Under(sub, null) \cup Under(sub, t[n][far])
        /\ \A e \in Under(sub, t[n][far]) : Off(far, e, n)
    BY <1>1 DEF Linked, KidsFit
  <2> QED
    BY <2>1, <1>1 DEF Under
<1>4. \A s \in S : rank[s] \in 0..(MaxValue + 1)
  BY <1>1, FiniteNodes, SetAssumption
<1>5. ASSUME NEW m \in S, m \in DOMAIN next
      PROVE  next[m] \in S /\ rank[next[m]] < rank[m]
  <2> DEFINE p == t[m].parent
  <2>1. next[m] = p /\ t[p][side] = m
    BY <1>5
  <2>2. m \in N
    <3> SUFFICES ASSUME m = header PROVE FALSE
      OBVIOUS
    <3>1. root(t) \in N /\ t[root(t)][side] = header
      <4>1. t[root(t)][side] = header
        BY <2>1 DEF root
      <4>2. root(t) \in N
        BY DEF Linked, RootFits
      <4> QED
        BY <4>1, <4>2
    <3> HIDE DEF root
    <3> QED
      BY <3>1, <1>1 DEF Linked, KidsFit
  <2>3. /\ p = header <=> root(t) = m
        /\ p # header => p \in N
    BY <2>2, ParentIs2
  <2> HIDE DEF p
  <2>4. CASE p = header
    <3>1. sub[m] = N /\ t[header][side] = root(t)
      BY <2>1, <2>2, <2>3, <2>4, <1>1 DEF Linked, RootFits
    <3>2. \A e \in N : e = n \/ Off(far, e, n)
      BY <3>1, <2>2, <1>1 DEF Under
    <3>3. rank[m] \in Nat /\ rank[m] # 0
      BY <2>2, FiniteNodes, SetAssumption, <1>1
    <3> QED
      BY <2>1, <2>4, <3>1, <3>2, <3>3
  <2>5. CASE p # header
    <3>1. p \in N /\ sub[m] \subseteq sub[p] /\ p \notin sub[m] /\ p \in sub[p] /\ n \in sub[m]
          /\ \A e \in sub[m] : e = n \/ Off(far, e, n)
      BY <2>1, <2>2, <2>3, <2>5, <1>1, KidIs, SelfUnder DEF Under
    <3>2. sub[p] = {p} \cup Under(sub, m) \cup Under(sub, t[p][far])
          /\ (\A e \in Under(sub, m) : Off(side, e, p))
          /\ (\A e \in Under(sub, t[p][far]) : Off(far, e, p))
      <4>1. KidsFit(t, N, sub, p)
        BY <3>1 DEF Linked
      <4> QED
        BY <4>1, <2>1, <1>1 DEF KidsFit
    <3>3. m # null /\ Off(side, n, p) /\ p \in Int /\ n \in Int
      BY <3>1, <3>2, <2>2, <1>1 DEF Under
    <3>4. ASSUME NEW e \in sub[p] PROVE e = n \/ Off(far, e, n)
      <4>1. e \in Int /\ Off(far, p, n)
        BY <3>1, <3>3, <1>1, OffIs, SelfUnder
      <4>2. CASE e \in sub[m]
        BY <4>2, <3>1
      <4>3. CASE e \notin sub[m]
        <5>1. e = p \/ Off(far, e, p)
          BY <3>2, <3>3, <4>3 DEF Under
        <5> QED
          BY <5>1, <4>1, <3>3, <1>1, OffIs
      <4> QED
        BY <4>2, <4>3
    <3>5. p \in S
      BY <3>1, <3>4, <1>1 DEF Under
    <3>6. Cardinality(sub[m]) < Cardinality(sub[p])
      <4>1. sub[m] \in SUBSET sub[p] /\ sub[m] # sub[p]
        BY <3>1
      <4>2. IsFiniteSet(sub[p]) /\ Cardinality(sub[p]) \in Nat /\ Cardinality(sub[m]) \in Nat
        BY <2>2, <3>1, FiniteNodes
      <4> QED
        BY <4>1, <4>2, FS_Subset
    <3>7. rank[p] < rank[m]
      <4>1. Cardinality(sub[p]) \in Nat /\ Cardinality(sub[m]) \in Nat /\ p # header /\ m # header
        BY <2>2, <3>1, <1>1, FiniteNodes
      <4> QED
        BY <3>1, <2>2, <3>6, <4>1, SetAssumption
    <3> QED
      BY <2>1, <3>5, <3>7
  <2> QED
    BY <2>4, <2>5
<1> HIDE DEF next
<1>6. top \in S /\ top \notin DOMAIN next
  <2> HIDE DEF S, rank
  <2> QED
    BY <1>3, <1>4, <1>5, WalkEnds
<1>7. Climbed(t, n, side) = top
  BY DEF Climbed, next
<1> HIDE DEF top
<1> DEFINE p == t[top].parent
<1>8. Climb(t, n, side) = IF t[top][side] # p THEN p ELSE top
  BY <1>7 DEF Climb
<1>9. CASE top = header
  <2>1. t[header][side] = root(t) /\ \A e \in N : e = n \/ Off(far, e, n)
    BY <1>6, <1>9, <1>1
  <2>2. Climb(t, n, side) = header
    BY <2>1, <1>8, <1>9 DEF root
  <2>3. Beyond(side, N, n) = {}
    BY <2>1, <1>1, OffIs DEF Beyond
  <2> QED
    BY <2>2, <2>3 DEF ExtremeIs
<1>10. CASE top # header
  <2>1. top \in N /\ n \in sub[top] /\ \A e \in sub[top] : e = n \/ Off(far, e, n)
    BY <1>6, <1>10, <1>1 DEF Under
  <2>2. t[p][side] # top
    BY <2>1, <1>2, <1>6 DEF next
  <2>3. /\ p = header <=> root(t) = top
        /\ p # header => p \in N /\ \E s \in Sides : t[p][s] = top /\ t[p][Mirror(s)] # top
    BY <2>1, ParentIs2
  <2>4. t[top][side] # p
    <3>1. t[top][side] # null => t[top][side] \in N /\ t[t[top][side]].parent = top
          /\ t[top][side] \in sub[top]
      BY <2>1, KidIs, SelfUnder
    <3>2. ASSUME p \in N PROVE p \notin sub[top]
      <4>1. p # header
        BY <3>2, <1>1
      <4>2. PICK s \in Sides : t[p][s] = top
        BY <2>3, <4>1
      <4> HIDE DEF p
      <4> QED
        BY <3>2, <4>2, <2>1, <1>1, KidIs
    <3> HIDE DEF p
    <3> QED
      BY <3>1, <3>2, <2>1, <2>3, <1>1
  <2>5. Climb(t, n, side) = p
    BY <2>4, <1>8
  <2> HIDE DEF p
  <2>6. CASE p = header
    <3>1. sub[top] = N
      BY <2>1, <2>3, <2>6, <1>1 DEF Linked, RootFits
    <3>2. Beyond(side, N, n) = {}
      <4>1. ASSUME NEW e \in N, Off(side, e, n) PROVE FALSE
        <5>1. e = n \/ Off(far, e, n)
          BY <3>1, <2>1
        <5>2. e \in Int /\ n \in Int
          BY <1>1
        <5> HIDE DEF far
        <5>3. /\ ~Off(side, n, n) /\ Off(side, e, n) <=> Off(Mirror(side), n, e)
              /\ ~(Off(side, e, n) /\ Off(side, n, e))
          BY <5>2, OffIs
        <5>4. Off(side, n, e) <=> Off(Mirror(side), e, n)
          BY <5>2, OffIs
        <5> QED
          BY <5>1, <5>3, <5>4, <4>1 DEF far
      <4> QED
        BY <4>1 DEF Beyond
    <3> QED
      BY <2>5, <2>6, <3>2 DEF ExtremeIs
  <2>7. CASE p # header
    <3>1. p \in N /\ t[p][far] = top
      BY <2>2, <2>3, <2>7, <1>1
    <3>2. sub[p] = {p} \cup Under(sub, t[p][side]) \cup Under(sub, top)
          /\ (\A e \in Under(sub, t[p][side]) : Off(side, e, p))
          /\ (\A e \in Under(sub, top) : Off(far, e, p))
      <4>1. KidsFit(t, N, sub, p)
        BY <3>1 DEF Linked
      <4> QED
        BY <4>1, <3>1, <1>1 DEF KidsFit
    <3>3. n \in Int /\ p \in Int /\ top # null /\ Off(far, n, p) /\ Off(side, p, n)
      BY <3>1, <3>2, <2>1, <1>1, OffIs DEF Under
    <3>4. ASSUME NEW e \in N, Off(side, e, n) PROVE e = p \/ Off(far, p, e)
      <4>1. e \in Int /\ e \notin sub[top]
        BY <2>1, <3>4, <1>1, OffIs
      <4>2. CASE e \in sub[p]
        <5>1. e = p \/ Off(side, e, p)
          BY <3>2, <4>1, <4>2 DEF Under
        <5> QED
          BY <5>1, <4>1, <3>3, <1>1, OffIs
      <4>3. CASE e \notin sub[p]
        <5>1. PICK s \in Sides : \A m \in sub[p] : Off(s, e, m)
          BY <4>3, <3>1, OutsideIs DEF Outside
        <5>2. n \in sub[p] /\ p \in sub[p]
          BY <3>2, <3>3, <2>1 DEF Under
        <5>3. Off(s, e, n) /\ Off(s, e, p)
          BY <5>1, <5>2
        <5>4. s = side
          BY <5>3, <3>3, <3>4, <4>1, <1>1, OffIs
        <5> QED
          BY <5>3, <5>4, <4>1, <3>3, <1>1, OffIs
      <4> QED
        BY <4>2, <4>3
    <3>5. p \in Beyond(side, N, n)
      BY <3>1, <3>3 DEF Beyond
    <3> QED
      BY <2>5, <3>4, <3>5 DEF ExtremeIs, Beyond
  <2> QED
    BY <2>6, <2>7
<1> QED
  BY <1>9, <1>10

\* The neighbour of a node that has a child on that side.
LEMMA NextBelow ==
    ASSUME NEW t, NEW D, TypedTree(t, D), NEW N, NEW sub, Linked(t, N, sub), N \subseteq D,
           NEW n \in N, NEW side \in Sides, t[n][side] # null
    PROVE  ExtremeIs(Mirror(side), Beyond(side, N, n), Furthest(t, t[n][side], Mirror(side)))
<1> DEFINE far == Mirror(side)
           k == t[n][side]
           a == Furthest(t, k, far)
<1>1. far \in Sides /\ Mirror(far) = side /\ \A s \in Sides : s = side \/ s = far
  BY MirrorIs
<1>2. k \in N /\ sub[k] \subseteq sub[n] /\ n \in sub[n] /\ k \in sub[k] /\ sub[k] \subseteq N
      /\ N \subseteq Int
  BY KidIs, Plain
<1>3. sub[n] = {n} \cup Under(sub, k) \cup Under(sub, t[n][far])
      /\ (\A e \in Under(sub, k) : Off(side, e, n))
      /\ (\A e \in Under(sub, t[n][far]) : Off(far, e, n))
  BY <1>1 DEF KidsFit, Linked
<1>4. k # null /\ sub[k] # {}
  BY <1>2
<1> HIDE DEF k
<1>5. a \in sub[k] /\ ExtremeIs(far, sub[k], a)
  BY <1>1, <1>2, FurthestIs
<1> HIDE DEF a
<1>6. a \in N /\ Off(side, a, n)
  BY <1>2, <1>3, <1>4, <1>5 DEF Under
<1>7. ASSUME NEW e \in N, Off(side, e, n), e # a PROVE Off(far, a, e)
  <2>1. e \in Int /\ a \in Int /\ n \in Int
    BY <1>2, <1>6
  <2>2. CASE e \in sub[k]
    BY <2>2, <1>5, <1>7 DEF ExtremeIs
  <2>3. CASE e \notin sub[k]
    <3>1. e \notin sub[n]
      BY <2>1, <2>3, <1>1, <1>3, <1>4, <1>7, OffIs DEF Under
    <3>2. PICK s \in Sides : \A m \in sub[n] : Off(s, e, m)
      BY <3>1, OutsideIs DEF Outside
    <3>3. Off(s, e, n) /\ Off(s, e, a)
      BY <3>2, <1>2, <1>5
    <3>4. s = side
      BY <3>3, <2>1, <1>1, <1>7, OffIs
    <3> QED
      BY <3>3, <3>4, <2>1, <1>1, OffIs
  <2> QED
    BY <2>2, <2>3
<1>8. a \in Beyond(side, N, n)
  BY <1>6 DEF Beyond
<1> QED
  BY <1>7, <1>8 DEF ExtremeIs, Beyond, a, k

\* increment goes to the least element above n, or to end().
LEMMA IncrementIs ==
    ASSUME NEW t, NEW D, TypedTree(t, D), NEW N, NEW sub, Linked(t, N, sub), N \subseteq D,
           NEW n \in N
    PROVE  ExtremeIs("left", Beyond("right", N, n), increment(t, n))
<1> DEFINE r == "right"
           l == "left"
<1>1. r \in Sides /\ Mirror(r) = l
  BY DEF Sides, Mirror
<1>2. t[n].right = t[n][r]
  OBVIOUS
<1> HIDE DEF r, l
<1>3. CASE t[n][r] = null
  <2>1. ExtremeIs(l, Beyond(r, N, n), Climb(t, n, r))
    BY <1>1, <1>3, ClimbIs
  <2> QED
    BY <2>1, <1>2, <1>3 DEF r, l, increment
<1>4. CASE t[n][r] # null
  <2>1. ExtremeIs(l, Beyond(r, N, n), Furthest(t, t[n][r], l))
    BY <1>1, <1>4, NextBelow
  <2> QED
    BY <2>1, <1>2, <1>4 DEF r, l, increment
<1> QED
  BY <1>3, <1>4

\* decrement goes to the greatest element below n, or to end().
LEMMA DecrementIs ==
    ASSUME NEW t, NEW D, TypedTree(t, D), NEW N, NEW sub, Linked(t, N, sub), N \subseteq D,
           NEW n \in N, ~t[root(t)].is_red
    PROVE  ExtremeIs("right", Beyond("left", N, n), decrement(t, n))
<1> DEFINE r == "right"
           l == "left"
           p == t[n].parent
<1>1. l \in Sides /\ Mirror(l) = r
  BY DEF Sides, Mirror
<1>2. t[n].left = t[n][l]
  OBVIOUS
<1>0. ~(t[n].is_red /\ t[p].parent = n)
  <2>1. /\ p = header <=> root(t) = n
        /\ p # header => p \in N /\ \E s \in Sides : t[p][s] = n
    BY ParentIs2
  <2> HIDE DEF p
  <2>2. CASE p = header
    BY <2>1, <2>2
  <2>3. CASE p # header
    <3> DEFINE q == t[p].parent
    <3>1. p \in N /\ p \notin sub[n] /\ n \in sub[n] /\ p \in sub[p] /\ n # header
      BY <2>1, <2>3, KidIs, Plain
    <3>2. q = n => p \in sub[n]
      BY <3>1, AboveIs
    <3> QED
      BY <3>1, <3>2
  <2> QED
    BY <2>2, <2>3
<1>01. decrement(t, n) = IF t[n][l] # null THEN Furthest(t, t[n][l], r) ELSE Climb(t, n, l)
  BY <1>0, <1>2 DEF decrement
<1> HIDE DEF r, l
<1>3. CASE t[n][l] = null
  <2>1. ExtremeIs(r, Beyond(l, N, n), Climb(t, n, l))
    BY <1>1, <1>3, ClimbIs
  <2> QED
    BY <2>1, <1>01, <1>3 DEF r, l
<1>4. CASE t[n][l] # null
  <2>1. ExtremeIs(r, Beyond(l, N, n), Furthest(t, t[n][l], r))
    BY <1>1, <1>4, NextBelow
  <2> QED
    BY <2>1, <1>01, <1>4 DEF r, l
<1> QED
  BY <1>3, <1>4

\* The extreme element is the least or the greatest of the sorted set.
LEMMA LeastIs ==
    ASSUME NEW S, S \subseteq Int, NEW a
    PROVE  /\ ExtremeIs("left", S, a) => a = Sorted!Least(S)
           /\ ExtremeIs("right", S, a) => a = Sorted!Greatest(S)
<1>1. CASE S = {}
  BY <1>1 DEF ExtremeIs, Sorted!Least, Sorted!Greatest
<1>2. CASE S # {}
  <2>1. ASSUME ExtremeIs("left", S, a) PROVE a = Sorted!Least(S)
    <3>0. a \in S /\ \A e \in S : e = a \/ a < e
      BY <1>2, <2>1 DEF ExtremeIs, Off
    <3>1. a \in S /\ \A e \in S : a <= e
      BY <3>0
    <3>2. \A m \in S : (\A e \in S : m <= e) => m = a
      BY <3>1
    <3> QED
      BY <1>2, <3>1, <3>2 DEF Sorted!Least
  <2>2. ASSUME ExtremeIs("right", S, a) PROVE a = Sorted!Greatest(S)
    <3>0. a \in S /\ \A e \in S : e = a \/ e < a
      BY <1>2, <2>2 DEF ExtremeIs, Off
    <3>1. a \in S /\ \A e \in S : e <= a
      BY <3>0
    <3>2. \A m \in S : (\A e \in S : e <= m) => m = a
      BY <3>1
    <3> QED
      BY <1>2, <3>1, <3>2 DEF Sorted!Greatest
  <2> QED
    BY <2>1, <2>2
<1> QED
  BY <1>1, <1>2

Shape(t, D, N, sub) ==
    /\ TypedTree(t, D) /\ N \subseteq D
    /\ Linked(t, N, sub)
    /\ \A n \in N : Counted(t, sub, n)

Coloured(t, N, bh, A, B, dp, ds) ==
    /\ bh \in [N -> Nat]
    /\ \A n \in N, s \in Sides : PairAt(t, n, s, A, B)
    /\ \A n \in N : HeightAt(t, bh, n, dp, ds)

\* u is t but for the colours of nodes.
SameButColours(t, u, D) ==
    /\ TypedTree(u, D)
    /\ \A m \in D \cup {header}, g \in Fields \ {"is_red"} : u[m][g] = t[m][g]
    /\ u[header].is_red = t[header].is_red

\* One more node is painted.
PaintedToo(t, v, u, D, n, c) ==
    /\ SameButColours(t, u, D)
    /\ \A m \in D : u[m].is_red = IF m = n THEN c ELSE v[m].is_red

\* Painting one more node.
LEMMA PaintOne ==
    ASSUME NEW t, NEW D, NEW v, SameButColours(t, v, D), NEW n \in D, NEW c \in BOOLEAN
    PROVE  PaintedToo(t, v, Painted(v, n, c), D, n, c)
<1> DEFINE u == Painted(v, n, c)
<1>1. TypedTree(v, D)
  BY DEF SameButColours
<1>2. PaintedAt(v, u, D, n, c)
  BY <1>1, PaintIs
<1> HIDE DEF u
<1>3. n # header
  BY <1>1, ValuesAre DEF TypedTree
<1>4. "is_red" \in Fields
  BY DEF Fields
<1>5. \A m \in D \cup {header}, g \in Fields : u[m][g] = IF m = n
      /\ g = "is_red" THEN c ELSE v[m][g]
  BY <1>2 DEF PaintedAt, Wrote
<1>6. TypedTree(u, D)
  BY <1>2 DEF PaintedAt, Wrote
<1>7. u[header].is_red = v[header].is_red /\ \A m \in D : u[m].is_red = IF m
      = n THEN c ELSE v[m].is_red
  BY <1>3, <1>4, <1>5
<1>8. SameButColours(t, u, D)
  BY <1>5, <1>6, <1>7 DEF SameButColours
<1> QED
  BY <1>7, <1>8 DEF PaintedToo, u

\* Painting no node.
LEMMA PaintNone ==
    ASSUME NEW t, NEW D, TypedTree(t, D)
    PROVE  SameButColours(t, t, D)
BY DEF SameButColours

\* Painting keeps the shape.
LEMMA PaintShape ==
    ASSUME NEW t, NEW D, NEW N, NEW sub, Shape(t, D, N, sub), NEW u, SameButColours(t, u, D)
    PROVE  /\ Shape(u, D, N, sub)
           /\ HeaderKept(t, u)
           /\ SameLinks(t, u, N)
           /\ \A n \in N, s \in Sides : u[n][s] = t[n][s]
<1>1. {"parent", "left", "right", "node_count"} \cup Sides \subseteq Fields \ {"is_red"}
  BY DEF Fields, Sides
<1>2. /\ \A m \in D \cup {header}, g \in Fields \ {"is_red"} : u[m][g] = t[m][g]
      /\ u[header].is_red = t[header].is_red
      /\ TypedTree(u, D) /\ N \subseteq D
  BY DEF SameButColours, Shape
<1>3. \A m \in D \cup {header} :
        /\ u[m].node_count = t[m].node_count /\ u[m].parent = t[m].parent
        /\ u[m].left = t[m].left /\ u[m].right = t[m].right
        /\ \A s \in Sides : u[m][s] = t[m][s]
  BY <1>1, <1>2
<1>4. SameLinks(t, u, N)
  BY <1>2, <1>3 DEF SameLinks, root
<1>5. Linked(u, N, sub)
  BY <1>4, SameLinked DEF Shape
<1>6. \A n \in N : Counted(u, sub, n)
  BY <1>2, <1>3 DEF Shape, Counted
<1>7. HeaderKept(t, u)
  BY <1>2, <1>3 DEF HeaderKept
<1> QED
  BY <1>2, <1>3, <1>4, <1>5, <1>6, <1>7 DEF Shape

\* Two steps that keep the header.
LEMMA HeaderKeptTwice ==
    ASSUME NEW t, NEW u, NEW v, HeaderKept(t, u), HeaderKept(u, v)
    PROVE  HeaderKept(t, v)
BY DEF HeaderKept

\* A rotation keeps the shape.
LEMMA RotateShape ==
    ASSUME NEW t, NEW D, NEW N, NEW sub, Shape(t, D, N, sub),
           NEW x \in N, NEW side \in Sides, t[x][Mirror(side)] # null
    PROVE  LET u == rotate(t, x, side)
           IN  /\ Rotated(t, u, D, x, side)
               /\ Shape(u, D, N, Turned(t, sub, x, side))
               /\ HeaderKept(t, u)
<1> DEFINE u == rotate(t, x, side)
           y == t[x][Mirror(side)]
<1>1. TypedTree(t, D) /\ N \subseteq D /\ Linked(t, N, sub) /\ \A n \in N : Counted(t, sub, n)
  BY DEF Shape
<1>2. Rotated(t, u, D, x, side)
  BY <1>1, RotateIs
<1> HIDE DEF u
<1>3. Linked(u, N, Turned(t, sub, x, side))
  BY <1>1, <1>2, RotateLinked
<1>4. \A n \in N : Counted(u, Turned(t, sub, x, side), n)
  BY <1>1, <1>2, RotateCounted
<1>5. TypedTree(u, D)
  BY <1>2 DEF Rotated
<1>6. HeaderKept(t, u)
  <2>1. y \in N /\ header \notin {x, y}
    BY <1>1, KidIs, MirrorIs, Plain
  <2>2. "left" \in Sides /\ "right" \in Sides
    BY DEF Sides
  <2> QED
    BY <1>2, <2>1, <2>2 DEF Rotated, HeaderKept
<1> QED
  BY <1>1, <1>2, <1>3, <1>4, <1>5, <1>6 DEF Shape, u

-----------------------------------------------------------------------------
(* The rounds of insertNodeFixup *)

\* No red node has a red child but for x, the root is black unless it is x, and
\* every path has as many black nodes.
RedAt(t, N, bh, x) ==
    /\ x \in N /\ t[x].is_red
    /\ Coloured(t, N, bh, {}, {x}, null, "left")
    /\ root(t) # x => ~t[root(t)].is_red

\* The red uncle.
LEMMA RecolorIs ==
    ASSUME NEW t, NEW D, NEW N, NEW sub, Shape(t, D, N, sub), NEW bh, NEW x, RedAt(t, N, bh, x),
           NEW g \in N, NEW s \in Sides, NEW p \in N, NEW uncle \in N,
           t[g][s] = p, t[g][Mirror(s)] = uncle, t[x].parent = p,
           t[p].is_red, t[uncle].is_red
    PROVE  LET u == recolor(t, p, uncle, g)
           IN  /\ Shape(u, D, N, sub)
               /\ HeaderKept(t, u)
               /\ \E bh2 : RedAt(u, N, bh2, g)
<1> DEFINE a == Painted(t, p, FALSE)
           b == Painted(a, uncle, FALSE)
           u == Painted(b, g, TRUE)
           bh2 == [n \in N |-> IF n \in {p, uncle} THEN bh[n] + 1 ELSE bh[n]]
<1>1. TypedTree(t, D) /\ N \subseteq D /\ Linked(t, N, sub) /\ p \in D /\ uncle \in D /\ g \in D
  BY DEF Shape
<1>2. recolor(t, p, uncle, g) = u
  BY DEF recolor, Painted
<1>3. /\ g # p /\ g # uncle /\ p # uncle /\ p # null /\ uncle # null
      /\ \A n \in N, r \in Sides : t[n][r] \in {p, uncle} => n = g
      /\ \A n \in N, r \in Sides : t[n][r] = x => n = p
      /\ \A n \in N, r \in Sides : t[n][r] # null => t[n][r] \in N
      /\ x \in N /\ x # null
  <2>1. \A n \in N, r \in Sides : t[n][r] # null =>
            t[n][r] \in N /\ t[n][r] # n /\ t[n][r] # t[n][Mirror(r)] /\ t[t[n][r]].parent = n
    BY <1>1, KidIs
  <2>2. null \notin N /\ x \in N
    BY <1>1, Plain DEF RedAt
  <2> QED
    BY <2>1, <2>2, MirrorIs
<1>4. SameButColours(t, t, D)
  BY <1>1, PaintNone
<1>5. PaintedToo(t, t, a, D, p, FALSE)
  BY <1>1, <1>4, PaintOne
<1> HIDE DEF a
<1>51. SameButColours(t, a, D)
  BY <1>5 DEF PaintedToo
<1>6. PaintedToo(t, a, b, D, uncle, FALSE)
  BY <1>1, <1>51, PaintOne
<1> HIDE DEF b
<1>61. SameButColours(t, b, D)
  BY <1>6 DEF PaintedToo
<1>7. PaintedToo(t, b, u, D, g, TRUE)
  BY <1>1, <1>61, PaintOne
<1> HIDE DEF u
<1>8. \A m \in N : u[m].is_red = IF m = g THEN TRUE ELSE IF m \in {p,
      uncle} THEN FALSE ELSE t[m].is_red
  BY <1>1, <1>5, <1>6, <1>7 DEF PaintedToo
<1>9. Shape(u, D, N, sub) /\ HeaderKept(t, u) /\ SameLinks(t, u, N)
      /\ \A n \in N, r \in Sides : u[n][r] = t[n][r]
  BY <1>7, PaintShape DEF PaintedToo
<1>10. ~t[g].is_red
  <2>1. PairAt(t, g, s, {}, {x})
    BY DEF RedAt, Coloured
  <2>2. p # x
    BY <1>1, <1>3, ParentIs2, Plain
  <2> QED
    BY <2>1, <2>2, <1>3 DEF PairAt
<1>11. bh \in [N -> Nat] /\ \A n \in N, r \in Sides : bh[n] = H(bh, t[n][r]) + Black(t, n)
  <2>1. \A n \in N, r \in Sides : Short(n, r, null, "left") = 0
    BY <1>1, Plain DEF Short
  <2>2. \A n \in N, r \in Sides : bh[n] = H(bh, t[n][r]) + 0 + Black(t, n)
    BY <2>1 DEF RedAt, Coloured, HeightAt
  <2>3. bh \in [N -> Nat]
    BY DEF RedAt, Coloured
  <2>4. \A n \in N, r \in Sides : H(bh, t[n][r]) \in Int
    BY <2>3, <1>3 DEF H
  <2> QED
    BY <2>2, <2>3, <2>4
<1>12. ASSUME NEW n \in N, NEW r \in Sides
       PROVE  bh2[n] = H(bh2, u[n][r]) + Short(n, r, null, "left") + Black(u, n)
  <2>1. Short(n, r, null, "left") = 0 /\ u[n][r] = t[n][r]
    BY <1>1, <1>9, Plain DEF Short
  <2>2. bh[n] = H(bh, t[n][r]) + Black(t, n) /\ bh[n] \in Nat
    BY <1>11
  <2>3. H(bh2, t[n][r]) = IF t[n][r] \in {p, uncle} THEN H(bh, t[n][r]) + 1 ELSE H(bh, t[n][r])
    BY <1>3 DEF H
  <2>4. t[n][r] \in {p, uncle} <=> n = g
    BY <1>3, MirrorIs
  <2>5. H(bh, t[n][r]) \in Nat
    BY <1>3, <1>11 DEF H
  <2>6. CASE n = g
    <3>1. Black(t, n) = 1 /\ Black(u, n) = 0 /\ bh2[n] = bh[n]
      BY <2>6, <1>3, <1>8, <1>10 DEF Black
    <3> QED
      BY <3>1, <2>1, <2>2, <2>3, <2>4, <2>5, <2>6
  <2>7. CASE n \in {p, uncle}
    <3>1. Black(t, n) = 0 /\ Black(u, n) = 1 /\ bh2[n] = bh[n] + 1 /\ n # g
      BY <2>7, <1>3, <1>8 DEF Black
    <3> QED
      BY <3>1, <2>1, <2>2, <2>3, <2>4, <2>5
  <2>8. CASE n \notin {g, p, uncle}
    <3>1. Black(t, n) = Black(u, n) /\ bh2[n] = bh[n] /\ n # g
      BY <2>8, <1>8 DEF Black
    <3> QED
      BY <3>1, <2>1, <2>2, <2>3, <2>4, <2>5
  <2> QED
    BY <2>6, <2>7, <2>8
<1>13. ASSUME NEW n \in N, NEW r \in Sides PROVE PairAt(u, n, r, {}, {g})
  <2> SUFFICES ASSUME u[n].is_red, u[n][r] # null, u[u[n][r]].is_red PROVE u[n][r] = g
    BY DEF PairAt
  <2> DEFINE k == t[n][r]
  <2>1. u[n][r] = k /\ k \in N
    BY <1>3, <1>9
  <2>2. (k \in {p, uncle} => n = g) /\ (k = x => n = p)
    BY <1>3
  <2>3. t[n].is_red /\ t[k].is_red => k = x
    BY <2>1, <1>3 DEF RedAt, Coloured, PairAt
  <2>4. n = g => k \in {p, uncle}
    BY MirrorIs
  <2> HIDE DEF k
  <2> QED
    BY <2>1, <2>2, <2>3, <2>4, <1>3, <1>8
<1>14. RedAt(u, N, bh2, g)
  <2>1. bh2 \in [N -> Nat]
    BY <1>11
  <2>2. u[g].is_red
    BY <1>8
  <2>3. root(u) # g => ~u[root(u)].is_red
    <3>1. root(u) = root(t) /\ root(t) \in N
      BY <1>1, <1>9 DEF SameLinks, Linked, RootFits
    <3>2. root(t) # x => ~t[root(t)].is_red
      BY DEF RedAt
    <3>3. root(t) # x
      BY <1>1, <1>3, ParentIs2, Plain
    <3> HIDE DEF root
    <3> QED
      BY <3>1, <3>2, <3>3, <1>8
  <2> QED
    BY <2>1, <2>2, <2>3, <1>12, <1>13 DEF RedAt, Coloured, HeightAt
<1> QED
  BY <1>2, <1>9, <1>14

\* Heights without a short place.
Level(t, N, bh) ==
    \A n \in N, s \in Sides : bh[n] = H(bh, t[n][s]) + Black(t, n)

\* Heights without a short place are level.
LEMMA LevelIs ==
    ASSUME NEW t, NEW N, NEW sub, Linked(t, N, sub), NEW bh \in [N -> Nat]
    PROVE  /\ \A k : (k # null => k \in N) => H(bh, k) \in Nat
           /\ \A n \in N, s \in Sides : Short(n, s, null, "left") = 0
           /\ (\A n \in N : HeightAt(t, bh, n, null, "left")) <=> Level(t, N, bh)
<1>1. \A k : (k # null => k \in N) => H(bh, k) \in Nat
  BY DEF H
<1>2. \A n \in N, s \in Sides : Short(n, s, null, "left") = 0
  BY Plain DEF Short
<1>3. \A n \in N, s \in Sides : t[n][s] # null => t[n][s] \in N
  BY KidIs
<1>4. \A n \in N, s \in Sides : H(bh, t[n][s]) \in Nat /\ Black(t, n) \in Int
  BY <1>1, <1>3 DEF Black
<1>5. \A n \in N, s \in Sides : H(bh, t[n][s]) + Short(n, s, null, "left") + Black(t, n)
                                    = H(bh, t[n][s]) + Black(t, n)
  BY <1>2, <1>4
<1> QED
  BY <1>1, <1>2, <1>5 DEF HeightAt, Level

\* What must hold around a rotation of x and y for the heights after it: near is the
\* child x keeps, outer the one y keeps, inner goes from y to x.
TurnHeights(t, N, bh, bh2, x, y, near, inner, outer, side, dp, ds) ==
    /\ \A n \in N : n \notin {x, y} => HeightAt(t, bh, n, dp, ds) /\ bh2[n] = bh[n]
    /\ bh2[y] = bh[x]
    /\ bh2[x] = H(bh, near) + Short(x, side, dp, ds) + Black(t, x)
    /\ bh2[x] = H(bh, inner) + Short(x, Mirror(side), dp, ds) + Black(t, x)
    /\ bh2[y] = bh2[x] + Short(y, side, dp, ds) + Black(t, y)
    /\ bh2[y] = H(bh, outer) + Short(y, Mirror(side), dp, ds) + Black(t, y)

RedPair(t, n, k, A, B) == t[n].is_red /\ k # null /\ t[k].is_red => n \in A \/ k \in B

TurnPairs(t, N, x, y, near, inner, outer, A, B) ==
    /\ \A n \in N, s \in Sides : n \notin {x, y} /\ t[n][s] # x => PairAt(t, n, s, A, B)
    /\ t[x].parent # header => RedPair(t, t[x].parent, y, A, B)
    /\ RedPair(t, x, near, A, B) /\ RedPair(t, x, inner, A, B)
    /\ RedPair(t, y, x, A, B) /\ RedPair(t, y, outer, A, B)

\* The black heights after a rotation, from those around it.
LEMMA TurnedHeights ==
    ASSUME NEW t, NEW D, NEW N, NEW sub, Shape(t, D, N, sub),
           NEW x \in N, NEW side \in Sides, NEW y, NEW near, NEW inner, NEW outer, y # null,
           t[x][Mirror(side)] = y, t[x][side] = near, t[y][side] = inner,
               t[y][Mirror(side)] = outer,
           NEW bh, NEW bh2, NEW dp, NEW ds,
           TurnHeights(t, N, bh, bh2, x, y, near, inner, outer, side, dp, ds)
    PROVE  \A n \in N : HeightAt(rotate(t, x, side), bh2, n, dp, ds)
<1> DEFINE u == rotate(t, x, side)
<1>1. TypedTree(t, D) /\ N \subseteq D /\ Linked(t, N, sub) /\ t[x][Mirror(side)] # null
  BY DEF Shape
<1>2. Rotated(t, u, D, x, side)
  BY <1>1, RotateShape
<1> HIDE DEF u
<1>3. \A n \in N, s \in Sides : t[n][s] # null => t[n][s] \in N
  BY <1>1, KidIs
<1>4. /\ x \in N /\ y \in N /\ x # null /\ y # x
      /\ u[x][Mirror(side)] = inner /\ u[x][side] = near
      /\ u[y][side] = x /\ u[y][Mirror(side)] = outer
      /\ near \notin {x, y} /\ inner \notin {x, y} /\ outer \notin {x, y}
      /\ \A n \in N : n \notin {x, y} => \A s \in Sides : u[n][s] = IF t[n][s]
         = x THEN y ELSE t[n][s]
      /\ \A n \in N, s \in Sides : n \notin {x, y} => t[n][s] # y
      /\ \A n \in N : u[n].is_red = t[n].is_red
  BY <1>1, <1>2, RotatedKids, Plain
<1>5. \A n \in N : Black(u, n) = Black(t, n)
  BY <1>4 DEF Black
<1>6. \A k : (k # null => k \in N) /\ k \notin {x, y} => H(bh2, k) = H(bh, k)
  BY DEF H, TurnHeights
<1>7. H(bh2, near) = H(bh, near) /\ H(bh2, inner) = H(bh, inner) /\ H(bh2, outer) = H(bh, outer)
      /\ H(bh2, x) = bh2[x]
  <2>1. (near # null => near \in N) /\ (inner # null => inner \in N) /\ (outer # null
        => outer \in N)
    BY <1>3, <1>4, MirrorIs
  <2> QED
    BY <2>1, <1>4, <1>6 DEF H
<1>8. ASSUME NEW n \in N, NEW s \in Sides
      PROVE  bh2[n] = H(bh2, u[n][s]) + Short(n, s, dp, ds) + Black(u, n)
  <2>1. CASE n = x
    BY <2>1, <1>4, <1>5, <1>7, MirrorIs DEF TurnHeights
  <2>2. CASE n = y
    BY <2>2, <1>4, <1>5, <1>7, MirrorIs DEF TurnHeights
  <2>3. CASE n \notin {x, y}
    <3>1. bh2[n] = H(bh, t[n][s]) + Short(n, s, dp, ds) + Black(t, n)
      BY <2>3 DEF HeightAt, TurnHeights
    <3>2. H(bh2, u[n][s]) = H(bh, t[n][s])
      <4>1. CASE t[n][s] = x
        BY <4>1, <2>3, <1>4 DEF H, TurnHeights
      <4>2. CASE t[n][s] # x
        BY <4>2, <1>3, <1>4, <1>6, <2>3
      <4> QED
        BY <4>1, <4>2
    <3> QED
      BY <3>1, <3>2, <1>5
  <2> QED
    BY <2>1, <2>2, <2>3
<1> QED
  BY <1>8 DEF HeightAt, u

\* The pairs of red nodes after a rotation, from those around it.
LEMMA TurnedPairs ==
    ASSUME NEW t, NEW D, NEW N, NEW sub, Shape(t, D, N, sub),
           NEW x \in N, NEW side \in Sides, NEW y, NEW near, NEW inner, NEW outer, y # null,
           t[x][Mirror(side)] = y, t[x][side] = near, t[y][side] = inner,
               t[y][Mirror(side)] = outer,
           NEW A, NEW B, TurnPairs(t, N, x, y, near, inner, outer, A, B)
    PROVE  \A n \in N, s \in Sides : PairAt(rotate(t, x, side), n, s, A, B)
<1> DEFINE u == rotate(t, x, side)
<1>1. TypedTree(t, D) /\ N \subseteq D /\ Linked(t, N, sub) /\ t[x][Mirror(side)] # null
  BY DEF Shape
<1>2. Rotated(t, u, D, x, side)
  BY <1>1, RotateShape
<1> HIDE DEF u
<1>3. /\ u[x][Mirror(side)] = inner /\ u[x][side] = near
      /\ u[y][side] = x /\ u[y][Mirror(side)] = outer
      /\ \A n \in N : n \notin {x, y} => \A s \in Sides :
            /\ u[n][s] = IF t[n][s] = x THEN y ELSE t[n][s]
            /\ t[n][s] = x => t[x].parent # header /\ n = t[x].parent
      /\ \A n \in N : u[n].is_red = t[n].is_red
  BY <1>1, <1>2, RotatedKids
<1>4. \A n \in N, s \in Sides : u[n][s] # null => u[n][s] \in N
  <2>1. Linked(u, N, Turned(t, sub, x, side))
    BY <1>1, <1>2, RotateLinked
  <2> QED
    BY <2>1, KidIs
<1>5. ASSUME NEW n \in N, NEW s \in Sides PROVE RedPair(t, n, u[n][s], A, B)
  <2>1. CASE n = x
    BY <2>1, <1>3, MirrorIs DEF TurnPairs
  <2>2. CASE n = y
    BY <2>2, <1>3, MirrorIs DEF TurnPairs
  <2>3. CASE n \notin {x, y} /\ t[n][s] = x
    BY <2>3, <1>3 DEF TurnPairs
  <2>4. CASE n \notin {x, y} /\ t[n][s] # x
    <3>1. u[n][s] = t[n][s] /\ PairAt(t, n, s, A, B)
      BY <2>4, <1>3 DEF TurnPairs
    <3> QED
      BY <3>1 DEF PairAt, RedPair
  <2> QED
    BY <2>1, <2>2, <2>3, <2>4
<1> QED
  BY <1>3, <1>4, <1>5 DEF PairAt, RedPair, u

\* The black uncle.
LEMMA LiftIs ==
    ASSUME NEW t, NEW D, NEW N, NEW sub, Shape(t, D, N, sub), NEW bh, NEW low, RedAt(t, N, bh, low),
           NEW g \in N, NEW s \in Sides, NEW top \in N,
           t[g][s] = top, t[top][s] = low, t[top].is_red, ~IsRed(t, t[g][Mirror(s)])
    PROVE  LET u == lift(t, top, g, s)
           IN  \E sub2, bh2 : /\ Shape(u, D, N, sub2)
                              /\ HeaderKept(t, u)
                              /\ RedAt(u, N, bh2, low)
                              /\ insertSettled(u, low)
<1> DEFINE far == Mirror(s)
           a == Painted(t, top, FALSE)
           b == Painted(a, g, TRUE)
           u == rotate(b, g, far)
           sub2 == Turned(b, sub, g, far)
           bh2 == [bh EXCEPT ![top] = bh[g], ![g] = bh[g] - 1]
<1>1. TypedTree(t, D) /\ N \subseteq D /\ Linked(t, N, sub) /\ top \in D /\ g \in D
  BY DEF Shape
<1>2. lift(t, top, g, s) = u
  BY DEF lift, Painted
<1>3. far \in Sides /\ Mirror(far) = s /\ far # s /\ \A r \in Sides : r = s \/ r = far
  BY MirrorIs
<1>4. \A n \in N, r \in Sides : t[n][r] # null =>
            t[n][r] \in N /\ t[n][r] # n /\ t[n][r] # t[n][Mirror(r)] /\ t[t[n][r]].parent = n
  BY <1>1, KidIs
<1>5. /\ null \notin N /\ low \in N /\ low # null /\ top # null /\ g # top /\ low # top /\ low # g
      /\ t[top].parent = g /\ t[low].parent = top /\ t[low].is_red
      /\ t[top][far] # low /\ t[g][far] # top
  <2>1. null \notin N /\ low \in N /\ t[low].is_red
    BY <1>1, Plain DEF RedAt
  <2>2. g \notin sub[top] /\ low \in sub[top]
    BY <1>1, <2>1, KidIs, Plain
  <2> QED
    BY <1>4, <2>1, <2>2, <1>3
<1>6. SameButColours(t, t, D)
  BY <1>1, PaintNone
<1>7. PaintedToo(t, t, a, D, top, FALSE)
  BY <1>1, <1>6, PaintOne
<1> HIDE DEF a
<1>8. SameButColours(t, a, D)
  BY <1>7 DEF PaintedToo
<1>9. PaintedToo(t, a, b, D, g, TRUE)
  BY <1>1, <1>8, PaintOne
<1> HIDE DEF b
<1>10. SameButColours(t, b, D)
       /\ \A m \in N : b[m].is_red = IF m = g THEN TRUE ELSE IF m = top THEN FALSE ELSE t[m].is_red
  BY <1>1, <1>7, <1>9 DEF PaintedToo
<1>11. Shape(b, D, N, sub) /\ HeaderKept(t, b) /\ SameLinks(t, b, N)
       /\ \A n \in N, r \in Sides : b[n][r] = t[n][r]
  BY <1>10, PaintShape
<1>12. b[g][Mirror(far)] # null
  BY <1>3, <1>5, <1>11
<1> HIDE DEF far
<1>13. Rotated(b, u, D, g, far) /\ Shape(u, D, N, sub2) /\ HeaderKept(b, u)
  BY <1>3, <1>11, <1>12, RotateShape
<1>14. HeaderKept(t, u)
  BY <1>11, <1>13, HeaderKeptTwice
<1> HIDE DEF u, sub2
<1>15. TypedTree(b, D) /\ Linked(b, N, sub)
  BY <1>11 DEF Shape
<1>16. bh \in [N -> Nat] /\ Level(t, N, bh) /\ \A n \in N, r \in Sides : PairAt(t, n, r, {}, {low})
  <2>1. bh \in [N -> Nat] /\ \A n \in N : HeightAt(t, bh, n, null, "left")
    BY DEF RedAt, Coloured
  <2>2. Level(t, N, bh)
    BY <2>1, <1>1, LevelIs
  <2> QED
    BY <2>1, <2>2 DEF RedAt, Coloured
<1>17. ~t[g].is_red
  BY <1>5, <1>16 DEF PairAt
<1>18. /\ \A k : (k # null => k \in N) => H(bh, k) \in Nat
       /\ \A n \in N, r \in Sides : Short(n, r, null, "left") = 0
  BY <1>1, <1>16, LevelIs
<1>19. /\ bh[g] = H(bh, t[g][far]) + 1
       /\ bh[g] = bh[top] + 1
       /\ bh[top] = H(bh, t[top][far]) /\ bh[top] = H(bh, low)
       /\ bh[g] \in Nat /\ bh[top] \in Nat
       /\ H(bh, t[g][far]) \in Nat /\ H(bh, t[top][far]) \in Nat /\ H(bh, low) \in Nat
  <2>1. Black(t, g) = 1 /\ Black(t, top) = 0 /\ H(bh, top) = bh[top]
    BY <1>17, <1>5 DEF Black, H
  <2>2. /\ bh[g] = H(bh, t[g][far]) + Black(t, g)
        /\ bh[g] = H(bh, top) + Black(t, g)
        /\ bh[top] = H(bh, t[top][far]) + Black(t, top)
        /\ bh[top] = H(bh, low) + Black(t, top)
    BY <1>16, <1>3 DEF Level
  <2>3. H(bh, t[top][far]) \in Nat /\ H(bh, low) \in Nat /\ H(bh, t[g][far]) \in Nat
    BY <1>3, <1>4, <1>5, <1>18
  <2> QED
    BY <2>1, <2>2, <2>3, <1>16
<1>24. /\ g \in N /\ far \in Sides /\ top # null /\ Shape(b, D, N, sub)
       /\ b[g][Mirror(far)] = top /\ b[g][far] = t[g][far] /\ b[top][far] = t[top][far]
       /\ b[top][Mirror(far)] = low
  BY <1>3, <1>5, <1>11
<1>20. \A n \in N : HeightAt(u, bh2, n, null, "left")
  <2>2. Black(b, g) = 0 /\ Black(b, top) = 1
    BY <1>5, <1>10 DEF Black
  <2>3. bh2[top] = bh[g] /\ bh2[g] = bh[g] - 1 /\ \A n \in N : n \notin {top, g} => bh2[n] = bh[n]
    BY <1>5, <1>16
  <2> HIDE DEF bh2
  <2>4. ASSUME NEW n \in N, n \notin {g, top} PROVE HeightAt(b, bh, n, null, "left")
        /\ bh2[n] = bh[n]
    <3>1. Black(b, n) = Black(t, n)
      BY <1>10, <2>4 DEF Black
    <3>2. HeightAt(t, bh, n, null, "left")
      BY DEF RedAt, Coloured
    <3> QED
      BY <3>1, <3>2, <1>11, <2>3, <2>4 DEF HeightAt
  <2>5. Short(g, far, null, "left") = 0 /\ Short(g, Mirror(far), null, "left") = 0
        /\ Short(top, far, null, "left") = 0 /\ Short(top, Mirror(far), null, "left") = 0
    BY <1>18, <1>3
  <2>6. TurnHeights(b, N, bh, bh2, g, top, t[g][far], t[top][far], low, far, null, "left")
    BY <2>2, <2>3, <2>4, <2>5, <1>19 DEF TurnHeights
  <2> QED
    BY <2>6, <1>24, TurnedHeights DEF u
<1>21. \A n \in N, r \in Sides : PairAt(u, n, r, {}, {low})
  <2>2. ~b[top].is_red
    BY <1>5, <1>10
  <2>3. ASSUME NEW n \in N, NEW r \in Sides, n \notin {g, top}, b[n][r] # g
        PROVE  PairAt(b, n, r, {}, {low})
    <3>1. /\ PairAt(t, n, r, {}, {low}) /\ b[n][r] = t[n][r] /\ b[n].is_red = t[n].is_red
          /\ t[n][r] # null => t[n][r] \in N
      BY ZenonT(40), <1>4, <1>10, <1>11, <1>16, <2>3
    <3> QED
      BY <3>1, <1>10, <2>3 DEF PairAt
  <2>4. RedPair(b, g, t[g][far], {}, {low})
    BY <1>4, <1>3, <1>5, <1>10 DEF IsRed, far, RedPair
  <2>5. RedPair(b, g, t[top][far], {}, {low})
    <3>1. t[top][far] # null /\ t[top][far] \in N => ~t[t[top][far]].is_red
      BY <1>16, <1>3, <1>5 DEF PairAt
    <3>2. t[top][far] # g
      <4>1. t[top][far] # null => t[top][far] \in sub[top] /\ g \notin sub[top]
        BY <1>1, <1>3, <1>5, KidIs, Plain
      <4>2. g # null
        BY <1>5
      <4> QED
        BY <4>1, <4>2, <1>1, <1>5, KidIs, Plain
    <3> QED
      BY <3>1, <3>2, <1>3, <1>4, <1>10 DEF RedPair
  <2>6. TurnPairs(b, N, g, top, t[g][far], t[top][far], low, {}, {low})
    BY <2>2, <2>3, <2>4, <2>5 DEF TurnPairs, RedPair
  <2> QED
    BY <2>6, <1>24, TurnedPairs DEF u
<1>22. bh2 \in [N -> Nat]
  BY <1>16, <1>19
<1>23. /\ \A n \in N : u[n].is_red = b[n].is_red
       /\ root(u) = (IF root(b) = g THEN top ELSE root(b))
       /\ u[top][s] = low
  <2>1. TypedTree(b, D) /\ Linked(b, N, sub) /\ N \subseteq D
    BY <1>1, <1>15
  <2>2. b[g][Mirror(far)] = top /\ b[top][Mirror(far)] = low
    BY <1>3, <1>11
  <2> QED
    BY <2>1, <2>2, <1>3, <1>12, <1>13, RotatedKids
<1>241. u[low].parent = top
  <2>1. Linked(u, N, sub2)
    BY <1>13 DEF Shape
  <2> QED
    BY <2>1, <1>23, <1>5, KidIs
<1>25. ~u[top].is_red /\ u[low].is_red
  BY <1>5, <1>10, <1>23
<1>26. ~u[root(u)].is_red
  <2>1. root(b) = root(t) /\ root(t) \in N
    BY <1>1, <1>11 DEF SameLinks, Linked, RootFits
  <2>2. root(t) # low
    <3>1. t[low].parent # header
      BY <1>1, <1>5, Plain
    <3> QED
      BY <3>1, <1>1, <1>5, ParentIs2
  <2>3. ~t[root(t)].is_red
    BY <2>2 DEF RedAt
  <2> HIDE DEF root
  <2> QED
    BY ZenonT(40), <2>1, <2>3, <1>10, <1>23, <1>25
<1>27. RedAt(u, N, bh2, low)
  BY <1>5, <1>20, <1>21, <1>22, <1>25, <1>26 DEF RedAt, Coloured
<1>28. insertSettled(u, low)
  BY <1>241, <1>25 DEF insertSettled
<1> QED
  BY <1>2, <1>13, <1>14, <1>27, <1>28

\* The subtree of a child is smaller.
LEMMA KidSmaller ==
    ASSUME NEW t, NEW N, NEW sub, Linked(t, N, sub), NEW n \in N, NEW s \in Sides, t[n][s] # null
    PROVE  /\ Cardinality(sub[t[n][s]]) < Cardinality(sub[n])
           /\ Cardinality(sub[t[n][s]]) \in Nat /\ Cardinality(sub[n]) \in Nat
<1> DEFINE k == t[n][s]
<1>1. k \in N /\ sub[k] \in SUBSET sub[n] /\ sub[k] # sub[n]
  BY KidIs, Plain
<1> HIDE DEF k
<1>2. IsFiniteSet(sub[n]) /\ Cardinality(sub[n]) \in Nat /\ Cardinality(sub[k]) \in Nat
  BY <1>1, FiniteNodes
<1>3. Cardinality(sub[k]) < Cardinality(sub[n])
  BY <1>1, <1>2, FS_Subset
<1> QED
  BY <1>2, <1>3 DEF k

\* x inside of its parent comes up.
LEMMA InnerIs ==
    ASSUME NEW t, NEW D, NEW N, NEW sub, Shape(t, D, N, sub), NEW bh, NEW x, RedAt(t, N, bh, x),
           NEW p \in N, NEW s \in Sides, t[p][Mirror(s)] = x, t[p].is_red
    PROVE  LET u == rotate(t, p, s)
           IN  /\ Rotated(t, u, D, p, s)
               /\ Shape(u, D, N, Turned(t, sub, p, s))
               /\ HeaderKept(t, u)
               /\ RedAt(u, N, bh, p)
<1> DEFINE u == rotate(t, p, s)
           far == Mirror(s)
           near == t[p][s]
           inner == t[x][s]
           outer == t[x][far]
           g == t[p].parent
<1>1. TypedTree(t, D) /\ N \subseteq D /\ Linked(t, N, sub)
  BY DEF Shape
<1>2. far \in Sides /\ far # s
  BY MirrorIs
<1>3. x \in N /\ x # null /\ t[x].is_red /\ null \notin N /\ header \notin N
  BY <1>1, Plain DEF RedAt
<1>4. \A n \in N, r \in Sides : t[n][r] # null =>
            t[n][r] \in N /\ t[n][r] # n /\ t[n][r] # t[n][Mirror(r)] /\ t[t[n][r]].parent = n
  BY <1>1, KidIs
<1>5. t[x].parent = p /\ x # p /\ near # x
  BY <1>2, <1>3, <1>4
<1>6. Rotated(t, u, D, p, s) /\ Shape(u, D, N, Turned(t, sub, p, s)) /\ HeaderKept(t, u)
  BY <1>3, RotateShape
<1>7. bh \in [N -> Nat] /\ Level(t, N, bh) /\ \A n \in N, r \in Sides : PairAt(t, n, r, {}, {x})
  <2>1. bh \in [N -> Nat] /\ \A n \in N : HeightAt(t, bh, n, null, "left")
    BY DEF RedAt, Coloured
  <2>2. Level(t, N, bh)
    BY <2>1, <1>1, LevelIs
  <2> QED
    BY <2>1, <2>2 DEF RedAt, Coloured
<1>8. /\ \A k : (k # null => k \in N) => H(bh, k) \in Nat
      /\ \A n \in N, r \in Sides : Short(n, r, null, "left") = 0
  BY <1>1, <1>7, LevelIs
<1>9. Black(t, p) = 0 /\ Black(t, x) = 0 /\ H(bh, x) = bh[x]
  BY <1>3 DEF Black, H
<1>10. /\ H(bh, near) \in Nat /\ H(bh, inner) \in Nat /\ H(bh, outer) \in Nat
       /\ bh[p] \in Nat /\ bh[x] \in Nat
       /\ bh[p] = bh[x] /\ bh[p] = H(bh, near) /\ bh[x] = H(bh, inner) /\ bh[x] = H(bh, outer)
  <2>1. /\ bh[p] = H(bh, x) + Black(t, p) /\ bh[p] = H(bh, near) + Black(t, p)
        /\ bh[x] = H(bh, inner) + Black(t, x) /\ bh[x] = H(bh, outer) + Black(t, x)
    BY <1>2, <1>3, <1>7 DEF Level
  <2>2. H(bh, near) \in Nat /\ H(bh, inner) \in Nat /\ H(bh, outer) \in Nat
    BY <1>2, <1>3, <1>4, <1>8
  <2> QED
    BY <2>1, <2>2, <1>3, <1>7, <1>9
<1>11. Short(p, s, null, "left") = 0 /\ Short(p, far, null, "left") = 0
       /\ Short(x, s, null, "left") = 0 /\ Short(x, far, null, "left") = 0
       /\ Short(p, Mirror(s), null, "left") = 0 /\ Short(x, Mirror(s), null, "left") = 0
  BY <1>2, <1>3, <1>8
<1>12. TurnHeights(t, N, bh, bh, p, x, near, inner, outer, s, null, "left")
  <2>1. \A n \in N : HeightAt(t, bh, n, null, "left")
    BY DEF RedAt, Coloured
  <2> HIDE DEF near, inner, outer
  <2>2. /\ bh[x] = bh[p]
        /\ bh[p] = H(bh, near) + Short(p, s, null, "left") + Black(t, p)
        /\ bh[p] = H(bh, inner) + Short(p, Mirror(s), null, "left") + Black(t, p)
        /\ bh[x] = bh[p] + Short(x, s, null, "left") + Black(t, x)
        /\ bh[x] = H(bh, outer) + Short(x, Mirror(s), null, "left") + Black(t, x)
    <3>1. bh[x] = bh[p]
      BY <1>10
    <3>2. bh[p] = H(bh, near) + Short(p, s, null, "left") + Black(t, p)
      BY <1>9, <1>10, <1>11
    <3>31. Short(p, Mirror(s), null, "left") = 0
      BY <1>11
    <3>32. Short(x, Mirror(s), null, "left") = 0
      BY <1>11
    <3>33. bh[p] = H(bh, inner) /\ H(bh, inner) \in Nat
      BY <1>10
    <3>34. bh[x] = H(bh, outer) /\ H(bh, outer) \in Nat
      BY <1>10
    <3>3. bh[p] = H(bh, inner) + Short(p, Mirror(s), null, "left") + Black(t, p)
      BY <1>9, <3>31, <3>33
    <3>4. bh[x] = bh[p] + Short(x, s, null, "left") + Black(t, x)
      BY <1>9, <1>10, <1>11
    <3>5. bh[x] = H(bh, outer) + Short(x, Mirror(s), null, "left") + Black(t, x)
      BY <1>9, <3>32, <3>34
    <3> QED
      BY <3>1, <3>2, <3>3, <3>4, <3>5
  <2> QED
    BY <2>1, <2>2 DEF TurnHeights
<1>13. TurnPairs(t, N, p, x, near, inner, outer, {}, {p})
  <2>1. ASSUME NEW n \in N, NEW r \in Sides, n \notin {p, x}, t[n][r] # p
        PROVE  PairAt(t, n, r, {}, {p})
    <3>1. t[n][r] # x
      BY <2>1, <1>3, <1>4, <1>5
    <3>2. PairAt(t, n, r, {}, {x})
      BY <1>7
    <3> QED
      BY <3>1, <3>2 DEF PairAt
  <2>2. g # header => ~t[g].is_red
    <3> SUFFICES ASSUME g # header PROVE ~t[g].is_red
      OBVIOUS
    <3>1. g \in N /\ \E r \in Sides : t[g][r] = p
      BY <1>1, ParentIs2
    <3> HIDE DEF g
    <3> QED
      BY <3>1, <1>3, <1>5, <1>7 DEF PairAt
  <2>3. /\ near # null => ~t[near].is_red
        /\ inner # null => ~t[inner].is_red
        /\ outer # null => ~t[outer].is_red
    BY <1>2, <1>3, <1>4, <1>5, <1>7 DEF PairAt
  <2> HIDE DEF near, inner, outer
  <2> QED
    BY <2>1, <2>2, <2>3 DEF TurnPairs, RedPair
<1>14. \A n \in N : HeightAt(u, bh, n, null, "left")
  BY <1>12, <1>3, TurnedHeights
<1>15. \A n \in N, r \in Sides : PairAt(u, n, r, {}, {p})
  BY <1>13, <1>3, TurnedPairs
<1> HIDE DEF u
<1>16. /\ root(u) = (IF root(t) = p THEN x ELSE root(t))
       /\ \A n \in N : u[n].is_red = t[n].is_red
  BY <1>1, <1>3, <1>6, RotatedKids
<1>17. root(t) # x /\ root(t) \in N
  <2>1. root(t) # x
    BY <1>1, <1>3, <1>5, ParentIs2
  <2>2. root(t) \in N
    BY <1>1 DEF Linked, RootFits
  <2> QED
    BY <2>1, <2>2
<1>18. ~t[root(t)].is_red
  BY <1>17 DEF RedAt
<1>19. RedAt(u, N, bh, p)
  BY <1>7, <1>14, <1>15, <1>16, <1>17, <1>18 DEF RedAt, Coloured
<1> QED
  BY <1>6, <1>19 DEF u

Rising(t0, D, N, k, s) ==
    \E sub, bh :
        /\ Shape(s.tree, D, N, sub)
        /\ HeaderKept(t0, s.tree)
        /\ RedAt(s.tree, N, bh, s.at)
        /\ insertSettled(s.tree, s.at) \/ Cardinality(sub[s.at]) > k

\* A round of insertNodeFixup ends, or moves the red pair up.
LEMMA InsertRoundIs ==
    ASSUME NEW t0, NEW D, NEW N, NEW k \in Nat, NEW s, Rising(t0, D, N, k, s)
    PROVE  Rising(t0, D, N, k + 1, insertRound(s))
<1> DEFINE t == s.tree
           x == s.at
           p == t[x].parent
           g == t[p].parent
           side == IF p = t[g].left THEN "left" ELSE "right"
           uncle == t[g][Mirror(side)]
<1>1. PICK sub, bh : /\ Shape(t, D, N, sub)
                     /\ HeaderKept(t0, t)
                     /\ RedAt(t, N, bh, x)
                     /\ insertSettled(t, x) \/ Cardinality(sub[x]) > k
  BY DEF Rising
<1>2. CASE insertSettled(t, x)
  <2>1. insertRound(s) = s
    BY <1>2 DEF insertRound
  <2> QED
    BY <2>1, <1>1, <1>2 DEF Rising
<1>3. CASE ~insertSettled(t, x)
  <2>0. insertRound(s) =
            IF IsRed(t, uncle) THEN [tree |-> recolor(t, p, uncle, g), at |-> g]
            ELSE IF x = t[p][Mirror(side)]
            THEN [tree |-> lift(rotate(t, p, side), x, g, side), at |-> p]
            ELSE [tree |-> lift(t, p, g, side), at |-> x]
    BY SMTT(30), <1>3 DEF insertRound
  <2>00. /\ x # root(t) /\ t[p].is_red
         /\ (p = t[g].left => side = "left") /\ (p # t[g].left => side = "right")
    BY <1>3 DEF insertSettled
  <2> HIDE DEF t, x
  <2>1. TypedTree(t, D) /\ N \subseteq D /\ Linked(t, N, sub) /\ x \in N
    BY <1>1 DEF Shape, RedAt
  <2>2. p \in N /\ p # header /\ p # x /\ \E r \in Sides : t[p][r] = x
    BY <2>00, <2>1, ParentIs2
  <2> HIDE DEF p
  <2>3. root(t) # p
    BY <1>1, <2>00, <2>2 DEF RedAt
  <2>4. g \in N /\ g # header /\ \E r \in Sides : t[g][r] = p /\ t[g][Mirror(r)] # p
    BY <2>1, <2>2, <2>3, ParentIs2
  <2> HIDE DEF g, side
  <2>5. side \in Sides /\ t[g][side] = p
    BY <2>00, <2>4 DEF Sides
  <2>6. PICK r \in Sides : t[p][r] = x
    BY <2>2
  <2>7. p # null /\ x # null
    BY <2>1, <2>2, Plain
  <2>8. Cardinality(sub[x]) < Cardinality(sub[p]) /\ Cardinality(sub[p]) < Cardinality(sub[g])
        /\ Cardinality(sub[x]) \in Nat /\ Cardinality(sub[p]) \in Nat /\ Cardinality(sub[g]) \in Nat
    <3>1. Cardinality(sub[x]) < Cardinality(sub[p])
      BY <2>1, <2>2, <2>6, <2>7, KidSmaller
    <3>2. Cardinality(sub[p]) < Cardinality(sub[g])
      BY <2>1, <2>4, <2>5, <2>7, KidSmaller
    <3> QED
      BY <3>1, <3>2, <2>1, <2>2, <2>4, FiniteNodes
  <2>9. CASE IsRed(t, uncle)
    <3>1. uncle \in N /\ t[uncle].is_red
      <4>1. uncle # null /\ Mirror(side) \in Sides
        BY <2>9, <2>5, MirrorIs DEF IsRed
      <4> QED
        BY <4>1, <2>1, <2>4, <2>9, KidIs DEF IsRed
    <3>2. t[x].parent = p
      BY DEF p
    <3> DEFINE u == recolor(t, p, uncle, g)
    <3>3. Shape(u, D, N, sub) /\ HeaderKept(t, u) /\ \E bh2 : RedAt(u, N, bh2, g)
      BY <3>1, <3>2, <2>00, <2>2, <2>4, <2>5, <1>1, RecolorIs
    <3> HIDE DEF u
    <3>4. HeaderKept(t0, u)
      BY <3>3, <1>1, HeaderKeptTwice
    <3>5. Cardinality(sub[g]) > k + 1
      BY <1>1, <1>3, <2>8
    <3>6. insertRound(s) = [tree |-> u, at |-> g]
      BY <2>0, <2>9 DEF u
    <3> QED
      BY <3>3, <3>4, <3>5, <3>6 DEF Rising
  <2>10. CASE ~IsRed(t, uncle) /\ x = t[p][Mirror(side)]
    <3> DEFINE a == rotate(t, p, side)
               sub1 == Turned(t, sub, p, side)
               u == lift(a, x, g, side)
    <3>1. Rotated(t, a, D, p, side) /\ Shape(a, D, N, sub1) /\ HeaderKept(t, a)
          /\ RedAt(a, N, bh, p)
      BY <2>10, <2>00, <2>2, <2>5, <1>1, InnerIs
    <3> HIDE DEF a, sub1
    <3>2. t[p][Mirror(side)] # null /\ x = t[p][Mirror(side)] /\ Mirror(side) \in Sides
          /\ Mirror(side) # side
      BY <2>5, <2>7, <2>10, MirrorIs
    <3>3. g \notin {p, x}
      <4>1. g # p
        BY <2>1, <2>2, <2>4, <2>5, <2>7, KidIs
      <4>2. x \in sub[p] /\ g \notin sub[p]
        BY <2>1, <2>2, <2>4, <2>5, <2>6, <2>7, KidIs
      <4> QED
        BY <4>1, <4>2
    <3>4. /\ \A n \in N : n \notin {p, x} =>
                \A q \in Sides : a[n][q] = IF t[n][q] = p THEN x ELSE t[n][q]
          /\ \A n \in N : a[n].is_red = t[n].is_red
          /\ a[x][side] = p
      BY <3>1, <3>2, <2>1, <2>2, <2>5, RotatedKids
    <3>5. a[g][side] = x /\ a[g][Mirror(side)] = uncle
      <4>1. uncle # p
        BY <2>1, <2>4, <2>5, <2>7, KidIs
      <4> QED
        BY <4>1, <3>2, <3>3, <3>4, <2>4, <2>5
    <3>6. a[x].is_red /\ ~IsRed(a, a[g][Mirror(side)])
      <4>1. t[x].is_red
        BY <1>1 DEF RedAt
      <4>2. uncle # null => uncle \in N
        BY <2>1, <2>4, <3>2, KidIs
      <4> QED
        BY <4>1, <4>2, <3>4, <3>5, <2>1, <2>10 DEF IsRed
    <3>7. \E sub2, bh2 : /\ Shape(u, D, N, sub2)
                         /\ HeaderKept(a, u)
                         /\ RedAt(u, N, bh2, p)
                         /\ insertSettled(u, p)
      BY <3>1, <3>4, <3>5, <3>6, <2>1, <2>4, <2>5, LiftIs
    <3>8. insertRound(s) = [tree |-> u, at |-> p]
      BY <2>0, <2>10 DEF u, a
    <3> HIDE DEF u
    <3>9. HeaderKept(t0, u)
      BY <3>1, <3>7, <1>1, HeaderKeptTwice
    <3> QED
      BY <3>7, <3>8, <3>9 DEF Rising
  <2>11. CASE ~IsRed(t, uncle) /\ x # t[p][Mirror(side)]
    <3> DEFINE u == lift(t, p, g, side)
    <3>1. t[p][side] = x
      BY <2>5, <2>6, <2>11, MirrorIs
    <3>2. \E sub2, bh2 : /\ Shape(u, D, N, sub2)
                         /\ HeaderKept(t, u)
                         /\ RedAt(u, N, bh2, x)
                         /\ insertSettled(u, x)
      BY <3>1, <2>00, <2>1, <2>2, <2>4, <2>5, <2>11, <1>1, LiftIs
    <3> HIDE DEF u
    <3>3. HeaderKept(t0, u)
      BY <3>2, <1>1, HeaderKeptTwice
    <3>4. insertRound(s) = [tree |-> u, at |-> x]
      BY <2>0, <2>11 DEF u
    <3> QED
      BY <3>2, <3>3, <3>4 DEF Rising
  <2> QED
    BY SMTT(30), <2>9, <2>10, <2>11
<1> QED
  BY <1>2, <1>3

InsertRoundsOf(f, first, m) ==
    f = [k \in 0..m |-> IF k = 0 THEN first ELSE insertRound(f[k - 1])]

\* The recursion over the rounds of insertNodeFixup is well defined.
LEMMA InsertRoundsExist ==
    ASSUME NEW first, NEW m \in Nat
    PROVE  \E f : InsertRoundsOf(f, first, m)
<1> DEFINE S == {k \in Nat : \E f : InsertRoundsOf(f, first, k)}
<1>1. 0 \in S
  <2> DEFINE g == [n \in 0..0 |-> first]
  <2>1. InsertRoundsOf(g, first, 0)
    BY DEF InsertRoundsOf
  <2> QED
    BY <2>1
<1>2. ASSUME NEW k \in Nat, k \in S PROVE k + 1 \in S
  <2>1. PICK f : InsertRoundsOf(f, first, k)
    BY <1>2
  <2> DEFINE g == [n \in 0..(k + 1) |-> IF n <= k THEN f[n] ELSE insertRound(f[k])]
             h == [n \in 0..(k + 1) |-> IF n = 0 THEN first ELSE insertRound(g[n - 1])]
  <2>2. \A n \in 0..(k + 1) : g[n] = h[n]
    BY <2>1 DEF InsertRoundsOf
  <2>3. g = h
    BY <2>2
  <2> HIDE DEF g
  <2>4. InsertRoundsOf(g, first, k + 1)
    BY <2>3 DEF InsertRoundsOf
  <2> QED
    BY <2>4
<1> HIDE DEF S
<1>3. m \in S
  BY <1>1, <1>2, Induct
<1> QED
  BY <1>3 DEF S

InsertSteps(f) == \A k \in 1..MaxValue : f[k] = insertRound(f[k - 1])

\* The rounds of insertNodeFixup start at the new node and follow each other.
LEMMA InsertRoundsAre ==
    ASSUME NEW t, NEW x
    PROVE  /\ insertRounds(t, x)[0] = [tree |-> t, at |-> x]
           /\ InsertSteps(insertRounds(t, x))
<1> DEFINE f == insertRounds(t, x)
           first == [tree |-> t, at |-> x]
<1>1. InsertRoundsOf(f, first, MaxValue)
  <2>1. \E g : InsertRoundsOf(g, first, MaxValue)
    BY SetAssumption, InsertRoundsExist
  <2>2. f = CHOOSE g : InsertRoundsOf(g, first, MaxValue)
    BY DEF insertRounds, InsertRoundsOf
  <2> HIDE DEF f, first
  <2> QED
    BY <2>1, <2>2
<1> HIDE DEF f, first
<1>2. f[0] = first
  BY <1>1, SetAssumption DEF InsertRoundsOf
<1>3. ASSUME NEW k \in 1..MaxValue PROVE f[k] = insertRound(f[k - 1])
  <2>1. k \in 0..MaxValue /\ k # 0
    BY SetAssumption
  <2> QED
    BY <1>1, <2>1 DEF InsertRoundsOf
<1> QED
  BY <1>2, <1>3 DEF f, first, InsertSteps

\* After as many rounds as there are values, the red pair has gone.
LEMMA InsertRoundsRise ==
    ASSUME NEW t, NEW D, NEW N, NEW sub, Shape(t, D, N, sub), NEW bh, NEW x, RedAt(t, N, bh, x)
    PROVE  Rising(t, D, N, MaxValue, insertRounds(t, x)[MaxValue])
<1> DEFINE f == insertRounds(t, x)
           S == {k \in Nat : k <= MaxValue => Rising(t, D, N, k, f[k])}
<1>1. 0 \in S
  <2>1. HeaderKept(t, t)
    BY DEF HeaderKept
  <2>2. Cardinality(sub[x]) > 0
    BY FiniteNodes DEF Shape, RedAt
  <2>3. f[0] = [tree |-> t, at |-> x]
    BY InsertRoundsAre
  <2> HIDE DEF f
  <2>4. f[0].tree = t /\ f[0].at = x
    BY <2>3
  <2>5. Rising(t, D, N, 0, f[0])
    BY <2>1, <2>2, <2>4 DEF Rising
  <2> QED
    BY <2>5
<1>2. ASSUME NEW k \in Nat, k \in S PROVE k + 1 \in S
  <2> SUFFICES ASSUME k + 1 <= MaxValue PROVE Rising(t, D, N, k + 1, f[k + 1])
    OBVIOUS
  <2>1. Rising(t, D, N, k, f[k])
    BY <1>2, SetAssumption
  <2>2. f[k + 1] = insertRound(f[k])
    <3> DEFINE j == k + 1
    <3>1. j \in 1..MaxValue /\ j - 1 = k
      BY SetAssumption
    <3>2. InsertSteps(f)
      BY InsertRoundsAre
    <3> HIDE DEF j, f
    <3>3. f[j] = insertRound(f[j - 1])
      BY <3>1, <3>2 DEF InsertSteps
    <3> QED
      BY <3>1, <3>3 DEF j
  <2> HIDE DEF f
  <2> QED
    BY <2>1, <2>2, InsertRoundIs
<1> HIDE DEF S
<1>3. MaxValue \in S
  BY <1>1, <1>2, SetAssumption, Induct
<1> QED
  BY <1>3, SetAssumption DEF S

\* What every operation leaves: a red-black tree with its counts.
RedBlack(t, N, sub, bh) ==
    /\ bh \in [N -> Nat]
    /\ \A n \in N, s \in Sides : PairAt(t, n, s, {}, {})
    /\ Level(t, N, bh)
    /\ N # {} => ~t[root(t)].is_red

\* insertNodeFixup leaves a red-black tree with right counts.
LEMMA InsertFixupIs ==
    ASSUME NEW t, NEW D, NEW N, NEW sub, Shape(t, D, N, sub), NEW bh, NEW x, RedAt(t, N, bh, x)
    PROVE  LET u == insertNodeFixup(t, x)
           IN  /\ HeaderKept(t, u)
               /\ \E sub2, bh2 : Shape(u, D, N, sub2) /\ RedBlack(u, N, sub2, bh2)
<1> DEFINE last == insertRounds(t, x)[MaxValue]
           w == last.tree
           at == last.at
           v == updateNodeCountToTop(w, at)
           top == v[header].parent
           u == Painted(v, top, FALSE)
<1>1. Rising(t, D, N, MaxValue, last)
  BY InsertRoundsRise
<1>2. insertNodeFixup(t, x) = u
  BY DEF insertNodeFixup, BlackenRoot, Painted
<1> HIDE DEF last
<1>3. PICK sub2, bh1 : /\ Shape(w, D, N, sub2)
                       /\ HeaderKept(t, w)
                       /\ RedAt(w, N, bh1, at)
                       /\ insertSettled(w, at) \/ Cardinality(sub2[at]) > MaxValue
  BY <1>1 DEF Rising
<1> HIDE DEF w, at
<1>4. TypedTree(w, D) /\ N \subseteq D /\ Linked(w, N, sub2) /\ at \in N
      /\ \A n \in N : Counted(w, sub2, n)
  BY <1>3 DEF Shape, RedAt
<1>5. insertSettled(w, at)
  BY <1>3, <1>4, FiniteNodes, SetAssumption
<1>6. SameButCounts(w, v, D) /\ \A m \in N : Counted(v, sub2, m)
  <2>1. CountedBut(w, N, sub2, at)
    BY <1>4 DEF CountedBut
  <2> QED
    BY <2>1, <1>4, CountToTopIs
<1> HIDE DEF v
<1>61. TypedTree(v, D)
  BY <1>6 DEF SameButCounts
<1>7. SameLinks(w, v, N) /\ HeaderKept(w, v) /\ TypedTree(v, D)
      /\ \A m \in D \cup {header} : v[m].is_red = w[m].is_red
  BY <1>4, <1>6, <1>61, SameButCountsKeeps
<1>8. Shape(v, D, N, sub2)
  BY <1>4, <1>6, <1>7, SameLinked DEF Shape
<1>9. top = root(w) /\ top = root(v) /\ top \in N /\ top \in D
  <2>1. root(w) \in N
    BY <1>4 DEF Linked, RootFits
  <2> QED
    BY <2>1, <1>4, <1>7 DEF SameLinks, root
<1> HIDE DEF top
<1>10. PaintedToo(v, v, u, D, top, FALSE)
  <2>1. SameButColours(v, v, D)
    BY <1>7, PaintNone
  <2> QED
    BY <2>1, <1>9, PaintOne
<1> HIDE DEF u
<1>11. SameButColours(v, u, D) /\ \A m \in D : u[m].is_red = IF m = top THEN FALSE ELSE v[m].is_red
  BY <1>10 DEF PaintedToo
<1>12. Shape(u, D, N, sub2) /\ HeaderKept(v, u) /\ SameLinks(v, u, N)
       /\ \A n \in N, s \in Sides : u[n][s] = v[n][s]
  BY <1>8, <1>11, PaintShape
<1>13. HeaderKept(t, u)
  <2>1. HeaderKept(t, v)
    BY <1>3, <1>7, HeaderKeptTwice
  <2> QED
    BY <2>1, <1>12, HeaderKeptTwice
<1>14. /\ \A n \in N, s \in Sides : u[n][s] = w[n][s]
       /\ \A n \in N : u[n].is_red = IF n = top THEN FALSE ELSE w[n].is_red
       /\ root(u) = top
  BY ZenonT(40), <1>4, <1>7, <1>9, <1>11, <1>12 DEF SameLinks
<1>15. /\ bh1 \in [N -> Nat] /\ Level(w, N, bh1)
       /\ \A n \in N, s \in Sides : PairAt(w, n, s, {}, {at})
  <2>1. bh1 \in [N -> Nat] /\ \A n \in N : HeightAt(w, bh1, n, null, "left")
    BY <1>3 DEF RedAt, Coloured
  <2>2. Level(w, N, bh1)
    BY <2>1, <1>4, LevelIs
  <2> QED
    BY <2>1, <2>2, <1>3 DEF RedAt, Coloured
<1>16. \A n \in N, s \in Sides : w[n][s] # null =>
            w[n][s] \in N /\ w[n][s] # n /\ w[w[n][s]].parent = n /\ w[n][s] # top
  <2>1. w[top].parent = header /\ header \notin N
    BY ZenonT(40), <1>4, <1>9, ParentIs2, Plain
  <2> QED
    BY <2>1, <1>4, KidIs
<1>17. ASSUME NEW n \in N, NEW s \in Sides PROVE PairAt(u, n, s, {}, {})
  <2> SUFFICES ASSUME u[n].is_red, u[n][s] # null, u[u[n][s]].is_red PROVE FALSE
    BY DEF PairAt
  <2> DEFINE k == w[n][s]
  <2>01. n # top /\ w[n].is_red
    BY <1>14
  <2>02. u[n][s] = k
    BY <1>14
  <2>03. k # null
    BY <2>02
  <2>04. k \in N /\ k # top /\ w[k].parent = n
    BY <2>03, <1>16
  <2>1. u[n][s] = k /\ k # null /\ k \in N /\ k # top /\ n # top /\ w[n].is_red /\ w[k].parent = n
    BY <2>01, <2>02, <2>03, <2>04
  <2>2. w[k].is_red
    BY <2>1, <1>14
  <2>3. k = at
    BY <2>1, <2>2, <1>15 DEF PairAt
  <2> HIDE DEF k
  <2>4. at = root(w) \/ ~w[w[at].parent].is_red
    BY <1>5 DEF insertSettled
  <2>5. at # root(w)
    BY <2>1, <2>3, <1>9
  <2>6. w[at].parent = n
    BY <2>1, <2>3
  <2> QED
    BY <2>1, <2>4, <2>5, <2>6
<1> DEFINE bh2 == [n \in N |-> IF n = top /\ w[n].is_red THEN bh1[n] + 1 ELSE bh1[n]]
<1>18. Level(u, N, bh2)
  <2> SUFFICES ASSUME NEW n \in N, NEW s \in Sides PROVE bh2[n] = H(bh2, u[n][s]) + Black(u, n)
    BY DEF Level
  <2> DEFINE k == w[n][s]
  <2>1. bh1[n] = H(bh1, k) + Black(w, n)
    BY <1>15 DEF Level
  <2>2. u[n][s] = k /\ (k # null => k \in N /\ k # top)
    BY <1>14, <1>16
  <2>3. H(bh2, k) = H(bh1, k) /\ H(bh1, k) \in Nat
    BY <2>2, <1>15 DEF H
  <2>4. Black(u, n) = IF n = top THEN 1 ELSE Black(w, n)
    BY <1>14 DEF Black
  <2>5. Black(w, n) = IF w[n].is_red THEN 0 ELSE 1
    BY DEF Black
  <2>6. bh2[n] = IF n = top /\ w[n].is_red THEN bh1[n] + 1 ELSE bh1[n]
    OBVIOUS
  <2> HIDE DEF bh2, k
  <2> QED
    BY <2>1, <2>2, <2>3, <2>4, <2>5, <2>6, <1>15
<1>19. bh2 \in [N -> Nat] /\ ~u[root(u)].is_red
  <2>1. bh2 \in [N -> Nat]
    BY <1>15
  <2>2. ~u[top].is_red
    BY <1>9, <1>14
  <2> QED
    BY <2>1, <2>2, <1>14
<1>20. RedBlack(u, N, sub2, bh2)
  BY <1>17, <1>18, <1>19 DEF RedBlack
<1> QED
  BY <1>2, <1>12, <1>13, <1>20

\* u is t with a red leaf v below p.
Grown(t, u, N, v, p, side) ==
    /\ TypedTree(u, N \cup {v})
    /\ root(u) = root(t)
    /\ u[v].is_red /\ u[v].parent = p /\ \A s \in Sides : u[v][s] = null
    /\ \A n \in N : /\ u[n].is_red = t[n].is_red
                    /\ u[n].parent = t[n].parent
                    /\ u[n].node_count = t[n].node_count
                    /\ \A s \in Sides : u[n][s] = IF n = p /\ s = side THEN v ELSE t[n][s]

\* The subtrees with it.
GrownSub(sub, N, v, p) ==
    [n \in N \cup {v} |-> IF n = v THEN {v} ELSE IF p \in sub[n] THEN sub[n] \cup {v} ELSE sub[n]]

\* A leaf at an empty place between its neighbours keeps the tree linked and in order.
LEMMA GrownLinked ==
    ASSUME NEW t, NEW N, NEW sub, Linked(t, N, sub), NEW v \in Values \ N,
           NEW p \in N, NEW side \in Sides, t[p][side] = null,
           Off(side, v, p), \A e \in N : Off(side, e, p) => Off(side, e, v),
           NEW u, Grown(t, u, N, v, p, side)
    PROVE  Linked(u, N \cup {v}, GrownSub(sub, N, v, p))
<1> DEFINE N2 == N \cup {v}
           sub2 == GrownSub(sub, N, v, p)
<1>1. N2 \subseteq Values /\ N \subseteq Int /\ v \in Int /\ p \in Int /\ null # v
      /\ v # header /\ v # p
      /\ header \notin N /\ null \notin N
      /\ \A n \in N : n \in sub[n] /\ sub[n] \subseteq N
  BY Plain, ValuesAre
<1>2. sub2[v] = {v} /\ \A n \in N : sub2[n] = IF p \in sub[n] THEN sub[n] \cup {v} ELSE sub[n]
  BY DEF GrownSub
<1>3. sub2 \in [N2 -> SUBSET N2]
  BY <1>1 DEF GrownSub
<1>4. \A n \in N, s \in Sides : t[n][s] # null => t[n][s] \in N /\ t[t[n][s]].parent = n
  BY KidIs
<1> HIDE DEF sub2
<1>5. KidsFit(u, N2, sub2, v)
  <2>1. sub2[v] = {v} \cup Under(sub2, null) \cup Under(sub2, null)
    BY <1>2 DEF Under
  <2> QED
    BY <2>1, MirrorIs DEF KidsFit, Grown, Under
<1>6. ASSUME NEW n \in N, NEW m \in N, NEW s \in Sides, \A e \in sub[m] : Off(s, e, n), p \in sub[m]
      PROVE  Off(s, v, n)
  <2>1. Off(s, p, n) /\ n \in Int
    BY <1>1, <1>6
  <2>2. CASE s = side
    BY <2>1, <2>2, <1>1, OffIs
  <2>3. CASE s = Mirror(side)
    <3>1. Off(side, n, p)
      BY <2>1, <2>3, <1>1, OffIs, MirrorIs
    <3>2. Off(side, n, v)
      BY <3>1
    <3> QED
      BY <3>2, <2>1, <2>3, <1>1, OffIs, MirrorIs
  <2> QED
    BY <2>2, <2>3, MirrorIs
<1>7. ASSUME NEW n \in N, n # p PROVE KidsFit(u, N2, sub2, n)
  <2> SUFFICES ASSUME NEW s \in Sides
               PROVE  /\ sub2[n] = {n} \cup Under(sub2, u[n][s]) \cup Under(sub2, u[n][Mirror(s)])
                      /\ u[n][s] # null => u[n][s] \in N2 /\ u[u[n][s]].parent = n
                      /\ \A m \in Under(sub2, u[n][s]) : Off(s, m, n)
    BY DEF KidsFit
  <2> DEFINE a == t[n][s]
             b == t[n][Mirror(s)]
  <2>0. Mirror(s) \in Sides
    BY MirrorIs
  <2>01. \A r \in Sides : u[n][r] = t[n][r]
    BY <1>7 DEF Grown
  <2>1. Mirror(s) \in Sides /\ u[n][s] = a /\ u[n][Mirror(s)] = b
    BY <2>0, <2>01
  <2>2. /\ sub[n] = {n} \cup Under(sub, a) \cup Under(sub, b)
        /\ \A m \in Under(sub, a) : Off(s, m, n)
        /\ a # null => a \in N /\ t[a].parent = n
        /\ b # null => b \in N
    <3>1. KidsFit(t, N, sub, n)
      BY DEF Linked
    <3>2. (a # null => a \in N /\ t[a].parent = n) /\ (b # null => b \in N)
      BY <2>0, <1>4
    <3> QED
      BY <3>1, <3>2 DEF KidsFit
  <2> HIDE DEF a, b
  <2>3. \A k : (k # null => k \in N) =>
            Under(sub2, k) = IF p \in Under(sub, k) THEN Under(sub, k) \cup {v} ELSE Under(sub, k)
    BY <1>2 DEF Under
  <2>4. sub2[n] = {n} \cup Under(sub2, a) \cup Under(sub2, b)
    <3> DEFINE A == Under(sub, a)
               B == Under(sub, b)
    <3>1. Under(sub2, a) = (IF p \in A THEN A \cup {v} ELSE A)
          /\ Under(sub2, b) = (IF p \in B THEN B \cup {v} ELSE B)
      BY <2>2, <2>3
    <3>2. sub2[n] = IF p \in sub[n] THEN sub[n] \cup {v} ELSE sub[n]
      BY <1>2
    <3>3. sub[n] = {n} \cup A \cup B /\ p # n
      BY <2>2, <1>7
    <3> HIDE DEF A, B
    <3> QED
      BY <3>1, <3>2, <3>3
  <2>5. a # null => a \in N2 /\ u[a].parent = n
    BY <2>2 DEF Grown
  <2>6. \A m \in Under(sub2, a) : Off(s, m, n)
    <3>1. p \in Under(sub, a) => Off(s, v, n)
      <4> SUFFICES ASSUME p \in Under(sub, a) PROVE Off(s, v, n)
        OBVIOUS
      <4>1. a \in N /\ p \in sub[a] /\ \A m \in sub[a] : Off(s, m, n)
        BY <2>2 DEF Under
      <4> QED
        BY <4>1, <1>6
    <3> QED
      BY <3>1, <2>2, <2>3
  <2> QED
    BY <2>1, <2>4, <2>5, <2>6
<1>8. KidsFit(u, N2, sub2, p)
  <2> DEFINE b == t[p][Mirror(side)]
  <2>1. Mirror(side) \in Sides /\ Mirror(side) # side
    BY MirrorIs
  <2>2. u[p][side] = v /\ u[p][Mirror(side)] = b
    BY <2>1 DEF Grown
  <2>3. /\ sub[p] = {p} \cup Under(sub, b)
        /\ \A m \in Under(sub, b) : Off(Mirror(side), m, p)
        /\ b # null => b \in N /\ t[b].parent = p
    <3>1. sub[p] = {p} \cup Under(sub, null) \cup Under(sub, b)
      BY DEF Linked, KidsFit
    <3>2. \A m \in Under(sub, b) : Off(Mirror(side), m, p)
      BY <2>1 DEF Linked, KidsFit
    <3> QED
      BY <3>1, <3>2, <2>1, <1>4 DEF Under
  <2> HIDE DEF b
  <2>4. p \notin Under(sub, b)
    BY <2>3, <1>1, OffIs, MirrorIs
  <2>5. Under(sub2, b) = Under(sub, b) /\ Under(sub2, v) = {v}
    BY <2>3, <2>4, <1>1, <1>2 DEF Under
  <2>6. sub2[p] = {p} \cup Under(sub2, v) \cup Under(sub2, b)
    BY <2>3, <2>5, <1>1, <1>2
  <2>7. v \in N2 /\ u[v].parent = p /\ (b # null => b \in N2 /\ u[b].parent = p)
    BY <2>3 DEF Grown
  <2>8. (\A m \in Under(sub2, v) : Off(side, m, p))
        /\ (\A m \in Under(sub2, b) : Off(Mirror(side), m, p))
    BY <2>3, <2>5
  <2> HIDE DEF N2
  <2> QED
    BY <2>2, <2>6, <2>7, <2>8, KidsFitBy
<1>9. ASSUME NEW n \in N2 PROVE ParentFits(u, N2, n)
  <2>1. CASE n = v
    BY <2>1, <1>1 DEF Grown, ParentFits
  <2>2. CASE n # v
    <3> DEFINE q == t[n].parent
    <3>2. n \in N /\ u[n].parent = q
      BY <2>2 DEF Grown
    <3>3. q = header => root(t) = n
      BY <3>2, ParentIs2
    <3>4. q # header => q \in N /\ \E s \in Sides : t[q][s] = n
      BY <3>2, ParentIs2
    <3> HIDE DEF q
    <3>5. ASSUME q # header PROVE q \in N2 /\ \E s \in Sides : u[q][s] = n
      <4>1. PICK s \in Sides : t[q][s] = n
        BY <3>4, <3>5
      <4>2. n # null
        BY <3>2, <1>1
      <4>3. q \in N
        BY <3>4, <3>5
      <4>4. u[q][s] = n
        BY <4>1, <4>2, <4>3 DEF Grown
      <4> QED
        BY <4>3, <4>4
    <3> QED
      BY <3>2, <3>3, <3>5 DEF ParentFits, Grown
  <2> QED
    BY <2>1, <2>2
<1>10. RootFits(u, N2, sub2)
  <2>1. root(t) \in N /\ t[root(t)].parent = header /\ sub[root(t)] = N
    BY DEF Linked, RootFits
  <2>2. root(u) = root(t) /\ root(t) # null
    BY <2>1, <1>1 DEF Grown
  <2> HIDE DEF root
  <2>3. u[root(t)].parent = header
    BY <2>1 DEF Grown
  <2>4. sub2[root(t)] = N2
    BY <2>1, <1>2
  <2> QED
    BY <2>1, <2>2, <2>3, <2>4 DEF RootFits
<1> QED
  BY <1>1, <1>3, <1>5, <1>7, <1>8, <1>9, <1>10 DEF Linked, sub2

Leaf(p) == [is_red |-> TRUE, parent |-> p, left |-> null, right |-> null, node_count |-> 0]

\* The leaf before it is linked from above.
Added(t, v, p) == [n \in DOMAIN t \cup {v} |-> IF n = v THEN Leaf(p) ELSE t[n]]

\* A new node changes no other one.
LEMMA AddedIs ==
    ASSUME NEW t, NEW N, TypedTree(t, N), NEW v \in Values \ N, NEW p \in N \cup {header}
    PROVE  LET u == Added(t, v, p)
           IN  /\ TypedTree(u, N \cup {v})
               /\ u[v] = Leaf(p)
               /\ \A n \in N \cup {header} : u[n] = t[n]
<1>1. v # header /\ N \subseteq Values /\ Values \subseteq Int /\ header \in Int /\ null \in Int
  BY ValuesAre DEF TypedTree, header, null
<1>2. Leaf(p) \in TreeNode
  BY <1>1 DEF Leaf, TreeNode
<1>3. DOMAIN t = N \cup {header} /\ \A n \in N \cup {header} : t[n] \in TreeNode
  BY DEF TypedTree
<1> QED
  BY <1>1, <1>2, <1>3 DEF Added, TypedTree

\* A tree in which v, the last node that was linked, is red and not counted yet.
Hung(u, N, v) ==
    /\ TypedTree(u, N)
    /\ \E sub, bh : /\ Linked(u, N, sub)
                    /\ CountedBut(u, N, sub, v)
                    /\ RedAt(u, N, bh, v)

\* The tree with the new leaf, ready to be counted and coloured.
LEMMA GrowIs ==
    ASSUME NEW t, NEW N, NEW sub, Shape(t, N, N, sub), NEW bh, RedBlack(t, N, sub, bh),
           NEW v \in Values \ N,
           NEW p \in N, NEW side \in Sides, t[p][side] = null,
           Off(side, v, p), \A e \in N : Off(side, e, p) => Off(side, e, v)
    PROVE  LET u == Write(Added(t, v, p), p, side, v)
           IN  Hung(u, N \cup {v}, v) /\ u[header] = t[header]
<1> DEFINE N2 == N \cup {v}
           a == Added(t, v, p)
           u == Write(a, p, side, v)
           sub2 == GrownSub(sub, N, v, p)
           bh2 == [n \in N2 |-> IF n = v THEN 0 ELSE bh[n]]
<1>1. TypedTree(t, N) /\ Linked(t, N, sub) /\ \A n \in N : Counted(t, sub, n)
  BY DEF Shape
<1>2. /\ v # header /\ v # null /\ v \in Int /\ header \notin N /\ null \notin N /\ p # v
      /\ \A n \in N : n \in sub[n] /\ sub[n] \subseteq N
  BY <1>1, Plain, ValuesAre
<1>3. TypedTree(a, N2) /\ a[v] = Leaf(p) /\ \A n \in N \cup {header} : a[n] = t[n]
  BY <1>1, AddedIs
<1> HIDE DEF a
<1>4. Wrote(a, u, N2, p, side, v)
  <2>1. side \in Fields /\ Fits(side, v)
    BY <1>2 DEF Fields, Fits, Sides
  <2> QED
    BY <2>1, <1>3, WriteIs
<1>5. u[header] = t[header] /\ u[v] = Leaf(p)
  <2>1. header # p /\ v # p
    BY <1>2
  <2>2. u[header] = a[header] /\ u[v] = a[v]
    BY <2>1, <1>3, <1>2 DEF Write, TypedTree
  <2> QED
    BY <2>2, <1>3
<1> HIDE DEF u
<1>6. Grown(t, u, N, v, p, side)
  <2>1. TypedTree(u, N2)
    BY <1>4 DEF Wrote
  <2>2. root(u) = root(t)
    BY <1>5 DEF root
  <2>3. u[v].is_red /\ u[v].parent = p /\ \A s \in Sides : u[v][s] = null
    BY <1>5 DEF Leaf, Sides
  <2>4. \A n \in N, g \in Fields : u[n][g] = IF n = p /\ g = side THEN v ELSE t[n][g]
    BY <1>3, <1>4 DEF Wrote
  <2>5. ASSUME NEW n \in N
        PROVE  /\ u[n].is_red = t[n].is_red
               /\ u[n].parent = t[n].parent
               /\ u[n].node_count = t[n].node_count
               /\ \A s \in Sides : u[n][s] = IF n = p /\ s = side THEN v ELSE t[n][s]
    <3>1. {"is_red", "parent", "node_count"} \cup Sides \subseteq Fields
          /\ side \notin {"is_red", "parent", "node_count"}
      BY DEF Fields, Sides
    <3> QED
      BY <3>1, <2>4
  <2> QED
    BY <2>1, <2>2, <2>3, <2>5 DEF Grown
<1>7. Linked(u, N2, sub2)
  BY <1>1, <1>6, GrownLinked
<1>8. CountedBut(u, N2, sub2, v)
  <2> SUFFICES ASSUME NEW m \in N2, v \notin sub2[m] PROVE Counted(u, sub2, m)
    BY <1>2 DEF CountedBut
  <2>1. m \in N /\ p \notin sub[m] /\ sub2[m] = sub[m]
    BY DEF GrownSub
  <2>2. u[m].node_count = t[m].node_count
    BY <2>1, <1>6 DEF Grown
  <2> QED
    BY <2>1, <2>2, <1>1 DEF Counted
<1>9. \A n \in N, s \in Sides : t[n][s] # null => t[n][s] \in N
  BY <1>1, KidIs
<1>10. bh2 \in [N2 -> Nat]
  BY DEF RedBlack
<1>11. Level(u, N2, bh2)
  <2> SUFFICES ASSUME NEW n \in N2, NEW s \in Sides PROVE bh2[n] = H(bh2, u[n][s]) + Black(u, n)
    BY DEF Level
  <2>1. CASE n = v
    <3>1. u[v][s] = null /\ u[v].is_red
      BY <1>6 DEF Grown
    <3> QED
      BY <2>1, <3>1 DEF H, Black
  <2>2. CASE n # v
    <3>1. n \in N /\ bh[n] = H(bh, t[n][s]) + Black(t, n)
      BY <2>2 DEF RedBlack, Level
    <3>2. Black(u, n) = Black(t, n) /\ u[n][s] = IF n = p /\ s = side THEN v ELSE t[n][s]
      BY <3>1, <1>6 DEF Grown, Black
    <3>3. H(bh2, u[n][s]) = H(bh, t[n][s])
      <4>1. CASE n = p /\ s = side
        BY <4>1, <3>2, <1>2 DEF H
      <4>2. CASE ~(n = p /\ s = side)
        BY <4>2, <3>1, <3>2, <1>2, <1>9 DEF H
      <4> QED
        BY <4>1, <4>2
    <3> QED
      BY <2>2, <3>1, <3>2, <3>3
  <2> QED
    BY <2>1, <2>2
<1>12. ASSUME NEW n \in N2, NEW s \in Sides PROVE PairAt(u, n, s, {}, {v})
  <2>1. CASE n = v
    <3>1. u[v][s] = null
      BY <1>6 DEF Grown
    <3> QED
      BY <2>1, <3>1 DEF PairAt
  <2>2. CASE n # v
    <3>1. n \in N /\ u[n].is_red = t[n].is_red
      BY <2>2, <1>6 DEF Grown
    <3>2. u[n][s] = IF n = p /\ s = side THEN v ELSE t[n][s]
      BY <3>1, <1>6 DEF Grown
    <3>3. CASE n = p /\ s = side
      BY <3>2, <3>3 DEF PairAt
    <3>4. CASE ~(n = p /\ s = side)
      <4>1. u[n][s] = t[n][s] /\ PairAt(t, n, s, {}, {})
        BY <3>1, <3>2, <3>4 DEF RedBlack
      <4>2. t[n][s] # null => t[n][s] \in N /\ u[t[n][s]].is_red = t[t[n][s]].is_red
        BY <3>1, <1>6, <1>9 DEF Grown
      <4> QED
        BY <4>1, <4>2, <3>1 DEF PairAt
    <3> QED
      BY <3>3, <3>4
  <2> QED
    BY <2>1, <2>2
<1>13. v \in N2 /\ u[v].is_red /\ ~u[root(u)].is_red
  <2>1. root(t) \in N
    BY <1>1 DEF Linked, RootFits
  <2>2. root(u) = root(t) /\ ~t[root(t)].is_red /\ u[v].is_red
    BY <1>6 DEF Grown, RedBlack
  <2> HIDE DEF root
  <2> QED
    BY <2>1, <2>2, <1>6 DEF Grown
<1>14. RedAt(u, N2, bh2, v)
  <2>1. \A n \in N2 : HeightAt(u, bh2, n, null, "left")
    BY <1>7, <1>10, <1>11, LevelIs
  <2> HIDE DEF bh2, N2
  <2> QED
    BY <2>1, <1>10, <1>12, <1>13 DEF RedAt, Coloured
<1>15. TypedTree(u, N2)
  BY <1>4 DEF Wrote
<1>16. Hung(u, N2, v)
  BY <1>7, <1>8, <1>14, <1>15 DEF Hung
<1> QED
  BY <1>5, <1>16 DEF u, a

\* The first node of a tree.
LEMMA PlantIs ==
    ASSUME NEW t, TypedTree(t, {}), NEW v \in Values
    PROVE  LET u == Write(Added(t, v, header), header, "parent", v)
           IN  /\ Hung(u, {v}, v)
               /\ u[header] = [t[header] EXCEPT !.parent = v]
<1> DEFINE p == header
           a == Added(t, v, p)
           u == Write(a, p, "parent", v)
           sub2 == [n \in {v} |-> {v}]
           bh2 == [n \in {v} |-> 0]
<1>1. v # header /\ v # null /\ v \in Int
  BY ValuesAre
<1>2. TypedTree(a, {v}) /\ a[v] = Leaf(p) /\ a[header] = t[header]
  <2> DEFINE N == {}
  <2>1. TypedTree(t, N) /\ v \in Values \ N /\ p \in N \cup {header}
    OBVIOUS
  <2> HIDE DEF N, p
  <2>2. TypedTree(a, N \cup {v}) /\ a[v] = Leaf(p) /\ \A n \in N \cup {header} : a[n] = t[n]
    BY <2>1, AddedIs
  <2> QED
    BY <2>2 DEF N, p
<1> HIDE DEF a
<1>3. TypedTree(u, {v})
  <2>1. "parent" \in Fields /\ Fits("parent", v) /\ p \in {v} \cup {header}
    BY <1>1 DEF Fields, Fits
  <2> HIDE DEF p
  <2>2. Wrote(a, u, {v}, p, "parent", v)
    BY <2>1, <1>2, WriteIs
  <2> QED
    BY <2>2 DEF Wrote
<1>4. u[header] = [t[header] EXCEPT !.parent = v] /\ u[v] = Leaf(header)
  BY <1>1, <1>2 DEF Write, TypedTree
<1>5. root(u) = v /\ u[v].parent = header /\ u[v].is_red /\ \A s \in Sides : u[v][s] = null
  <2>1. t[header] \in TreeNode
    BY DEF TypedTree
  <2> QED
    BY <2>1, <1>4 DEF root, Leaf, Sides, TreeNode
<1> HIDE DEF u, p
<1>6. Linked(u, {v}, sub2)
  <2>1. KidsFit(u, {v}, sub2, v)
    BY <1>5, MirrorIs DEF KidsFit, Under
  <2>2. ParentFits(u, {v}, v) /\ RootFits(u, {v}, sub2)
    BY <1>1, <1>5 DEF ParentFits, RootFits
  <2> QED
    BY <2>1, <2>2 DEF Linked
<1>7. CountedBut(u, {v}, sub2, v)
  BY <1>1 DEF CountedBut
<1>8. Level(u, {v}, bh2) /\ bh2 \in [{v} -> Nat]
  BY <1>5 DEF Level, H, Black
<1>9. RedAt(u, {v}, bh2, v)
  <2> DEFINE N == {v}
  <2>1. Linked(u, N, sub2) /\ bh2 \in [N -> Nat] /\ Level(u, N, bh2)
    BY <1>6, <1>8
  <2> HIDE DEF N, bh2, sub2
  <2>2. \A n \in N : HeightAt(u, bh2, n, null, "left")
    BY <2>1, LevelIs
  <2>3. \A n \in N, s \in Sides : PairAt(u, n, s, {}, {v})
    BY <1>5 DEF PairAt, N
  <2>4. v \in N /\ u[v].is_red /\ root(u) = v
    BY <1>5 DEF N
  <2>5. RedAt(u, N, bh2, v)
    BY <2>1, <2>2, <2>3, <2>4 DEF RedAt, Coloured
  <2> QED
    BY <2>5 DEF N
<1>10. Hung(u, {v}, v)
  BY <1>3, <1>6, <1>7, <1>9 DEF Hung
<1> QED
  BY <1>4, <1>10 DEF u, a, p

-----------------------------------------------------------------------------
(* The whole set *)

\* The header's ends and count.
Headed(h, N) ==
    /\ h.is_red
    /\ h.node_count = Cardinality(N)
    /\ ExtremeIs("left", N, h.left)
    /\ ExtremeIs("right", N, h.right)

\* A sound set of the elements N.
SetOk(t, N) ==
    /\ \E sub, bh : Shape(t, N, N, sub) /\ RedBlack(t, N, sub, bh)
    /\ Headed(t[header], N)

\* Two trees that agree on the nodes N.
SameOn(t, u, N) == root(u) = root(t) /\ \A n \in N : u[n] = t[n]

\* Shape and colours depend on the nodes and the root alone.
LEMMA SameOnIs ==
    ASSUME NEW t, NEW u, NEW N, SameOn(t, u, N), NEW sub, Linked(t, N, sub)
    PROVE  /\ Linked(u, N, sub)
           /\ \A D2 : TypedTree(u, D2) /\ N \subseteq D2 /\ (\A n \in N : Counted(t, sub, n))
              => Shape(u, D2, N, sub)
           /\ \A bh, x : RedAt(t, N, bh, x) => RedAt(u, N, bh, x)
           /\ \A bh : RedBlack(t, N, sub, bh) => RedBlack(u, N, sub, bh)
<1>1. root(u) = root(t) /\ \A n \in N : u[n] = t[n]
  BY DEF SameOn
<1>2. Linked(u, N, sub)
  <2>1. SameLinks(t, u, N)
    BY <1>1 DEF SameLinks
  <2> QED
    BY <2>1, SameLinked
<1>3. ASSUME NEW D2, TypedTree(u, D2), N \subseteq D2, \A n \in N : Counted(t, sub, n)
      PROVE  Shape(u, D2, N, sub)
  BY <1>1, <1>2, <1>3 DEF Shape, Counted
<1>4. \A n \in N, s \in Sides : t[n][s] # null => t[n][s] \in N
  BY KidIs
<1>5. ASSUME NEW n \in N, NEW s \in Sides, NEW A, NEW B, PairAt(t, n, s, A, B)
      PROVE PairAt(u, n, s, A, B)
  BY <1>1, <1>4, <1>5 DEF PairAt
<1>6. ASSUME NEW bh, NEW n \in N, NEW s \in Sides
      PROVE  H(bh, u[n][s]) = H(bh, t[n][s]) /\ Black(u, n) = Black(t, n)
  BY <1>1 DEF Black
<1>7. ASSUME NEW bh, NEW x, RedAt(t, N, bh, x) PROVE RedAt(u, N, bh, x)
  <2>1. x \in N /\ t[x].is_red /\ Coloured(t, N, bh, {}, {x}, null, "left") /\ (root(t) # x
        => ~t[root(t)].is_red)
    BY <1>7 DEF RedAt
  <2>2. Coloured(u, N, bh, {}, {x}, null, "left")
    BY <2>1, <1>5, <1>6 DEF Coloured, HeightAt
  <2>3. root(t) \in N
    BY <2>1 DEF Linked, RootFits
  <2> HIDE DEF root
  <2> QED
    BY <2>1, <2>2, <2>3, <1>1 DEF RedAt
<1>8. ASSUME NEW bh, RedBlack(t, N, sub, bh) PROVE RedBlack(u, N, sub, bh)
  <2>1. /\ bh \in [N -> Nat]
        /\ \A n \in N, s \in Sides : PairAt(t, n, s, {}, {})
        /\ Level(t, N, bh)
        /\ N # {} => ~t[root(t)].is_red
    BY <1>8 DEF RedBlack
  <2>2. Level(u, N, bh)
    BY <2>1, <1>6 DEF Level
  <2>3. N # {} => root(t) \in N
    BY DEF Linked, RootFits
  <2> HIDE DEF root
  <2> QED
    BY <2>1, <2>2, <2>3, <1>1, <1>5 DEF RedBlack
<1> QED
  BY <1>2, <1>3, <1>7, <1>8

\* The header is written as a whole.
LEMMA HeaderIs ==
    ASSUME NEW t, NEW D, TypedTree(t, D), NEW h \in TreeNode, h.parent = root(t)
    PROVE  LET u == [t EXCEPT ![header] = h]
           IN  /\ TypedTree(u, D)
               /\ u[header] = h
               /\ \A N : N \subseteq D => SameOn(t, u, N)
<1> DEFINE u == [t EXCEPT ![header] = h]
<1>1. header \notin D /\ DOMAIN t = D \cup {header}
  BY ValuesAre DEF TypedTree
<1>2. TypedTree(u, D) /\ u[header] = h /\ \A n \in D : u[n] = t[n]
  BY <1>1 DEF TypedTree
<1> HIDE DEF u
<1>3. root(u) = root(t)
  BY <1>2 DEF root
<1> QED
  BY <1>2, <1>3 DEF SameOn, u

\* The tail of an insertion: counts, header, colours.
LEMMA SettleIs ==
    ASSUME NEW t, NEW N, NEW v \in N, Hung(t, N, v),
           NEW h \in TreeNode, h.parent = root(t), Headed(h, N)
    PROVE  SetOk(insertNodeFixup([updateNodeCountToTop(t, v) EXCEPT ![header] = h], v), N)
<1> DEFINE c == updateNodeCountToTop(t, v)
           w == [c EXCEPT ![header] = h]
           u == insertNodeFixup(w, v)
<1>1. PICK sub, bh : Linked(t, N, sub) /\ CountedBut(t, N, sub, v) /\ RedAt(t, N, bh, v)
  BY DEF Hung
<1>2. TypedTree(t, N)
  BY DEF Hung
<1>3. SameButCounts(t, c, N) /\ \A n \in N : Counted(c, sub, n)
  BY <1>1, <1>2, CountToTopIs
<1> HIDE DEF c
<1>4. SameLinks(t, c, N) /\ (\A n \in N \cup {header} : c[n].is_red = t[n].is_red)
  BY <1>3, SameButCountsKeeps
<1>5. TypedTree(c, N)
  BY <1>3 DEF SameButCounts
<1>6. Linked(c, N, sub) /\ root(c) = root(t)
  BY <1>1, <1>4, SameLinked DEF SameLinks
<1>7. Shape(c, N, N, sub)
  BY <1>3, <1>5, <1>6 DEF Shape
<1>8. RedAt(c, N, bh, v)
  <2>1. /\ bh \in [N -> Nat]
        /\ \A n \in N, s \in Sides : PairAt(t, n, s, {}, {v})
        /\ \A n \in N : HeightAt(t, bh, n, null, "left")
        /\ t[v].is_red /\ (root(t) # v => ~t[root(t)].is_red)
    BY <1>1 DEF RedAt, Coloured
  <2>2. \A n \in N, s \in Sides : t[n][s] # null => t[n][s] \in N
    BY <1>1, KidIs
  <2>3. \A n \in N, s \in Sides : c[n][s] = t[n][s]
    BY <1>4 DEF SameLinks
  <2>4. \A n \in N, s \in Sides : PairAt(c, n, s, {}, {v})
    BY <2>1, <2>2, <2>3, <1>4 DEF PairAt
  <2>5. \A n \in N : HeightAt(c, bh, n, null, "left")
    BY <2>1, <2>3, <1>4 DEF HeightAt, Black
  <2>6. root(t) \in N
    BY <1>1 DEF Linked, RootFits
  <2> HIDE DEF root
  <2> QED
    BY <2>1, <2>4, <2>5, <2>6, <1>4, <1>6 DEF RedAt, Coloured
<1>9. TypedTree(w, N) /\ w[header] = h /\ SameOn(c, w, N)
  BY <1>5, <1>6, HeaderIs
<1> HIDE DEF w
<1>10. Shape(w, N, N, sub) /\ RedAt(w, N, bh, v)
  <2>1. Linked(c, N, sub) /\ \A n \in N : Counted(c, sub, n)
    BY <1>3, <1>6
  <2>2. /\ \A D2 : TypedTree(w, D2) /\ N \subseteq D2 /\ (\A n \in N : Counted(c, sub, n))
           => Shape(w, D2, N, sub)
        /\ \A b, x : RedAt(c, N, b, x) => RedAt(w, N, b, x)
    BY <2>1, <1>9, SameOnIs
  <2> QED
    BY <2>1, <2>2, <1>8, <1>9
<1>11. HeaderKept(w, u) /\ \E sub2, bh2 : Shape(u, N, N, sub2) /\ RedBlack(u, N, sub2, bh2)
  BY <1>10, InsertFixupIs
<1>12. Headed(u[header], N)
  BY <1>9, <1>11 DEF HeaderKept, Headed
<1> QED
  BY <1>11, <1>12 DEF SetOk, u, w, c

\* Attach adds an element at an empty place between its neighbours.
LEMMA AttachIs ==
    ASSUME NEW t, NEW N, SetOk(t, N), NEW v \in Values \ N, NEW p, NEW side \in Sides, NEW ends,
           IF p = header THEN N = {}
           ELSE /\ p \in N /\ t[p][side] = null /\ Off(side, v, p)
                /\ \A e \in N : Off(side, e, p) => Off(side, e, v),
           \A s \in Sides : s \in ends <=> \A e \in N : Off(s, v, e)
    PROVE  SetOk(Attach(t, v, p, side, ends), N \cup {v})
<1> DEFINE N2 == N \cup {v}
           a == Added(t, v, p)
           u == IF p = header THEN Write(a, header, "parent", v) ELSE Write(a, p, side, v)
           h == [u[header] EXCEPT !.left = IF "left" \in ends THEN v ELSE @,
                                  !.right = IF "right" \in ends THEN v ELSE @,
                                  !.node_count = @ + 1]
<1>1. PICK sub, bh : Shape(t, N, N, sub) /\ RedBlack(t, N, sub, bh)
  BY DEF SetOk
<1>2. TypedTree(t, N) /\ Linked(t, N, sub) /\ Headed(t[header], N) /\ t[header] \in TreeNode
  BY <1>1 DEF Shape, SetOk, TypedTree
<1>3. Attach(t, v, p, side, ends) = insertNodeFixup([updateNodeCountToTop(u,
      v) EXCEPT ![header] = h], v)
  BY DEF Attach, Added, Leaf, Write
<1>4. Hung(u, N2, v) /\ u[header] \in TreeNode
      /\ (\A g \in Fields \ {"parent"} : u[header][g] = t[header][g])
  <2>1. CASE p = header
    <3>1. N = {} /\ TypedTree(t, {}) /\ v \in Values
      BY <2>1, <1>2
    <3>2. Hung(u, {v}, v) /\ u[header] = [t[header] EXCEPT !.parent = v]
      <4>1. u = Write(Added(t, v, header), header, "parent", v)
        BY <2>1
      <4> HIDE DEF u
      <4> QED
        BY <4>1, <3>1, PlantIs
    <3> HIDE DEF u
    <3>3. v \in Int /\ N2 = {v}
      BY <3>1, ValuesAre
    <3> QED
      BY <3>2, <3>3, <1>2 DEF TreeNode, Fields
  <2>2. CASE p # header
    <3>1. Hung(u, N2, v) /\ u[header] = t[header]
      <4>1. u = Write(Added(t, v, p), p, side, v)
        BY <2>2
      <4> HIDE DEF u
      <4> QED
        BY <4>1, <2>2, <1>1, GrowIs
    <3> HIDE DEF u
    <3> QED
      BY <3>1, <1>2
  <2> QED
    BY <2>1, <2>2
<1> HIDE DEF u
<1>5. /\ v \in Int /\ h \in TreeNode /\ h.parent = root(u) /\ h.is_red = t[header].is_red
      /\ h.left = (IF "left" \in ends THEN v ELSE t[header].left)
      /\ h.right = (IF "right" \in ends THEN v ELSE t[header].right)
      /\ h.node_count = t[header].node_count + 1
  <2>1. v \in Int
    BY ValuesAre
  <2>2. {"left", "right", "node_count", "is_red"} \subseteq Fields \ {"parent"}
    BY DEF Fields
  <2>3. /\ u[header].left = t[header].left /\ u[header].right = t[header].right
        /\ u[header].node_count = t[header].node_count /\ u[header].is_red = t[header].is_red
    BY <2>2, <1>4
  <2> DEFINE uh == u[header]
             l == IF "left" \in ends THEN v ELSE uh.left
             r == IF "right" \in ends THEN v ELSE uh.right
  <2>5. uh \in TreeNode /\ l \in Int /\ r \in Int
    BY <2>1, <1>4 DEF TreeNode
  <2>6. h = [uh EXCEPT !.left = l, !.right = r, !.node_count = @ + 1]
    OBVIOUS
  <2> HIDE DEF h, l, r, uh
  <2>7. h \in TreeNode /\ h.parent = uh.parent /\ h.is_red = uh.is_red
        /\ h.left = l /\ h.right = r /\ h.node_count = uh.node_count + 1
    <3> DEFINE a1 == [uh EXCEPT !.left = l]
               a2 == [a1 EXCEPT !.right = r]
               a3 == [a2 EXCEPT !.node_count = uh.node_count + 1]
    <3>0. uh.node_count + 1 \in Int
      BY <2>5 DEF TreeNode
    <3>1. a1 \in TreeNode /\ a1.parent = uh.parent /\ a1.is_red = uh.is_red
          /\ a1.left = l /\ a1.node_count = uh.node_count
      BY <2>5 DEF TreeNode
    <3>4. h = a3
      BY <2>6
    <3> HIDE DEF a1
    <3>2. a2 \in TreeNode /\ a2.parent = a1.parent /\ a2.is_red = a1.is_red
          /\ a2.left = a1.left /\ a2.right = r /\ a2.node_count = a1.node_count
      BY <2>5, <3>1 DEF TreeNode
    <3> HIDE DEF a2
    <3>3. a3 \in TreeNode /\ a3.parent = a2.parent /\ a3.is_red = a2.is_red
          /\ a3.left = a2.left /\ a3.right = a2.right /\ a3.node_count = uh.node_count + 1
      BY <3>0, <3>2 DEF TreeNode
    <3> HIDE DEF a3
    <3> QED
      BY <3>1, <3>2, <3>3, <3>4
  <2>4. h \in TreeNode /\ h.parent = u[header].parent /\ h.is_red = u[header].is_red
        /\ h.left = (IF "left" \in ends THEN v ELSE u[header].left)
        /\ h.right = (IF "right" \in ends THEN v ELSE u[header].right)
        /\ h.node_count = u[header].node_count + 1
    BY <2>7 DEF l, r, uh
  <2> HIDE DEF h
  <2> QED
    BY <2>1, <2>3, <2>4 DEF root
<1> HIDE DEF h
<1>6. IsFiniteSet(N) /\ Cardinality(N2) = Cardinality(N) + 1
  BY <1>2, FiniteNodes, FS_AddElement
<1>7. ASSUME NEW s \in Sides, NEW e, ExtremeIs(s, N, e)
      PROVE  ExtremeIs(s, N2, IF s \in ends THEN v ELSE e)
  <2>1. N \subseteq Int /\ v \in Int
    BY <1>2, <1>5, Plain
  <2>2. CASE s \in ends
    BY <2>2 DEF ExtremeIs
  <2>3. CASE s \notin ends
    <3>1. PICK d \in N : ~Off(s, v, d)
      BY <2>3
    <3>2. e \in N /\ \A d2 \in N : d2 = e \/ Off(s, e, d2)
      BY <3>1, <1>7 DEF ExtremeIs
    <3>3. Off(s, e, v)
      <4>1. Off(s, d, v) /\ d \in Int /\ e \in Int
        BY <2>1, <3>1, <3>2, OffIs
      <4> QED
        BY <4>1, <3>1, <3>2, <2>1, OffIs
    <3> QED
      BY <2>3, <3>2, <3>3 DEF ExtremeIs
  <2> QED
    BY <2>2, <2>3
<1>8. Headed(h, N2)
  <2>1. "left" \in Sides /\ "right" \in Sides
    BY DEF Sides
  <2>2. ExtremeIs("left", N, t[header].left) /\ ExtremeIs("right", N, t[header].right)
        /\ t[header].is_red /\ t[header].node_count = Cardinality(N)
    BY <1>2 DEF Headed
  <2>3. ExtremeIs("left", N2, h.left) /\ ExtremeIs("right", N2, h.right)
    BY <2>1, <2>2, <1>5, <1>7
  <2> QED
    BY <2>2, <2>3, <1>5, <1>6 DEF Headed
<1>9. v \in N2
  OBVIOUS
<1> HIDE DEF N2
<1>10. SetOk(insertNodeFixup([updateNodeCountToTop(u, v) EXCEPT ![header] = h], v), N2)
  BY <1>4, <1>5, <1>8, <1>9, SettleIs
<1> QED
  BY <1>3, <1>10 DEF N2

-----------------------------------------------------------------------------
(* Searches *)

\* The elements that are not below v.
AtLeast(N, v) == {e \in N : e >= v}

\* A tree in which the queries are asked.
Searched(t, N, sub) == TypedTree(t, N) /\ Linked(t, N, sub)

\* What the searches need to know of a tree.
LEMMA SearchedIs ==
    ASSUME NEW t, NEW N, NEW sub, Searched(t, N, sub)
    PROVE  /\ Nodes(t) = N /\ DOMAIN t = N \cup {header}
           /\ N \subseteq Int /\ N \subseteq Values /\ header \notin N /\ null \notin N
              /\ null # header
           /\ root(t) \in N \cup {null} /\ Under(sub, root(t)) = N
           /\ \A n \in N, s \in Sides :
                /\ t[n][s] \in N \cup {null}
                /\ Under(sub, t[n][s]) \subseteq sub[n]
                /\ n \in sub[n] /\ sub[n] \subseteq N
                /\ \A e \in Under(sub, t[n][s]) : Off(s, e, n)
                /\ \A e \in sub[n] \ Under(sub, t[n][s]) : e = n \/ Off(Mirror(s), e, n)
                /\ Cardinality(Under(sub, t[n][s])) < Cardinality(sub[n])
           /\ \A n \in N \cup {null} : Cardinality(Under(sub, n)) \in 0..MaxValue
<1>0. TypedTree(t, N) /\ Linked(t, N, sub)
  BY DEF Searched
<1>1. /\ N \subseteq Int /\ N \subseteq Values /\ header \notin N /\ null \notin N /\ null # header
      /\ \A n \in N : n \in sub[n] /\ sub[n] \subseteq N
  BY <1>0, Plain
<1>2. Nodes(t) = N /\ DOMAIN t = N \cup {header}
  BY <1>0, <1>1 DEF TypedTree, Nodes
<1>3. root(t) \in N \cup {null} /\ Under(sub, root(t)) = N
  BY <1>0, <1>1 DEF Linked, RootFits, Under
<1>4. \A n \in N : IsFiniteSet(sub[n]) /\ Cardinality(sub[n]) \in 0..MaxValue
  BY <1>0, FiniteNodes, SetAssumption
<1>5. \A n \in N \cup {null} : Cardinality(Under(sub, n)) \in 0..MaxValue
  BY <1>1, <1>4, FS_EmptySet, SetAssumption DEF Under
<1>6. ASSUME NEW n \in N, NEW s \in Sides
      PROVE  /\ t[n][s] \in N \cup {null}
             /\ Under(sub, t[n][s]) \subseteq sub[n]
             /\ \A e \in Under(sub, t[n][s]) : Off(s, e, n)
             /\ \A e \in sub[n] \ Under(sub, t[n][s]) : e = n \/ Off(Mirror(s), e, n)
             /\ Cardinality(Under(sub, t[n][s])) < Cardinality(sub[n])
  <2> DEFINE k == t[n][s]
             far == Mirror(s)
  <2>1. far \in Sides /\ Mirror(far) = s
    BY MirrorIs
  <2>2. KidsFit(t, N, sub, n)
    BY <1>0 DEF Linked
  <2>3. k \in N \cup {null} /\ Under(sub, k) \subseteq sub[n]
        /\ (\A e \in Under(sub, k) : Off(s, e, n))
        /\ (\A e \in sub[n] \ Under(sub, k) : e = n \/ Off(far, e, n))
    BY <2>1, <2>2 DEF KidsFit
  <2>4. n \notin Under(sub, k)
    BY <1>1, <2>3 DEF Off
  <2> HIDE DEF k
  <2>5. Cardinality(Under(sub, k)) < Cardinality(sub[n])
    <3>1. Under(sub, k) \in SUBSET sub[n] /\ Under(sub, k) # sub[n]
      BY <1>1, <2>3, <2>4
    <3>2. IsFiniteSet(sub[n]) /\ Cardinality(sub[n]) \in Nat /\ Cardinality(Under(sub, k)) \in Nat
      BY <1>4, <1>5, <2>3
    <3> QED
      BY <3>1, <3>2, FS_Subset
  <2> QED
    BY <2>3, <2>5 DEF k
<1> QED
  BY <1>1, <1>2, <1>3, <1>5, <1>6

\* lowerBoundNode finds the least element that is not below v.
LEMMA LowerBoundIs ==
    ASSUME NEW t, NEW N, NEW sub, Searched(t, N, sub), NEW v \in Int
    PROVE  ExtremeIs("left", AtLeast(N, v), lowerBoundNode(t, v))
<1> DEFINE l == "left"
           r == "right"
           next == [s \in Nodes(t) \X DOMAIN t |->
                      IF s[1] >= v THEN <<t[s[1]].left, s[1]>> ELSE <<t[s[1]].right, s[2]>>]
           start == <<root(t), header>>
           Seen(n, b) == /\ n \in N \cup {null} /\ b \in N \cup {header}
                         /\ b # header => (b >= v /\ \A e \in Under(sub, n) : e < b)
                         /\ \A e \in N \ Under(sub, n) : e < v \/ (b # header /\ b <= e)
           S == {s \in (N \cup {null}) \X (N \cup {header}) : Seen(s[1], s[2])}
           rank == [s \in S |-> Cardinality(Under(sub, s[1]))]
           end == Walk(next, start)
<1>1. /\ Nodes(t) = N /\ DOMAIN t = N \cup {header}
      /\ N \subseteq Int /\ header \notin N /\ null \notin N /\ null # header
      /\ root(t) \in N \cup {null} /\ Under(sub, root(t)) = N
      /\ \A n \in N \cup {null} : Cardinality(Under(sub, n)) \in 0..MaxValue
  BY SearchedIs
<1>2. l \in Sides /\ r \in Sides /\ Mirror(l) = r /\ Mirror(r) = l
  BY DEF Sides, Mirror
<1>3. \A n : t[n].left = t[n][l] /\ t[n].right = t[n][r]
  OBVIOUS
<1>4. \A e, n : (Off(l, e, n) <=> e < n) /\ (Off(r, e, n) <=> n < e)
  BY DEF Off
<1> HIDE DEF l, r
<1>5. start \in S
  <2> DEFINE n == root(t)
  <2>1. Seen(n, header)
    BY <1>1
  <2> HIDE DEF n, Seen
  <2>2. <<n, header>> \in (N \cup {null}) \X (N \cup {header})
    BY <1>1 DEF n
  <2> QED
    BY <2>1, <2>2 DEF n
<1>6. \A s \in S : rank[s] \in 0..(MaxValue + 1)
  <2> SUFFICES ASSUME NEW s \in S PROVE rank[s] \in 0..(MaxValue + 1)
    OBVIOUS
  <2>1. s[1] \in N \cup {null} /\ rank[s] = Cardinality(Under(sub, s[1]))
    OBVIOUS
  <2>2. Cardinality(Under(sub, s[1])) \in 0..MaxValue
    BY <2>1, <1>1
  <2> HIDE DEF S, rank
  <2> QED
    BY <2>1, <2>2, SetAssumption
<1>7. ASSUME NEW s \in S, s \in DOMAIN next
      PROVE  next[s] \in S /\ rank[next[s]] < rank[s]
  <2> DEFINE n == s[1]
             b == s[2]
  <2>1. n \in N /\ b \in N \cup {header} /\ Seen(n, b)
    BY <1>1, <1>7
  <2>2. next[s] = IF n >= v THEN <<t[n][l], n>> ELSE <<t[n][r], b>>
    BY <1>3, <1>7
  <2>3. Under(sub, n) = sub[n] /\ sub[n] \subseteq N /\ n \in sub[n] /\ n \in Int
    BY ZenonT(40), <1>1, <2>1, <1>2, SearchedIs DEF Under
  <2>4. ASSUME NEW side \in Sides
        PROVE  /\ t[n][side] \in N \cup {null}
               /\ Under(sub, t[n][side]) \subseteq sub[n]
               /\ \A e \in Under(sub, t[n][side]) : Off(side, e, n)
               /\ \A e \in sub[n] \ Under(sub, t[n][side]) : e = n \/ Off(Mirror(side), e, n)
               /\ Cardinality(Under(sub, t[n][side])) < Cardinality(sub[n])
    <3> HIDE DEF n
    <3> QED
      BY <2>1, SearchedIs
  <2> HIDE DEF n, b
  <2>5. CASE n >= v
    <3> DEFINE k == t[n][l]
    <3>1. k \in N \cup {null} /\ Under(sub, k) \subseteq sub[n]
          /\ (\A e \in Under(sub, k) : e < n)
          /\ (\A e \in sub[n] \ Under(sub, k) : e = n \/ n < e)
          /\ Cardinality(Under(sub, k)) < Cardinality(sub[n])
      BY <2>4, <1>2, <1>4
    <3>2. next[s] = <<k, n>>
      BY <2>2, <2>5
    <3> HIDE DEF k, next
    <3>3. ASSUME NEW e \in N \ Under(sub, k) PROVE e < v \/ n <= e
      <4>1. CASE e \in sub[n]
        <5>1. e \in Int /\ (e = n \/ n < e)
          BY <4>1, <3>1, <1>1
        <5> QED
          BY <5>1, <2>3
      <4>2. CASE e \notin sub[n]
        <5>1. e < v \/ (b # header /\ b <= e /\ n < b)
          BY <4>2, <2>1, <2>3
        <5>2. e \in Int /\ (b # header => b \in Int)
          BY <2>1, <1>1
        <5>3. b # header /\ b <= e /\ n < b => n <= e
          BY <5>2, <2>3
        <5> QED
          BY <5>1, <5>3
      <4> QED
        BY <4>1, <4>2
    <3>4. Seen(k, n)
      BY <3>1, <3>3, <2>1, <2>5, <1>1
    <3>5. <<k, n>> \in S
      BY <3>4
    <3>6. rank[<<k, n>>] = Cardinality(Under(sub, k)) /\ rank[s] = Cardinality(sub[n])
      BY <3>5, <2>3 DEF n
    <3> QED
      BY <3>1, <3>2, <3>5, <3>6
  <2>6. CASE ~(n >= v)
    <3> DEFINE k == t[n][r]
    <3>1. k \in N \cup {null} /\ Under(sub, k) \subseteq sub[n]
          /\ (\A e \in sub[n] \ Under(sub, k) : e = n \/ e < n)
          /\ Cardinality(Under(sub, k)) < Cardinality(sub[n])
      BY <2>4, <1>2, <1>4
    <3>2. next[s] = <<k, b>>
      BY <2>2, <2>6
    <3> HIDE DEF k, next
    <3>3. ASSUME NEW e \in N \ Under(sub, k) PROVE e < v \/ (b # header /\ b <= e)
      <4>1. CASE e \in sub[n]
        <5>1. e \in Int /\ n < v
          BY <1>1, <2>3, <2>6
        <5> QED
          BY <5>1, <4>1, <3>1, <3>3, <2>3
      <4>2. CASE e \notin sub[n]
        BY <4>2, <2>1, <2>3
      <4> QED
        BY <4>1, <4>2
    <3>4. Seen(k, b)
      BY <3>1, <3>3, <2>1, <2>3, <1>1
    <3>5. <<k, b>> \in S
      BY <3>4
    <3>6. rank[<<k, b>>] = Cardinality(Under(sub, k)) /\ rank[s] = Cardinality(sub[n])
      BY <3>5, <2>3 DEF n
    <3> QED
      BY <3>1, <3>2, <3>5, <3>6
  <2> QED
    BY <2>5, <2>6
<1>8. DOMAIN next = N \X (N \cup {header})
  BY <1>1
<1>9. lowerBoundNode(t, v) = end[2]
  BY DEF lowerBoundNode
<1> HIDE DEF next, start
<1>10. end \in S /\ end \notin DOMAIN next
  <2> HIDE DEF S, rank
  <2> QED
    BY <1>5, <1>6, <1>7, WalkEnds
<1> HIDE DEF end
<1>11. end[1] = null /\ Seen(end[1], end[2])
  BY <1>8, <1>10
<1> DEFINE b == end[2]
<1>12. b \in N \cup {header} /\ (b # header => b >= v) /\ \A e \in N : e < v \/ (b # header
       /\ b <= e)
  BY <1>11 DEF Under
<1> HIDE DEF b
<1>13. ExtremeIs(l, AtLeast(N, v), b)
  <2>1. CASE b = header
    <3>1. AtLeast(N, v) = {}
      <4>1. \A e \in N : e \in Int /\ e < v
        BY <1>12, <1>1, <2>1
      <4>2. \A e \in N : ~(e >= v)
        BY <4>1
      <4> QED
        BY <4>2 DEF AtLeast
    <3> QED
      BY <3>1, <2>1 DEF ExtremeIs
  <2>2. CASE b # header
    <3>1. b \in AtLeast(N, v) /\ b \in Int
      BY <1>12, <1>1, <2>2 DEF AtLeast
    <3>2. \A e \in AtLeast(N, v) : e = b \/ b < e
      BY <1>12, <1>1, <3>1 DEF AtLeast
    <3> QED
      BY <3>1, <3>2, <1>4 DEF ExtremeIs
  <2> QED
    BY <2>1, <2>2
<1> QED
  BY <1>9, <1>13 DEF l, b

\* upperBoundNode finds the least element above v.
LEMMA UpperBoundIs ==
    ASSUME NEW t, NEW N, NEW sub, Searched(t, N, sub), NEW v \in Int
    PROVE  ExtremeIs("left", AtLeast(N, v + 1), upperBoundNode(t, v))
<1> DEFINE w == v + 1
           low == [s \in Nodes(t) \X DOMAIN t |->
                     IF s[1] >= w THEN <<t[s[1]].left, s[1]>> ELSE <<t[s[1]].right, s[2]>>]
           up == [s \in Nodes(t) \X DOMAIN t |->
                    IF v < s[1] THEN <<t[s[1]].left, s[1]>> ELSE <<t[s[1]].right, s[2]>>]
<1>1. Nodes(t) \subseteq Int
  BY SearchedIs
<1>2. \A s \in Nodes(t) \X DOMAIN t : v < s[1] <=> s[1] >= w
  <2> SUFFICES ASSUME NEW s \in Nodes(t) \X DOMAIN t PROVE v < s[1] <=> s[1] >= w
    OBVIOUS
  <2>1. s[1] \in Int
    BY <1>1
  <2> QED
    BY <2>1
<1>3. low = up
  <2> HIDE DEF w
  <2> QED
    BY <1>2
<1>4. lowerBoundNode(t, w) = Walk(low, <<root(t), header>>)[2]
  BY DEF lowerBoundNode
<1>5. upperBoundNode(t, v) = Walk(up, <<root(t), header>>)[2]
  BY DEF upperBoundNode
<1>6. w \in Int
  OBVIOUS
<1> HIDE DEF w, low, up
<1>7. ExtremeIs("left", AtLeast(N, w), lowerBoundNode(t, w))
  BY <1>6, LowerBoundIs
<1> QED
  BY <1>3, <1>4, <1>5, <1>7 DEF w

\* An element is its own lower bound.
LEMMA TargetIs ==
    ASSUME NEW t, NEW N, NEW sub, Searched(t, N, sub), NEW v \in Int
    PROVE  LET n == lowerBoundNode(t, v)
           IN  /\ n \in N \cup {header}
               /\ v \in N => n = v
               /\ n = header => \A e \in N : e < v
               /\ n # header => n \in N /\ v <= n /\ \A e \in N : e < v \/ n <= e
<1> DEFINE n == lowerBoundNode(t, v)
<1>1. N \subseteq Int /\ header \notin N
  BY SearchedIs
<1>2. ExtremeIs("left", AtLeast(N, v), n)
  BY LowerBoundIs
<1> HIDE DEF n
<1>3. IF AtLeast(N, v) = {} THEN n = header
      ELSE n \in AtLeast(N, v) /\ \A e \in AtLeast(N, v) : e = n \/ n < e
  BY <1>2 DEF ExtremeIs, Off
<1>4. CASE AtLeast(N, v) = {}
  <2>1. \A e \in N : e \in Int /\ ~(e >= v)
    BY <1>1, <1>4 DEF AtLeast
  <2>2. \A e \in N : e < v
    BY <2>1
  <2> QED
    BY <1>3, <1>4, <2>1, <2>2 DEF n
<1>5. CASE AtLeast(N, v) # {}
  <2>1. n \in N /\ n \in Int /\ v <= n /\ n # header
    BY <1>1, <1>3, <1>5 DEF AtLeast
  <2>2. ASSUME NEW e \in N PROVE e < v \/ n <= e
    <3>1. e \in Int
      BY <1>1
    <3>2. CASE e >= v
      <4>1. e = n \/ n < e
        BY <3>2, <1>3, <1>5 DEF AtLeast
      <4> QED
        BY <4>1, <3>1, <2>1
    <3> QED
      BY <3>1, <3>2
  <2>3. v \in N => n = v
    BY <2>1, <2>2
  <2> QED
    BY <2>1, <2>2, <2>3 DEF n
<1> QED
  BY <1>4, <1>5

\* findNode finds the elements and nothing else.
LEMMA FindIs ==
    ASSUME NEW t, NEW N, NEW sub, Searched(t, N, sub), NEW v \in Int
    PROVE  findNode(t, v) = IF v \in N THEN v ELSE header
<1> DEFINE n == lowerBoundNode(t, v)
<1>1. /\ n \in N \cup {header}
      /\ v \in N => n = v
      /\ n # header => n \in N /\ v <= n
  BY TargetIs
<1>2. findNode(t, v) = IF n # header /\ v < n THEN header ELSE n
  BY DEF findNode
<1> HIDE DEF n
<1>3. N \subseteq Int /\ header \notin N
  BY SearchedIs
<1>4. CASE n = header
  BY <1>1, <1>2, <1>3, <1>4
<1>5. CASE n # header
  <2>1. n \in Int /\ v <= n /\ n \in N
    BY <1>1, <1>3, <1>5
  <2>2. v < n => v \notin N
    BY <2>1, <1>1
  <2>3. ~(v < n) => n = v
    BY <2>1
  <2> QED
    BY <2>1, <2>2, <2>3, <1>2, <1>5
<1> QED
  BY <1>4, <1>5

-----------------------------------------------------------------------------
(* Insertion *)

\* What a sound set says of its header, its nodes and their number.
LEMMA SetIs ==
    ASSUME NEW t, NEW N, SetOk(t, N)
    PROVE  /\ Headed(t[header], N)
           /\ \E sub, bh : Shape(t, N, N, sub) /\ RedBlack(t, N, sub, bh) /\ Searched(t, N, sub)
           /\ TypedTree(t, N) /\ IsFiniteSet(N) /\ Cardinality(N) \in Nat
              /\ Cardinality(N) <= MaxValue
           /\ N \subseteq Int /\ N \subseteq Values /\ header \notin N /\ null \notin N
              /\ null # header
           /\ t[header].node_count = 0 <=> N = {}
           /\ N # {} => t[header].left \in N /\ t[header].right \in N
<1>1. PICK sub, bh : Shape(t, N, N, sub) /\ RedBlack(t, N, sub, bh)
  BY DEF SetOk
<1>2. Searched(t, N, sub) /\ TypedTree(t, N) /\ Linked(t, N, sub)
  BY <1>1 DEF Shape, Searched
<1>3. Headed(t[header], N)
  BY DEF SetOk
<1>4. IsFiniteSet(N) /\ Cardinality(N) \in Nat /\ Cardinality(N) <= MaxValue
  BY <1>2, FiniteNodes
<1>5. /\ N \subseteq Int /\ N \subseteq Values /\ header \notin N /\ null \notin N /\ null # header
  BY <1>2, Plain
<1>6. t[header].node_count = 0 <=> N = {}
  BY <1>3, <1>4, FS_EmptySet DEF Headed
<1>7. N # {} => t[header].left \in N /\ t[header].right \in N
  BY <1>3 DEF Headed, ExtremeIs
<1> QED
  BY <1>1, <1>2, <1>3, <1>4, <1>5, <1>6, <1>7

\* The end that has n is the one n is at.
LEMMA EndIs ==
    ASSUME NEW N, N \subseteq Int, NEW s \in Sides, NEW end, ExtremeIs(s, N, end),
           NEW n \in N
    PROVE  end = n <=> \A e \in N : e = n \/ Off(s, n, e)
<1>1. end \in N /\ \A e \in N : e = end \/ Off(s, end, e)
  BY DEF ExtremeIs
<1>2. end \in Int /\ n \in Int
  BY <1>1
<1>3. Off(s, n, end) /\ Off(s, end, n) => FALSE
  BY <1>2 DEF Off
<1> QED
  BY <1>1, <1>3

\* insertNode leaves a sound set with one element more, or the same one.
LEMMA InsertIs ==
    ASSUME NEW t, NEW N, SetOk(t, N), NEW v \in Values
    PROVE  SetOk(insertNode(t, v), N \cup {v})
<1> DEFINE target == lowerBoundNode(t, v)
           l == "left"
           r == "right"
           last == Furthest(t, t[target].left, r)
           first == t[header].left
           final == t[header].right
<1>1. PICK sub, bh : Shape(t, N, N, sub) /\ RedBlack(t, N, sub, bh) /\ Searched(t, N, sub)
  BY SetIs
<1>2. /\ N \subseteq Int /\ header \notin N /\ null \notin N /\ null # header /\ v \in Int
      /\ TypedTree(t, N) /\ Linked(t, N, sub)
      /\ t[header].node_count = 0 <=> N = {}
  BY <1>1, SetIs, ValuesAre DEF Shape
<1>3. ExtremeIs(l, N, first) /\ ExtremeIs(r, N, final)
  <2>1. Headed(t[header], N)
    BY SetIs
  <2> QED
    BY <2>1 DEF Headed
<1>4. /\ target \in N \cup {header}
      /\ v \in N => target = v
      /\ target = header => \A e \in N : e < v
      /\ target # header => target \in N /\ v <= target /\ \A e \in N : e < v \/ target <= e
  BY <1>1, <1>2, TargetIs
<1>5. insertNode(t, v) =
        IF t[header].node_count = 0 THEN Attach(t, v, header, l, {l, r})
        ELSE IF target = header THEN Attach(t, v, final, r, {r})
        ELSE IF target = v THEN t
        ELSE IF t[target].left = null
        THEN Attach(t, v, target, l, IF first = target THEN {l} ELSE {})
        ELSE Attach(t, v, last, r, IF final = last THEN {r} ELSE {})
  BY DEF insertNode
<1>6. /\ l \in Sides /\ r \in Sides /\ l # r /\ Mirror(l) = r /\ Mirror(r) = l
      /\ \A s \in Sides : s = l \/ s = r
      /\ \A e, n : (Off(l, e, n) <=> e < n) /\ (Off(r, e, n) <=> n < e)
      /\ \A n : t[n].left = t[n][l] /\ t[n].right = t[n][r]
  BY DEF Sides, Mirror, Off
<1>7. last = Furthest(t, t[target][l], r)
  BY <1>6
<1> HIDE DEF l, r, target, last, first, final
<1>8. CASE N = {}
  <2> DEFINE p == header
             ends == {l, r}
  <2>1. insertNode(t, v) = Attach(t, v, p, l, ends)
    BY <1>8, <1>2, <1>5
  <2>2. v \in Values \ N /\ (p = header /\ N = {}) /\ \A s \in Sides : s \in ends
    BY <1>8, <1>6
  <2>3. \A s \in Sides : s \in ends <=> \A e \in N : Off(s, v, e)
    BY <2>2, <1>8
  <2> HIDE DEF p, ends
  <2> QED
    BY <2>1, <2>2, <2>3, <1>6, AttachIs
<1>9. CASE N # {} /\ target = header
  <2> DEFINE ends == {r}
  <2>1. insertNode(t, v) = Attach(t, v, final, r, ends)
    BY <1>9, <1>2, <1>5
  <2>2. \A e \in N : e < v /\ e \in Int
    BY <1>9, <1>4, <1>2
  <2>3. v \in Values \ N
    BY <2>2, <1>2
  <2>4. final \in N /\ \A e \in N : e = final \/ e < final
    <3>1. \A e \in N : e = final \/ Off(r, final, e)
      BY <1>9, <1>3 DEF ExtremeIs
    <3> QED
      BY <3>1, <1>9, <1>3, <1>6 DEF ExtremeIs
  <2>5. t[final][r] = null
    <3> SUFFICES ASSUME t[final][r] # null PROVE FALSE
      OBVIOUS
    <3>1. t[final][r] \in N /\ Off(r, t[final][r], final)
      BY <2>4, <1>2, <1>6, KidIs
    <3> DEFINE k == t[final][r]
    <3>2. final < k /\ (k = final \/ k < final) /\ k \in Int /\ final \in Int
      BY <3>1, <2>4, <1>2, <1>6
    <3> HIDE DEF k
    <3> QED
      BY <3>2
  <2>6. Off(r, v, final) /\ \A e \in N : Off(r, e, final) => Off(r, e, v)
    <3>1. \A e \in N : ~Off(r, e, final)
      <4>1. \A e \in N : e \in Int /\ final \in Int /\ (e = final \/ e < final)
        BY <2>4, <1>2
      <4>2. \A e \in N : ~(final < e)
        BY <4>1
      <4> QED
        BY <4>2, <1>6
    <3> QED
      BY <3>1, <2>2, <2>4, <1>6
  <2>7. final # header
    BY <2>4, <1>2
  <2>8. \A s \in Sides : s \in ends <=> \A e \in N : Off(s, v, e)
    <3>1. \A e \in N : Off(r, v, e)
      BY <2>2, <1>6
    <3>2. ~Off(l, v, final)
      BY <2>2, <2>4, <1>2, <1>6
    <3> QED
      BY <3>1, <3>2, <2>4, <1>6
  <2> HIDE DEF ends
  <2> QED
    BY <2>1, <2>3, <2>4, <2>5, <2>6, <2>7, <2>8, <1>6, AttachIs
<1>10. CASE N # {} /\ target # header /\ target = v
  <2>1. insertNode(t, v) = t /\ N \cup {v} = N
    BY <1>10, <1>2, <1>4, <1>5
  <2> QED
    BY <2>1
<1>11. CASE N # {} /\ target # header /\ target # v
  <2>1. target \in N /\ target \in Int /\ v < target /\ v \in Values \ N
    BY <1>11, <1>2, <1>4
  <2>2. \A e \in N : e < v \/ e = target \/ target < e
    <3>1. \A e \in N : e \in Int /\ (e < v \/ target <= e)
      BY <1>11, <1>2, <1>4
    <3> QED
      BY <3>1, <2>1
  <2>3. CASE t[target][l] = null
    <3> DEFINE ends == IF first = target THEN {l} ELSE {}
    <3>1. insertNode(t, v) = Attach(t, v, target, l, ends)
      BY <1>11, <2>3, <1>2, <1>5, <1>6
    <3>2. Off(l, v, target) /\ \A e \in N : Off(l, e, target) => Off(l, e, v)
      <4>1. \A e \in N : e < target => e < v
        <5>1. \A e \in N : e \in Int
          BY <1>2
        <5> QED
          BY <5>1, <2>1, <2>2
      <4> QED
        BY <4>1, <2>1, <1>6
    <3>3. first = target <=> \A e \in N : e = target \/ Off(l, target, e)
      BY ZenonT(40), <2>1, <1>2, <1>3, <1>6, EndIs
    <3>4. \A s \in Sides : s \in ends <=> \A e \in N : Off(s, v, e)
      <4>1. ~Off(r, v, target)
        BY <2>1, <1>2, <1>6
      <4>2. (\A e \in N : Off(l, v, e)) <=> \A e \in N : e = target \/ Off(l, target, e)
        <5>1. \A e \in N : v < e <=> e = target \/ target < e
          <6>1. \A e \in N : e \in Int
            BY <1>2
          <6> QED
            BY <6>1, <2>1, <2>2, <1>2
        <5> QED
          BY <5>1, <1>6
      <4> QED
        BY <4>1, <4>2, <3>3, <2>1, <1>6
    <3>5. target # header
      BY <1>11
    <3>6. v \in Values \ N /\ l \in Sides
      BY <2>1, <1>6
    <3>7. IF target = header THEN N = {}
          ELSE /\ target \in N /\ t[target][l] = null /\ Off(l, v, target)
               /\ \A e \in N : Off(l, e, target) => Off(l, e, v)
      BY <3>2, <3>5, <2>1, <2>3
    <3> HIDE DEF ends
    <3> QED
      BY <3>1, <3>4, <3>6, <3>7, AttachIs
  <2>4. CASE t[target][l] # null
    <3> DEFINE ends == IF final = last THEN {r} ELSE {}
    <3>1. insertNode(t, v) = Attach(t, v, last, r, ends)
      BY <1>11, <2>4, <1>2, <1>5, <1>6
    <3>2. ExtremeIs(r, Beyond(l, N, target), last) /\ t[last][r] = null
      <4>1. ExtremeIs(r, Beyond(l, N, target), last)
        BY <1>7, <2>1, <2>4, <1>2, <1>6, NextBelow
      <4>2. t[target][l] \in N
        BY <2>1, <2>4, <1>2, <1>6, KidIs
      <4>3. t[last][r] = null
        BY <4>2, <1>2, <1>6, <1>7, FurthestIs
      <4> QED
        BY <4>1, <4>3
    <3>3. Beyond(l, N, target) # {}
      <4>1. t[target][l] \in N /\ Off(l, t[target][l], target)
        BY <2>1, <2>4, <1>2, <1>6, KidIs
      <4> QED
        BY <4>1 DEF Beyond
    <3>4. last \in N /\ last < target /\ last \in Int /\ \A e \in N : e < target
          => e = last \/ e < last
      <4>1. last \in Beyond(l, N, target) /\ \A e \in Beyond(l, N, target) : e = last \/ Off(r,
            last, e)
        BY <3>2, <3>3 DEF ExtremeIs
      <4> QED
        BY <4>1, <1>2, <1>6 DEF Beyond
    <3>5. last < v /\ \A e \in N : last < e => v < e
      <4>1. last < v
        BY <3>4, <2>1, <2>2, <1>2
      <4>2. \A e \in N : e \in Int
        BY <1>2
      <4>3. \A e \in N : last < e => v < e
        <5> SUFFICES ASSUME NEW e \in N, last < e PROVE v < e
          OBVIOUS
        <5>1. ~(e < target)
          BY <3>4, <4>2
        <5> QED
          BY <5>1, <2>1, <4>2, <1>2
      <4> QED
        BY <4>1, <4>3
    <3>6. Off(r, v, last) /\ \A e \in N : Off(r, e, last) => Off(r, e, v)
      BY <3>5, <1>6
    <3>7. final # last
      <4>1. final = last <=> \A e \in N : e = last \/ Off(r, last, e)
        <5>1. last \in N /\ N \subseteq Int /\ r \in Sides /\ ExtremeIs(r, N, final)
          BY <3>4, <1>2, <1>3, <1>6
        <5> QED
          BY <5>1, EndIs
      <4>2. ~(target < last) /\ target # last
        BY <3>4, <2>1
      <4>3. ~Off(r, last, target)
        BY <4>2, <1>6
      <4> QED
        BY <4>1, <4>2, <4>3, <2>1
    <3>8. \A s \in Sides : s \in ends <=> \A e \in N : Off(s, v, e)
      <4>1. ~Off(r, v, target) /\ ~Off(l, v, last)
        BY <2>1, <3>4, <3>5, <1>2, <1>6
      <4> QED
        BY <4>1, <3>7, <2>1, <3>4, <1>6
    <3>9. last # header
      BY <3>4, <1>2
    <3>10. v \in Values \ N /\ r \in Sides
      BY <2>1, <1>6
    <3>11. IF last = header THEN N = {}
           ELSE /\ last \in N /\ t[last][r] = null /\ Off(r, v, last)
                /\ \A e \in N : Off(r, e, last) => Off(r, e, v)
      BY <3>2, <3>4, <3>6, <3>9
    <3> HIDE DEF ends
    <3> QED
      BY <3>1, <3>8, <3>10, <3>11, AttachIs
  <2> QED
    BY <2>3, <2>4
<1> QED
  BY <1>8, <1>9, <1>10, <1>11

-----------------------------------------------------------------------------
(* Ranks *)

\* The elements of M below v.
BelowIn(M, v) == {e \in M : e < v}

\* The size of two disjoint sets together.
LEMMA CountTogether ==
    ASSUME NEW A, NEW B, IsFiniteSet(A), IsFiniteSet(B), A \cap B = {}
    PROVE  /\ IsFiniteSet(A \cup B)
           /\ Cardinality(A \cup B) = Cardinality(A) + Cardinality(B)
           /\ Cardinality(A) \in Nat /\ Cardinality(B) \in Nat
<1>1. Cardinality(A \cup B) = Cardinality(A) + Cardinality(B) - Cardinality(A \cap B)
  BY FS_Union
<1>2. Cardinality(A \cap B) = 0 /\ Cardinality(A) \in Nat /\ Cardinality(B) \in Nat
  BY FS_EmptySet, FS_CardinalityType
<1> QED
  BY <1>1, <1>2, FS_Union

\* How the subtree of a node is ordered.
LEMMA SubtreeIs ==
    ASSUME NEW t, NEW N, NEW sub, Searched(t, N, sub), NEW n \in N
    PROVE  LET L == Under(sub, t[n].left)
               R == Under(sub, t[n].right)
           IN  /\ sub[n] = {n} \cup L \cup R
               /\ (\A e \in L : e < n) /\ (\A e \in R : n < e)
               /\ L \subseteq N /\ R \subseteq N /\ sub[n] \subseteq N
               /\ IsFiniteSet(L) /\ IsFiniteSet(R) /\ IsFiniteSet(sub[n])
               /\ t[n].left \in N \cup {null} /\ t[n].right \in N \cup {null}
               /\ Cardinality(L) < Cardinality(sub[n]) /\ Cardinality(R) < Cardinality(sub[n])
<1> DEFINE l == "left"
           r == "right"
           L == Under(sub, t[n][l])
           R == Under(sub, t[n][r])
<1>1. /\ l \in Sides /\ r \in Sides /\ Mirror(l) = r
      /\ t[n].left = t[n][l] /\ t[n].right = t[n][r]
      /\ \A e : (Off(l, e, n) <=> e < n) /\ (Off(r, e, n) <=> n < e)
  BY DEF Sides, Mirror, Off
<1> HIDE DEF l, r
<1>2. KidsFit(t, N, sub, n)
  BY DEF Searched, Linked
<1>3. sub[n] = {n} \cup L \cup R
  BY <1>1, <1>2 DEF KidsFit
<1>4. /\ L \subseteq sub[n] /\ R \subseteq sub[n] /\ sub[n] \subseteq N
      /\ t[n][l] \in N \cup {null} /\ t[n][r] \in N \cup {null}
      /\ (\A e \in L : Off(l, e, n)) /\ (\A e \in R : Off(r, e, n))
      /\ Cardinality(L) < Cardinality(sub[n]) /\ Cardinality(R) < Cardinality(sub[n])
  BY ZenonT(40), <1>1, SearchedIs
<1>5. IsFiniteSet(sub[n])
  BY FiniteNodes DEF Searched
<1> HIDE DEF L, R
<1>6. IsFiniteSet(L) /\ IsFiniteSet(R)
  BY <1>4, <1>5, FS_Subset
<1> QED
  BY <1>1, <1>3, <1>4, <1>5, <1>6 DEF L, R

\* The counts the queries read.
LEMMA LeftCountIs ==
    ASSUME NEW t, NEW N, NEW sub, Searched(t, N, sub), \A n \in N : Counted(t, sub, n), NEW n \in N
    PROVE  Count(t, t[n].left) = Cardinality(Under(sub, t[n].left))
<1>1. t[n].left \in N \cup {null}
  BY SubtreeIs
<1> QED
  BY <1>1, FS_EmptySet DEF Count, Under, Counted

\* rankNode counts the elements below v.
LEMMA RankIs ==
    ASSUME NEW t, NEW N, NEW sub, Searched(t, N, sub), \A n \in N : Counted(t, sub, n),
           NEW v \in Int
    PROVE  rankNode(t, v) = Cardinality(BelowIn(N, v))
<1> DEFINE left_count(n) == Count(t, t[n].left)
           next == [s \in (Nodes(t) \ {v}) \X (0..MaxValue) |->
                        IF v < s[1] THEN <<t[s[1]].left, s[2]>>
                        ELSE <<t[s[1]].right, s[2] + 1 + left_count(s[1])>>]
           start == <<root(t), 0>>
           Met(n, k) == /\ k = Cardinality(BelowIn(N \ Under(sub, n), v))
                        /\ v \in N => v \in Under(sub, n)
           S == {s \in (N \cup {null}) \X (0..MaxValue) : Met(s[1], s[2])}
           rank == [s \in S |-> Cardinality(Under(sub, s[1]))]
           end == Walk(next, start)
<1>1. /\ Nodes(t) = N /\ N \subseteq Int /\ null \notin N
      /\ root(t) \in N \cup {null} /\ Under(sub, root(t)) = N
      /\ \A n \in N \cup {null} : Cardinality(Under(sub, n)) \in 0..MaxValue
  BY SearchedIs
<1>2. IsFiniteSet(N) /\ Cardinality(N) \in Nat /\ Cardinality(N) <= MaxValue
  BY FiniteNodes DEF Searched
<1>3. start \in S
  <2> DEFINE n == root(t)
  <2>1. BelowIn(N \ Under(sub, n), v) = {}
    BY <1>1 DEF BelowIn
  <2>2. Met(n, 0)
    BY <1>1, <2>1, FS_EmptySet
  <2> HIDE DEF n, Met
  <2>3. <<n, 0>> \in (N \cup {null}) \X (0..MaxValue)
    BY <1>1, SetAssumption DEF n
  <2> QED
    BY <2>2, <2>3 DEF n
<1>4. \A s \in S : rank[s] \in 0..(MaxValue + 1)
  <2> SUFFICES ASSUME NEW s \in S PROVE rank[s] \in 0..(MaxValue + 1)
    OBVIOUS
  <2>1. s[1] \in N \cup {null} /\ rank[s] = Cardinality(Under(sub, s[1]))
    OBVIOUS
  <2>2. Cardinality(Under(sub, s[1])) \in 0..MaxValue
    BY <2>1, <1>1
  <2> HIDE DEF S, rank
  <2> QED
    BY <2>1, <2>2, SetAssumption
<1>5. ASSUME NEW s \in S, s \in DOMAIN next
      PROVE  next[s] \in S /\ rank[next[s]] < rank[s]
  <2> DEFINE n == s[1]
             k == s[2]
             L == Under(sub, t[n].left)
             R == Under(sub, t[n].right)
  <2>1. n \in N /\ n # v /\ k \in 0..MaxValue /\ Met(n, k)
    BY <1>1, <1>5
  <2>2. next[s] = IF v < n THEN <<t[n].left, k>> ELSE <<t[n].right, k + 1 + left_count(n)>>
    BY <1>5
  <2> HIDE DEF n, k
  <2>3. /\ sub[n] = {n} \cup L \cup R
        /\ (\A e \in L : e < n) /\ (\A e \in R : n < e)
        /\ L \subseteq N /\ R \subseteq N /\ sub[n] \subseteq N
        /\ IsFiniteSet(L) /\ IsFiniteSet(R) /\ IsFiniteSet(sub[n])
        /\ t[n].left \in N \cup {null} /\ t[n].right \in N \cup {null}
        /\ Cardinality(L) < Cardinality(sub[n]) /\ Cardinality(R) < Cardinality(sub[n])
    BY <2>1, SubtreeIs
  <2>4. left_count(n) = Cardinality(L)
    BY <2>1, LeftCountIs
  <2>5. Under(sub, n) = sub[n] /\ n \in Int
    BY <1>1, <2>1 DEF Under
  <2> HIDE DEF left_count
  <2>6. CASE v < n
    <3> DEFINE a == t[n].left
    <3>1. next[s] = <<a, k>>
      BY <2>2, <2>6
    <3>2. BelowIn(N \ Under(sub, a), v) = BelowIn(N \ sub[n], v)
      <4>1. ASSUME NEW e \in sub[n] \ L PROVE e \in Int /\ ~(e < v)
        <5> HIDE DEF L, R
        <5>1. e \in Int /\ (e = n \/ n < e)
          BY <1>1, <2>3
        <5> QED
          BY <5>1, <2>5, <2>6
      <4> QED
        BY <4>1, <2>3 DEF BelowIn
    <3>3. v \in sub[n] => v \in L
      BY <2>1, <2>3, <2>5, <2>6
    <3>4. Met(a, k)
      BY <2>1, <2>5, <3>2, <3>3
    <3> HIDE DEF a, next
    <3>5. <<a, k>> \in S
      BY <3>4, <2>1, <2>3 DEF a
    <3>6. rank[<<a, k>>] = Cardinality(L) /\ rank[s] = Cardinality(sub[n])
      BY <3>5, <2>5 DEF n, a
    <3> QED
      BY <3>1, <3>5, <3>6, <2>3
  <2>7. CASE ~(v < n)
    <3> DEFINE a == t[n].right
               c == Cardinality(L)
               j == k + 1 + c
               out == BelowIn(N \ sub[n], v)
    <3>1. next[s] = <<a, j>>
      BY <2>2, <2>4, <2>7
    <3>2. BelowIn(N \ Under(sub, a), v) = out \cup ({n} \cup L)
      <4>0. n < v
        BY <2>1, <2>5, <2>7
      <4>1. n < v /\ \A e \in L : e \in Int /\ e < v
        <5> HIDE DEF L, R
        <5>1. \A e \in L : e \in Int /\ e < n
          BY <1>1, <2>3
        <5> QED
          BY <4>0, <5>1, <2>5
      <4>2. n \notin R /\ \A e \in L : e \notin R
        <5> HIDE DEF L, R
        <5>1. (\A e \in L : e \in Int /\ e < n) /\ (\A e \in R : e \in Int /\ n < e)
          BY <1>1, <2>3
        <5> QED
          BY <5>1, <2>5
      <4> QED
        <5>1. Under(sub, a) = R /\ R \subseteq sub[n] /\ sub[n] = {n} \cup L \cup R
              /\ sub[n] \subseteq N
          BY <2>3, <4>2
        <5> HIDE DEF a, L, R
        <5>2. ASSUME NEW e PROVE e \in BelowIn(N \ R, v) <=> e \in out \cup ({n} \cup L)
          <6>1. CASE e \in sub[n]
            BY <6>1, <5>1, <4>1, <4>2 DEF BelowIn
          <6>2. CASE e \notin sub[n]
            BY <6>2, <5>1 DEF BelowIn
          <6> QED
            BY <6>1, <6>2
        <5> HIDE DEF out
        <5> QED
          BY <5>1, <5>2
    <3>3. v \in sub[n] => v \in R
      BY <2>1, <2>3, <2>5, <2>7
    <3>4. Cardinality(out \cup ({n} \cup L)) = k + (1 + c) /\ c \in Nat /\ k \in Nat
      <4>1. n \notin L
        BY <2>3, <2>5
      <4>2. {n} \cap L = {} /\ out \cap ({n} \cup L) = {}
        BY <4>1, <2>3 DEF BelowIn
      <4>3. IsFiniteSet(out)
        <5>1. out \subseteq N
          BY DEF BelowIn
        <5> HIDE DEF out
        <5> QED
          BY <5>1, <1>2, FS_Subset
      <4>4. IsFiniteSet({n}) /\ Cardinality({n}) = 1
        BY FS_Singleton
      <4>5. Cardinality(out) = k
        BY <2>1, <2>5
      <4> HIDE DEF out, L
      <4>6. IsFiniteSet({n} \cup L) /\ Cardinality({n} \cup L) = 1 + Cardinality(L)
            /\ Cardinality(L) \in Nat
        BY <4>2, <4>4, <2>3, CountTogether
      <4>7. Cardinality(out \cup ({n} \cup L)) = Cardinality(out) + Cardinality({n} \cup L)
        BY <4>2, <4>3, <4>6, CountTogether
      <4> QED
        BY <4>5, <4>6, <4>7, <2>1
    <3>5. j = Cardinality(BelowIn(N \ Under(sub, a), v))
      <4>1. j = k + (1 + c)
        <5> HIDE DEF c
        <5> QED
          BY <3>4
      <4> QED
        BY <4>1, <3>2, <3>4
    <3>6. j \in 0..MaxValue
      <4> DEFINE X == BelowIn(N \ Under(sub, a), v)
      <4>1. X \subseteq N
        BY DEF BelowIn
      <4> HIDE DEF X, j
      <4>2. Cardinality(X) \in Nat /\ Cardinality(X) <= Cardinality(N)
        BY <4>1, <1>2, FS_Subset, FS_CardinalityType
      <4>3. j = Cardinality(X)
        BY <3>5 DEF X
      <4> QED
        BY <4>2, <4>3, <1>2, SetAssumption
    <3>7. Met(a, j)
      BY <2>1, <2>5, <3>3, <3>5
    <3> HIDE DEF a, j, next
    <3>8. <<a, j>> \in S
      BY <3>6, <3>7, <2>3 DEF a
    <3>9. rank[<<a, j>>] = Cardinality(R) /\ rank[s] = Cardinality(sub[n])
      BY <3>8, <2>5 DEF n, a
    <3> QED
      BY <3>1, <3>8, <3>9, <2>3
  <2> QED
    BY <2>6, <2>7
<1>6. DOMAIN next = (N \ {v}) \X (0..MaxValue)
  BY <1>1
<1>7. rankNode(t, v) = IF end[1] = null THEN end[2] ELSE end[2] + left_count(end[1])
  BY DEF rankNode
<1> HIDE DEF next, start
<1>8. end \in S /\ end \notin DOMAIN next
  <2> HIDE DEF S, rank
  <2> QED
    BY <1>3, <1>4, <1>5, WalkEnds
<1> HIDE DEF end
<1> DEFINE n == end[1]
           k == end[2]
<1>9. n \in {v, null} /\ n \in N \cup {null} /\ k \in 0..MaxValue /\ Met(n, k)
  BY <1>6, <1>8
<1> HIDE DEF n, k
<1>10. CASE n = null
  <2>1. N \ Under(sub, n) = N
    BY <1>10 DEF Under
  <2> QED
    BY <2>1, <1>7, <1>9, <1>10 DEF n, k
<1>11. CASE n # null
  <2> DEFINE L == Under(sub, t[n].left)
             R == Under(sub, t[n].right)
             out == BelowIn(N \ sub[n], v)
  <2>1. n = v /\ n \in N /\ Under(sub, n) = sub[n]
    BY <1>9, <1>11 DEF Under
  <2>2. /\ sub[n] = {n} \cup L \cup R
        /\ (\A e \in L : e < n) /\ (\A e \in R : n < e)
        /\ L \subseteq N /\ R \subseteq N /\ sub[n] \subseteq N
        /\ IsFiniteSet(L)
    BY <2>1, SubtreeIs
  <2>3. left_count(n) = Cardinality(L)
    BY <2>1, LeftCountIs
  <2>4. BelowIn(N, v) = out \cup L /\ out \cap L = {} /\ out \subseteq N
    <3>1. (\A e \in L : e < v) /\ ~(n < v) /\ \A e \in R : ~(e < v)
      <4> HIDE DEF L, R
      <4>0. n \in Int /\ n = v
        BY <2>1, <1>1
      <4>1. (\A e \in L : e < v) /\ ~(n < v) /\ \A e \in R : e \in Int /\ v < e
        BY <2>2, <4>0, <1>1
      <4> QED
        BY <4>1
    <3> QED
      BY <3>1, <2>2 DEF BelowIn
  <2>5. Cardinality(out) = k
    BY <1>9, <2>1
  <2> HIDE DEF L, R, out, left_count
  <2>6. Cardinality(out \cup L) = Cardinality(out) + Cardinality(L)
    BY <2>2, <2>4, <1>2, FS_Subset, CountTogether
  <2> QED
    BY <2>3, <2>4, <2>5, <2>6, <1>7, <1>11 DEF n, k
<1> QED
  BY <1>10, <1>11

\* The ranks in a subtree.
LEMMA RanksSplit ==
    ASSUME NEW t, NEW N, NEW sub, Searched(t, N, sub), NEW n \in N
    PROVE  LET L == Under(sub, t[n].left)
               R == Under(sub, t[n].right)
           IN  /\ Cardinality(BelowIn(sub[n], n)) = Cardinality(L)
               /\ \A e \in L : /\ Cardinality(BelowIn(sub[n], e)) = Cardinality(BelowIn(L, e))
                               /\ Cardinality(BelowIn(L, e)) < Cardinality(L)
               /\ \A e \in R : /\ Cardinality(BelowIn(sub[n], e)) = Cardinality(L) + 1 + Cardinality(BelowIn(R, e))
                               /\ Cardinality(BelowIn(R, e)) \in Nat
               /\ Cardinality(L) \in Nat
<1> DEFINE L == Under(sub, t[n].left)
           R == Under(sub, t[n].right)
<1>1. N \subseteq Int
  BY SearchedIs
<1>2. /\ sub[n] = {n} \cup L \cup R
      /\ (\A e \in L : e < n) /\ (\A e \in R : n < e)
      /\ L \subseteq N /\ R \subseteq N /\ sub[n] \subseteq N
      /\ IsFiniteSet(L) /\ IsFiniteSet(R) /\ IsFiniteSet(sub[n])
  BY SubtreeIs
<1> HIDE DEF L, R
<1>3. n \in Int /\ (\A e \in L : e \in Int /\ e < n) /\ (\A e \in R : e \in Int /\ n < e)
  BY <1>1, <1>2
<1>4. Cardinality(L) \in Nat
  BY <1>2, FS_CardinalityType
<1>5. Cardinality(BelowIn(sub[n], n)) = Cardinality(L)
  <2>1. ~(n < n) /\ (\A e \in L : e < n) /\ \A e \in R : ~(e < n)
    BY <1>3
  <2>2. BelowIn(sub[n], n) = L
    BY <2>1, <1>2 DEF BelowIn
  <2> QED
    BY <2>2
<1>6. ASSUME NEW e \in L
      PROVE  /\ Cardinality(BelowIn(sub[n], e)) = Cardinality(BelowIn(L, e))
             /\ Cardinality(BelowIn(L, e)) < Cardinality(L)
  <2>1. e \in Int /\ ~(n < e) /\ (\A m \in R : ~(m < e)) /\ ~(e < e)
    BY <1>3
  <2>2. BelowIn(sub[n], e) = BelowIn(L, e)
    BY <2>1, <1>2 DEF BelowIn
  <2>3. BelowIn(L, e) \in SUBSET L /\ BelowIn(L, e) # L
    BY <2>1 DEF BelowIn
  <2>4. Cardinality(BelowIn(L, e)) < Cardinality(L)
    <3>1. Cardinality(BelowIn(L, e)) \in Nat
      BY <2>3, <1>2, FS_Subset, FS_CardinalityType
    <3> QED
      BY <3>1, <2>3, <1>2, <1>4, FS_Subset
  <2> QED
    BY <2>2, <2>4
<1>7. ASSUME NEW e \in R
      PROVE  /\ Cardinality(BelowIn(sub[n], e)) = Cardinality(L) + 1 + Cardinality(BelowIn(R, e))
             /\ Cardinality(BelowIn(R, e)) \in Nat
  <2> DEFINE B == BelowIn(R, e)
  <2>1. e \in Int /\ n < e /\ \A m \in L : m < e
    BY <1>3
  <2>2. BelowIn(sub[n], e) = ({n} \cup L) \cup B /\ B \subseteq R
    BY <2>1, <1>2 DEF BelowIn
  <2>3. n \notin L /\ n \notin R /\ L \cap R = {}
    <3>1. n \notin L
      BY <1>3
    <3>2. n \notin R
      BY <1>3
    <3>3. ASSUME NEW m \in L, m \in R PROVE FALSE
      <4>1. m \in Int /\ m < n /\ n < m
        BY <3>3, <1>3
      <4> QED
        BY <4>1, <1>3
    <3> QED
      BY <3>1, <3>2, <3>3
  <2> HIDE DEF B
  <2>4. IsFiniteSet({n}) /\ Cardinality({n}) = 1 /\ IsFiniteSet(B) /\ {n} \cap L = {}
        /\ ({n} \cup L) \cap B = {}
    <3>1. {n} \cap L = {} /\ ({n} \cup L) \cap B = {}
      BY <2>2, <2>3
    <3>2. IsFiniteSet(B)
      BY <2>2, <1>2, FS_Subset
    <3> QED
      BY <3>1, <3>2, FS_Singleton
  <2>5. IsFiniteSet({n} \cup L) /\ Cardinality({n} \cup L) = 1 + Cardinality(L)
    BY <2>4, <1>2, CountTogether
  <2>6. /\ Cardinality(({n} \cup L) \cup B) = Cardinality({n} \cup L) + Cardinality(B)
        /\ Cardinality(B) \in Nat
    BY <2>4, <2>5, CountTogether
  <2> QED
    BY <2>2, <2>5, <2>6, <1>4 DEF B
<1> QED
  BY <1>4, <1>5, <1>6, <1>7 DEF L, R

\* The elements of rank r.
Ranked(N, r) == {e \in N : Cardinality(BelowIn(N, e)) = r}

\* selectNode finds the element of rank q.
LEMMA SelectIs ==
    ASSUME NEW t, NEW N, NEW sub, Searched(t, N, sub), \A n \in N : Counted(t, sub, n),
           NEW q \in 0..MaxValue
    PROVE  ExtremeIs("left", Ranked(N, q), selectNode(t, q))
<1> DEFINE left_count(n) == Count(t, t[n].left)
           next == [s \in {s \in Nodes(t) \X (0..MaxValue) : s[2] # left_count(s[1])} |->
                        IF s[2] < left_count(s[1]) THEN <<t[s[1]].left, s[2]>>
                        ELSE <<t[s[1]].right, s[2] - (left_count(s[1]) + 1)>>]
           start == <<root(t), q>>
           Met(n, k) == Ranked(N, q) = Ranked(Under(sub, n), k)
           S == {s \in (N \cup {null}) \X (0..MaxValue) : Met(s[1], s[2])}
           rank == [s \in S |-> Cardinality(Under(sub, s[1]))]
           end == Walk(next, start)
<1>1. /\ Nodes(t) = N /\ N \subseteq Int /\ null \notin N
      /\ root(t) \in N \cup {null} /\ Under(sub, root(t)) = N
      /\ \A n \in N \cup {null} : Cardinality(Under(sub, n)) \in 0..MaxValue
  BY SearchedIs
<1>2. start \in S
  <2> DEFINE n == root(t)
  <2>2. Met(n, q)
    BY <1>1
  <2> HIDE DEF n, Met
  <2>3. <<n, q>> \in (N \cup {null}) \X (0..MaxValue)
    BY <1>1 DEF n
  <2> QED
    BY <2>2, <2>3 DEF n
<1>3. \A s \in S : rank[s] \in 0..(MaxValue + 1)
  <2> SUFFICES ASSUME NEW s \in S PROVE rank[s] \in 0..(MaxValue + 1)
    OBVIOUS
  <2>1. s[1] \in N \cup {null} /\ rank[s] = Cardinality(Under(sub, s[1]))
    OBVIOUS
  <2>2. Cardinality(Under(sub, s[1])) \in 0..MaxValue
    BY <2>1, <1>1
  <2> HIDE DEF S, rank
  <2> QED
    BY <2>1, <2>2, SetAssumption
<1>4. ASSUME NEW n \in N
      PROVE  LET L == Under(sub, t[n].left)
                 R == Under(sub, t[n].right)
             IN  /\ sub[n] = {n} \cup L \cup R /\ n \notin L /\ n \notin R
                 /\ Cardinality(BelowIn(sub[n], n)) = Cardinality(L)
                 /\ \A e \in L : /\ Cardinality(BelowIn(sub[n], e)) = Cardinality(BelowIn(L, e))
                                 /\ Cardinality(BelowIn(L, e)) < Cardinality(L)
                 /\ \A e \in R : /\ Cardinality(BelowIn(sub[n], e)) = Cardinality(L) + 1 + Cardinality(BelowIn(R, e))
                                 /\ Cardinality(BelowIn(R, e)) \in Nat
                 /\ Cardinality(L) \in 0..MaxValue /\ Cardinality(L) = left_count(n)
                 /\ Under(sub, n) = sub[n]
                 /\ t[n].left \in N \cup {null} /\ t[n].right \in N \cup {null}
                 /\ Cardinality(L) < Cardinality(sub[n]) /\ Cardinality(R) < Cardinality(sub[n])
  <2> DEFINE L == Under(sub, t[n].left)
             R == Under(sub, t[n].right)
  <2>1. /\ Cardinality(BelowIn(sub[n], n)) = Cardinality(L)
        /\ \A e \in L : /\ Cardinality(BelowIn(sub[n], e)) = Cardinality(BelowIn(L, e))
                        /\ Cardinality(BelowIn(L, e)) < Cardinality(L)
        /\ \A e \in R : /\ Cardinality(BelowIn(sub[n], e)) = Cardinality(L) + 1 + Cardinality(BelowIn(R, e))
                        /\ Cardinality(BelowIn(R, e)) \in Nat
    BY RanksSplit
  <2>2. /\ sub[n] = {n} \cup L \cup R
        /\ (\A e \in L : e < n) /\ (\A e \in R : n < e)
        /\ t[n].left \in N \cup {null} /\ t[n].right \in N \cup {null}
        /\ Cardinality(L) < Cardinality(sub[n]) /\ Cardinality(R) < Cardinality(sub[n])
    BY SubtreeIs
  <2>3. Cardinality(L) = left_count(n)
    BY LeftCountIs
  <2>4. Cardinality(L) \in 0..MaxValue
    BY <1>1, <2>2
  <2> HIDE DEF L, R, left_count
  <2>5. n \notin L /\ n \notin R
    <3>1. n \in Int
      BY <1>1
    <3> QED
      BY <3>1, <2>2
  <2>6. Under(sub, n) = sub[n]
    BY <1>1 DEF Under
  <2> QED
    BY <2>1, <2>2, <2>3, <2>4, <2>5, <2>6 DEF L, R
<1>5. ASSUME NEW s \in S, s \in DOMAIN next
      PROVE  next[s] \in S /\ rank[next[s]] < rank[s]
  <2> DEFINE n == s[1]
             k == s[2]
             L == Under(sub, t[n].left)
             R == Under(sub, t[n].right)
             c == Cardinality(L)
  <2>1. n \in N /\ k \in 0..MaxValue /\ Met(n, k) /\ k # left_count(n)
    BY <1>1, <1>5
  <2>2. next[s] = IF k < left_count(n) THEN <<t[n].left, k>> ELSE <<t[n].right,
        k - (left_count(n) + 1)>>
    BY <1>5
  <2> HIDE DEF n, k, left_count
  <2>3. /\ sub[n] = {n} \cup L \cup R /\ n \notin L /\ n \notin R
        /\ Cardinality(BelowIn(sub[n], n)) = c
        /\ \A e \in L : /\ Cardinality(BelowIn(sub[n], e)) = Cardinality(BelowIn(L, e))
                        /\ Cardinality(BelowIn(L, e)) < c
        /\ \A e \in R : /\ Cardinality(BelowIn(sub[n], e)) = c + 1 + Cardinality(BelowIn(R, e))
                        /\ Cardinality(BelowIn(R, e)) \in Nat
        /\ c \in 0..MaxValue /\ c = left_count(n)
        /\ Under(sub, n) = sub[n]
        /\ t[n].left \in N \cup {null} /\ t[n].right \in N \cup {null}
        /\ c < Cardinality(sub[n]) /\ Cardinality(R) < Cardinality(sub[n])
    BY <2>1, <1>4
  <2> DEFINE a == t[n].left
             b == t[n].right
             j == k - (c + 1)
  <2>9. L = Under(sub, a) /\ R = Under(sub, b) /\ a \in N \cup {null} /\ b \in N \cup {null}
    BY <2>3
  <2>10. rank[s] = Cardinality(sub[n])
    BY <2>3 DEF n
  <2>11. next[s] = IF k < c THEN <<a, k>> ELSE <<b, j>>
    BY <2>2, <2>3
  <2> HIDE DEF L, R, c, a, b, next
  <2>4. CASE k < c
    <3>1. Ranked(sub[n], k) = Ranked(L, k)
      <4>1. \A e \in R : Cardinality(BelowIn(sub[n], e)) # k
        BY <2>3, <2>4, <2>1
      <4>2. Cardinality(BelowIn(sub[n], n)) # k
        BY <2>1, <2>3
      <4> QED
        BY <4>1, <4>2, <2>3 DEF Ranked
    <3>2. Met(a, k)
      BY <2>1, <2>3, <2>9, <3>1
    <3> HIDE DEF Met
    <3>3. <<a, k>> \in S
      BY <2>1, <2>9, <3>2
    <3>4. rank[<<a, k>>] = c
      BY <3>3, <2>9 DEF c
    <3> QED
      BY <2>3, <2>4, <2>10, <2>11, <3>3, <3>4
  <2>5. CASE ~(k < c)
    <3>0. c < k /\ j \in 0..MaxValue /\ k = c + 1 + j /\ c \in Int /\ j \in Int
      BY <2>1, <2>3, <2>5, SetAssumption
    <3> HIDE DEF j
    <3>1. Ranked(sub[n], k) = Ranked(R, j)
      <4>1. \A e \in L : Cardinality(BelowIn(sub[n], e)) # k
        BY <2>3, <3>0, <2>1
      <4>2. Cardinality(BelowIn(sub[n], n)) # k
        BY <2>1, <2>3
      <4>3. \A e \in R : Cardinality(BelowIn(sub[n], e)) = k <=> Cardinality(BelowIn(R, e)) = j
        BY <2>3, <3>0
      <4> QED
        BY <4>1, <4>2, <4>3, <2>3 DEF Ranked
    <3>2. Met(b, j)
      BY <2>1, <2>3, <2>9, <3>1
    <3> HIDE DEF Met
    <3>3. <<b, j>> \in S
      BY <3>0, <2>9, <3>2
    <3>4. rank[<<b, j>>] = Cardinality(R)
      BY <3>3, <2>9
    <3> QED
      BY <2>3, <2>5, <2>10, <2>11, <3>3, <3>4
  <2> QED
    BY <2>4, <2>5
<1>6. DOMAIN next = {s \in N \X (0..MaxValue) : s[2] # left_count(s[1])}
  BY <1>1
<1>7. selectNode(t, q) = IF end[1] = null THEN header ELSE end[1]
  BY DEF selectNode
<1> HIDE DEF next, start
<1>8. end \in S /\ end \notin DOMAIN next
  <2> HIDE DEF S, rank
  <2> QED
    BY <1>2, <1>3, <1>5, WalkEnds
<1> HIDE DEF end
<1> DEFINE n == end[1]
           k == end[2]
<1>9. n \in N \cup {null} /\ k \in 0..MaxValue /\ Met(n, k) /\ (n \in N => k = left_count(n))
  BY <1>6, <1>8
<1> HIDE DEF n, k
<1>10. CASE n = null
  <2>1. Ranked(N, q) = {}
    BY <1>9, <1>10 DEF Under, Ranked
  <2> QED
    BY <2>1, <1>7, <1>10 DEF n, ExtremeIs
<1>11. CASE n # null
  <2> DEFINE L == Under(sub, t[n].left)
             R == Under(sub, t[n].right)
             c == Cardinality(L)
  <2>1. n \in N /\ k = left_count(n)
    BY <1>9, <1>11
  <2> HIDE DEF left_count
  <2>2. /\ sub[n] = {n} \cup L \cup R /\ n \notin L /\ n \notin R
        /\ Cardinality(BelowIn(sub[n], n)) = c
        /\ \A e \in L : /\ Cardinality(BelowIn(sub[n], e)) = Cardinality(BelowIn(L, e))
                        /\ Cardinality(BelowIn(L, e)) < c
        /\ \A e \in R : /\ Cardinality(BelowIn(sub[n], e)) = c + 1 + Cardinality(BelowIn(R, e))
                        /\ Cardinality(BelowIn(R, e)) \in Nat
        /\ c \in 0..MaxValue /\ c = left_count(n)
        /\ Under(sub, n) = sub[n]
    BY <2>1, <1>4
  <2> HIDE DEF L, R, c
  <2>3. Ranked(sub[n], k) = {n}
    <3>0. k = c /\ c \in Int
      BY <2>1, <2>2
    <3>1. \A e \in L : Cardinality(BelowIn(sub[n], e)) # k
      BY <3>0, <2>2
    <3>2. \A e \in R : Cardinality(BelowIn(sub[n], e)) # k
      BY <3>0, <2>2
    <3> QED
      BY <3>1, <3>2, <2>1, <2>2 DEF Ranked
  <2>4. Ranked(N, q) = {n}
    BY <1>9, <2>2, <2>3
  <2> QED
    BY <2>4, <1>7, <1>11 DEF n, ExtremeIs
<1> QED
  BY <1>10, <1>11

-----------------------------------------------------------------------------
(***************************************************************************)
(* The rounds of eraseNodeFixup.  Below p, on the side d, paths have one   *)
(* black node less than they should; x is there.                           *)
(***************************************************************************)
Lowered(t, N, bh, x, p, d) ==
    /\ bh \in [N -> Nat]
    /\ \A n \in N, r \in Sides : PairAt(t, n, r, {x}, {x})
    /\ p \in N /\ d \in Sides /\ t[p][d] = x
    /\ \A n \in N : HeightAt(t, bh, n, p, d)
    /\ ~t[root(t)].is_red

\* The whole tree is short.
Evened(t, N, bh, x) ==
    /\ bh \in [N -> Nat]
    /\ \A n \in N, r \in Sides : PairAt(t, n, r, {x}, {x})
    /\ x = root(t)
    /\ Level(t, N, bh)

\* p, its child w on the other side than s, and the children of both.
Family(t, N, p, s, w, near, inner, outer) ==
    /\ p \in N /\ w \in N /\ w # p /\ s \in Sides
    /\ t[p][Mirror(s)] = w /\ t[p][s] = near /\ t[w][s] = inner /\ t[w][Mirror(s)] = outer
    /\ t[w].parent = p
    /\ \A k \in {near, inner, outer} : k # p /\ k # w /\ (k # null => k \in N /\ k # root(t))
    /\ near # null => near # inner /\ near # outer /\ t[near].parent = p
    /\ inner # null => inner # outer /\ t[inner].parent = w
    /\ outer # null => outer # inner /\ outer # near /\ t[outer].parent = w
    /\ root(t) \in N /\ root(t) # w
    /\ \A n \in N, r \in Sides : t[n][r] # null => t[n][r] \in N /\ t[t[n][r]].parent = n

\* The nodes around a rotation are different ones.
LEMMA FamilyIs ==
    ASSUME NEW t, NEW N, NEW sub, Linked(t, N, sub), NEW p \in N, NEW s \in Sides,
           t[p][Mirror(s)] # null
    PROVE  LET w == t[p][Mirror(s)]
           IN  Family(t, N, p, s, w, t[p][s], t[w][s], t[w][Mirror(s)])
<1> DEFINE far == Mirror(s)
           w == t[p][far]
           near == t[p][s]
           inner == t[w][s]
           outer == t[w][far]
<1>1. far \in Sides /\ Mirror(far) = s /\ header \notin N /\ null \notin N
  BY MirrorIs, Plain
<1>2. \A n \in N, r \in Sides : t[n][r] # null =>
            /\ t[n][r] \in N /\ t[t[n][r]].parent = n /\ t[n][r] # n /\ t[n][r] # t[n][Mirror(r)]
            /\ t[n][r] \in sub[t[n][r]] /\ sub[t[n][r]] \subseteq sub[n] /\ n \notin sub[t[n][r]]
  BY KidIs
<1>3. /\ w \in N /\ w # p /\ t[w].parent = p /\ w # near /\ w \in sub[w] /\ p \notin sub[w]
      /\ near # null => near \in N /\ near # p /\ t[near].parent = p
  BY <1>1, <1>2
<1> HIDE DEF w, near
<1>4. /\ inner # null => inner \in N /\ inner # w /\ inner # outer /\ t[inner].parent = w
         /\ inner \in sub[w]
      /\ outer # null => outer \in N /\ outer # w /\ outer # inner /\ t[outer].parent = w
         /\ outer \in sub[w]
  BY <1>1, <1>2, <1>3
<1> HIDE DEF inner, outer
<1>5. /\ inner # null => inner # p /\ inner # near
      /\ outer # null => outer # p /\ outer # near
      /\ near # null => near # inner /\ near # outer
  BY <1>1, <1>3, <1>4
<1>6. root(t) \in N /\ t[root(t)].parent = header
  BY DEF Linked, RootFits
<1>7. p \in N /\ s \in Sides /\ near = t[p][s] /\ inner = t[w][s] /\ outer = t[w][far]
      /\ w = t[p][far]
  BY DEF near, inner, outer, w
<1> HIDE DEF root, far
<1>8. Family(t, N, p, s, w, near, inner, outer)
  <2>1. \A k \in {near, inner, outer} : k # p /\ k # w /\ (k # null => k \in N /\ k # root(t))
    BY <1>1, <1>3, <1>4, <1>5, <1>6
  <2>2. /\ near # null => near # inner /\ near # outer /\ t[near].parent = p
        /\ inner # null => inner # outer /\ t[inner].parent = w
        /\ outer # null => outer # inner /\ outer # near /\ t[outer].parent = w
        /\ root(t) \in N /\ root(t) # w
    BY <1>1, <1>3, <1>4, <1>5, <1>6
  <2>3. \A n \in N, r \in Sides : t[n][r] # null => t[n][r] \in N /\ t[t[n][r]].parent = n
    BY <1>2
  <2> QED
    BY <1>3, <1>7, <2>1, <2>2, <2>3 DEF Family, far
<1> QED
  BY <1>8 DEF w, near, inner, outer, far

\* The heights around the short place: the sibling is there, and one higher.
LoweredAround(t, N, bh, x, p, s, w) ==
    /\ bh \in [N -> Nat]
    /\ w # null
    /\ bh[w] = H(bh, x) + 1
    /\ bh[p] = H(bh, x) + 1 + Black(t, p)
    /\ \A n \in N, r \in Sides : H(bh, t[n][r]) \in Nat
    /\ \A n \in N \ {p}, r \in Sides : bh[n] = H(bh, t[n][r]) + Black(t, n)

\* Around a place that is one black node short, the sibling is a node and has height.
LEMMA LoweredIs ==
    ASSUME NEW t, NEW N, NEW sub, Linked(t, N, sub), NEW bh, NEW x, NEW p, NEW s,
           Lowered(t, N, bh, x, p, s)
    PROVE  LoweredAround(t, N, bh, x, p, s, t[p][Mirror(s)])
<1> DEFINE w == t[p][Mirror(s)]
<1>1. /\ bh \in [N -> Nat] /\ p \in N /\ s \in Sides /\ t[p][s] = x
      /\ \A n \in N, r \in Sides : bh[n] = H(bh, t[n][r]) + Short(n, r, p, s) + Black(t, n)
  BY DEF Lowered, HeightAt
<1>2. Mirror(s) \in Sides /\ Mirror(s) # s
  BY <1>1, MirrorIs
<1>3. \A n \in N, r \in Sides : H(bh, t[n][r]) \in Nat
  <2>1. \A n \in N, r \in Sides : t[n][r] # null => t[n][r] \in N
    BY KidIs
  <2> QED
    BY <2>1, <1>1 DEF H
<1>4. \A n \in N : Black(t, n) \in Int
  BY DEF Black
<1>5. ASSUME NEW n \in N \ {p}, NEW r \in Sides PROVE bh[n] = H(bh, t[n][r]) + Black(t, n)
  <2>1. bh[n] = H(bh, t[n][r]) + Short(n, r, p, s) + Black(t, n) /\ H(bh, t[n][r]) \in Nat
    BY <1>1, <1>3
  <2>2. Short(n, r, p, s) = 0
    BY DEF Short
  <2>3. Black(t, n) \in Int
    BY <1>4
  <2> HIDE DEF Short, Black
  <2> QED
    BY <2>1, <2>2, <2>3
<1>6. bh[p] = H(bh, x) + 1 + Black(t, p) /\ bh[p] = H(bh, w) + Black(t, p)
      /\ H(bh, x) \in Nat /\ H(bh, w) \in Nat
  <2>1. Short(p, s, p, s) = 1 /\ Short(p, Mirror(s), p, s) = 0
    BY <1>2 DEF Short
  <2>2. /\ bh[p] = H(bh, x) + Short(p, s, p, s) + Black(t, p)
        /\ bh[p] = H(bh, w) + Short(p, Mirror(s), p, s) + Black(t, p)
        /\ H(bh, x) \in Nat /\ H(bh, w) \in Nat
    BY <1>1, <1>2, <1>3
  <2>3. Black(t, p) \in Int
    BY <1>1, <1>4
  <2> HIDE DEF w, Black
  <2> QED
    BY <2>1, <2>2, <2>3
<1> HIDE DEF w
<1>7. H(bh, w) = H(bh, x) + 1
  <2>1. Black(t, p) \in Int
    BY <1>1, <1>4
  <2> QED
    BY <1>6, <2>1
<1>8. w # null /\ bh[w] = H(bh, x) + 1
  BY <1>6, <1>7 DEF H
<1> QED
  BY <1>1, <1>3, <1>5, <1>6, <1>8 DEF LoweredAround, w

\* u is t with other colours.
Repainted(t, u, D, N, sub) ==
    /\ SameButColours(t, u, D)
    /\ Shape(u, D, N, sub)
    /\ HeaderKept(t, u)
    /\ root(u) = root(t)
    /\ \A n \in N : u[n].parent = t[n].parent /\ \A r \in Sides : u[n][r] = t[n][r]

OneColour(v, u, N, n, c) == \A m \in N : u[m].is_red = IF m = n THEN c ELSE v[m].is_red

\* Painting, one node after another.
LEMMA RepaintIs ==
    ASSUME NEW t, NEW D, NEW N, NEW sub, Shape(t, D, N, sub)
    PROVE  /\ Repainted(t, t, D, N, sub)
           /\ \A v, n, c : Repainted(t, v, D, N, sub) /\ n \in N /\ c \in BOOLEAN
                => /\ Repainted(t, Painted(v, n, c), D, N, sub)
                   /\ OneColour(v, Painted(v, n, c), N, n, c)
<1>1. TypedTree(t, D) /\ N \subseteq D
  BY DEF Shape
<1>2. ASSUME NEW u, SameButColours(t, u, D) PROVE Repainted(t, u, D, N, sub)
  <2>1. Shape(u, D, N, sub) /\ HeaderKept(t, u) /\ SameLinks(t, u, N)
    BY <1>2, PaintShape
  <2> QED
    BY <1>2, <2>1 DEF SameLinks, Repainted
<1>3. Repainted(t, t, D, N, sub)
  BY <1>1, <1>2, PaintNone
<1>4. ASSUME NEW v, NEW n, NEW c, Repainted(t, v, D, N, sub), n \in N, c \in BOOLEAN
      PROVE  /\ Repainted(t, Painted(v, n, c), D, N, sub)
             /\ OneColour(v, Painted(v, n, c), N, n, c)
  <2> DEFINE u == Painted(v, n, c)
  <2>1. SameButColours(t, v, D) /\ n \in D
    BY <1>1, <1>4 DEF Repainted
  <2>2. PaintedToo(t, v, u, D, n, c)
    BY <2>1, <1>4, PaintOne
  <2> HIDE DEF u
  <2>3. SameButColours(t, u, D) /\ \A m \in D : u[m].is_red = IF m = n THEN c ELSE v[m].is_red
    BY <2>2 DEF PaintedToo
  <2>4. Repainted(t, u, D, N, sub)
    BY <2>3, <1>2
  <2>5. OneColour(v, u, N, n, c)
    BY <2>3, <1>1 DEF OneColour
  <2> QED
    BY <2>4, <2>5 DEF u
<1> QED
  BY <1>3, <1>4

\* Painting moves nobody.
LEMMA FamilySame ==
    ASSUME NEW t, NEW N, NEW p, NEW s, NEW w, NEW near, NEW inner, NEW outer,
           Family(t, N, p, s, w, near, inner, outer), null \notin N,
           NEW D, NEW sub, NEW u, Repainted(t, u, D, N, sub)
    PROVE  Family(u, N, p, s, w, near, inner, outer)
<1>1. root(u) = root(t) /\ \A n \in N : u[n].parent = t[n].parent
      /\ \A r \in Sides : u[n][r] = t[n][r]
  BY DEF Repainted
<1>2. s \in Sides /\ Mirror(s) \in Sides
  BY MirrorIs DEF Family
<1> HIDE DEF root
<1> QED
  BY <1>1, <1>2 DEF Family

\* u is b after the rotation that brings w up.
TurnedAround(b, u, N, p, s, w, near, inner, outer) ==
    /\ u[p][s] = near /\ u[p][Mirror(s)] = inner /\ u[w][s] = p /\ u[w][Mirror(s)] = outer
    /\ \A n \in N : u[n].is_red = b[n].is_red
    /\ root(u) = IF root(b) = p THEN w ELSE root(b)
    /\ \A n \in N \ {p, w}, r \in Sides : u[n][r] = IF b[n][r] = p THEN w ELSE b[n][r]

\* A rotation and the colours before it.
LEMMA TurnIs ==
    ASSUME NEW b, NEW D, NEW N, NEW sub, Shape(b, D, N, sub),
           NEW p, NEW s, NEW w, NEW near, NEW inner, NEW outer,
           Family(b, N, p, s, w, near, inner, outer)
    PROVE  LET u == rotate(b, p, s)
           IN  /\ \E sub2 : Shape(u, D, N, sub2)
               /\ HeaderKept(b, u)
               /\ TurnedAround(b, u, N, p, s, w, near, inner, outer)
<1> DEFINE u == rotate(b, p, s)
<1>1. TypedTree(b, D) /\ N \subseteq D /\ Linked(b, N, sub)
  BY DEF Shape
<1>2. /\ p \in N /\ w \in N /\ s \in Sides
      /\ b[p][Mirror(s)] = w /\ b[p][s] = near /\ b[w][s] = inner /\ b[w][Mirror(s)] = outer
      /\ w # null
  BY <1>1, Plain DEF Family
<1>3. Rotated(b, u, D, p, s) /\ Shape(u, D, N, Turned(b, sub, p, s)) /\ HeaderKept(b, u)
  BY <1>2, RotateShape
<1> HIDE DEF u
<1>4. /\ u[p][Mirror(s)] = inner /\ u[p][s] = near /\ u[w][s] = p /\ u[w][Mirror(s)] = outer
      /\ \A n \in N : n \notin {p, w} => \A r \in Sides : u[n][r] = IF b[n][r]
         = p THEN w ELSE b[n][r]
      /\ root(u) = (IF root(b) = p THEN w ELSE root(b))
      /\ \A n \in N : u[n].is_red = b[n].is_red
  BY <1>1, <1>2, <1>3, RotatedKids
<1>5. TurnedAround(b, u, N, p, s, w, near, inner, outer)
  BY <1>4 DEF TurnedAround
<1> QED
  BY <1>3, <1>5 DEF u

\* The sibling is red: after the rotation it is black.
LEMMA RaiseRedIs ==
    ASSUME NEW t, NEW D, NEW N, NEW sub, Shape(t, D, N, sub),
           NEW bh, NEW x, NEW p, NEW s, Lowered(t, N, bh, x, p, s),
           NEW w, w = t[p][Mirror(s)], t[w].is_red, ~IsRed(t, x)
    PROVE  LET u == raiseRed(t, p, w, s)
           IN  \E sub2, bh2 :
                /\ Shape(u, D, N, sub2)
                /\ HeaderKept(t, u)
                /\ Lowered(u, N, bh2, x, p, s)
                /\ u[p].is_red /\ ~u[u[p][Mirror(s)]].is_red /\ ~IsRed(u, x)
<1> DEFINE far == Mirror(s)
           inner == t[w][s]
           outer == t[w][far]
           a == Painted(t, w, FALSE)
           b == Painted(a, p, TRUE)
           u == rotate(b, p, s)
           bh2 == [bh EXCEPT ![w] = bh[p], ![p] = H(bh, x) + 1]
<1>1. TypedTree(t, D) /\ N \subseteq D /\ Linked(t, N, sub) /\ null \notin N /\ header \notin N
  BY Plain DEF Shape
<1>2. /\ p \in N /\ s \in Sides /\ t[p][s] = x /\ bh \in [N -> Nat]
      /\ \A n \in N, r \in Sides : PairAt(t, n, r, {x}, {x})
      /\ ~t[root(t)].is_red
      /\ \A n \in N : HeightAt(t, bh, n, p, s)
  BY DEF Lowered
<1>3. far \in Sides /\ far # s /\ \A r \in Sides : r = s \/ r = far
  BY <1>2, MirrorIs
<1>4. LoweredAround(t, N, bh, x, p, s, w)
  BY <1>1, LoweredIs
<1>5. Family(t, N, p, s, w, x, inner, outer)
  BY <1>1, <1>2, <1>4, FamilyIs DEF LoweredAround
<1>6. u = raiseRed(t, p, w, s)
  BY DEF raiseRed, Painted
<1> HIDE DEF inner, outer, far
<1>7. Repainted(t, t, D, N, sub)
  BY RepaintIs
<1>8. p \in N /\ w \in N /\ w # p /\ w # null /\ w # root(t) /\ root(t) \in N
      /\ x # p /\ x # w /\ (x # null => x \in N) /\ x # root(t)
  BY <1>1, <1>2, <1>5 DEF Family
<1>9. Repainted(t, a, D, N, sub) /\ OneColour(t, a, N, w, FALSE)
  BY <1>7, <1>8, RepaintIs
<1> HIDE DEF a
<1>10. Repainted(t, b, D, N, sub) /\ OneColour(a, b, N, p, TRUE)
  BY <1>8, <1>9, RepaintIs
<1> HIDE DEF b
<1>11. \A m \in N : b[m].is_red = IF m = p THEN TRUE ELSE IF m = w THEN FALSE ELSE t[m].is_red
  BY <1>9, <1>10 DEF OneColour
<1>12. /\ Shape(b, D, N, sub) /\ HeaderKept(t, b) /\ root(b) = root(t)
       /\ \A n \in N : b[n].parent = t[n].parent /\ \A r \in Sides : b[n][r] = t[n][r]
  BY <1>10 DEF Repainted
<1>13. Family(b, N, p, s, w, x, inner, outer)
  BY <1>1, <1>5, <1>10, FamilySame
<1>14. (\E sub2 : Shape(u, D, N, sub2)) /\ HeaderKept(b, u)
       /\ TurnedAround(b, u, N, p, s, w, x, inner, outer)
  BY <1>12, <1>13, TurnIs
<1>15. HeaderKept(t, u)
  BY <1>12, <1>14, HeaderKeptTwice
<1>16. /\ t[p][far] = w /\ t[w][s] = inner /\ t[w][far] = outer /\ t[w].parent = p
       /\ b[p][Mirror(s)] = w /\ b[p][s] = x /\ b[w][s] = inner /\ b[w][Mirror(s)] = outer
       /\ \A k \in {inner, outer} : k # p /\ k # w /\ (k # null => k \in N)
       /\ (inner # null => inner # x) /\ (outer # null => outer # x)
       /\ \A n \in N, r \in Sides : t[n][r] # null => t[n][r] \in N /\ t[t[n][r]].parent = n
  BY <1>5, <1>13 DEF Family, far
<1>17. ~t[p].is_red
  BY <1>2, <1>3, <1>8, <1>16 DEF PairAt
<1>18. /\ (inner # null => ~t[inner].is_red) /\ (outer # null => ~t[outer].is_red)
  BY <1>2, <1>3, <1>8, <1>16 DEF PairAt
<1>19. /\ bh[w] = H(bh, x) + 1 /\ bh[p] = H(bh, x) + 2
       /\ H(bh, inner) = H(bh, x) + 1 /\ H(bh, outer) = H(bh, x) + 1 /\ H(bh, x) \in Nat
  <2>1. Black(t, p) = 1 /\ Black(t, w) = 0
    BY <1>17 DEF Black
  <2>2. /\ bh[w] = H(bh, x) + 1 /\ bh[p] = H(bh, x) + 1 + Black(t, p)
        /\ H(bh, x) \in Nat /\ H(bh, inner) \in Nat /\ H(bh, outer) \in Nat
        /\ bh[w] = H(bh, inner) + Black(t, w) /\ bh[w] = H(bh, outer) + Black(t, w)
    BY <1>2, <1>3, <1>4, <1>8, <1>16 DEF LoweredAround
  <2> QED
    BY <2>1, <2>2
<1>20. TurnHeights(b, N, bh, bh2, p, w, x, inner, outer, s, p, s)
  <2>1. bh2[w] = bh[p] /\ bh2[p] = H(bh, x) + 1 /\ \A n \in N : n \notin {p, w} => bh2[n] = bh[n]
    BY <1>2, <1>8
  <2> HIDE DEF bh2
  <2>2. ASSUME NEW n \in N, n \notin {p, w} PROVE HeightAt(b, bh, n, p, s) /\ bh2[n] = bh[n]
    <3>1. Black(b, n) = Black(t, n)
      BY <1>11, <2>2 DEF Black
    <3> QED
      BY <3>1, <1>2, <1>12, <2>1, <2>2 DEF HeightAt
  <2>3. Short(p, s, p, s) = 1 /\ Short(p, Mirror(s), p, s) = 0
        /\ Short(w, s, p, s) = 0 /\ Short(w, Mirror(s), p, s) = 0
    BY <1>3, <1>8 DEF Short, far
  <2>4. Black(b, p) = 0 /\ Black(b, w) = 1
    BY <1>8, <1>11 DEF Black
  <2>5. /\ bh2[p] = H(bh, x) + Short(p, s, p, s) + Black(b, p)
        /\ bh2[p] = H(bh, inner) + Short(p, Mirror(s), p, s) + Black(b, p)
        /\ bh2[w] = bh2[p] + Short(w, s, p, s) + Black(b, w)
        /\ bh2[w] = H(bh, outer) + Short(w, Mirror(s), p, s) + Black(b, w)
    BY <1>19, <2>1, <2>3, <2>4
  <2> QED
    BY <2>1, <2>2, <2>5 DEF TurnHeights
<1>21. \A n \in N : HeightAt(u, bh2, n, p, s)
  <2> HIDE DEF bh2
  <2> QED
    BY <1>20, <1>2, <1>8, <1>12, <1>16, TurnedHeights
<1>22. TurnPairs(b, N, p, w, x, inner, outer, {x}, {x})
  <2>1. ASSUME NEW n \in N, NEW r \in Sides, n \notin {p, w}, b[n][r] # p
        PROVE PairAt(b, n, r, {x}, {x})
    <3>1. PairAt(t, n, r, {x}, {x}) /\ b[n][r] = t[n][r] /\ b[n].is_red = t[n].is_red
          /\ (t[n][r] # null => t[n][r] \in N)
      BY ZenonT(40), <1>2, <1>11, <1>12, <1>16, <2>1
    <3>2. b[n][r] # null => (b[t[n][r]].is_red => t[t[n][r]].is_red)
      BY <3>1, <1>11, <2>1
    <3> QED
      BY <3>1, <3>2 DEF PairAt
  <2>2. ~b[w].is_red /\ (x # null => ~b[x].is_red)
        /\ (inner # null => ~b[inner].is_red) /\ (outer # null => ~b[outer].is_red)
    BY <1>8, <1>11, <1>16, <1>18 DEF IsRed
  <2> QED
    BY <2>1, <2>2 DEF TurnPairs, RedPair
<1>23. \A n \in N, r \in Sides : PairAt(u, n, r, {x}, {x})
  BY <1>22, <1>2, <1>8, <1>12, <1>16, TurnedPairs
<1> HIDE DEF u
<1>24. /\ u[p][s] = x /\ u[p][far] = inner
       /\ \A n \in N : u[n].is_red = b[n].is_red
       /\ root(u) = IF root(b) = p THEN w ELSE root(b)
  BY <1>14 DEF TurnedAround, far
<1>25. ~u[root(u)].is_red
  <2> DEFINE top == root(u)
             old == root(t)
  <2>1. top = (IF old = p THEN w ELSE old) /\ old \in N /\ old # w /\ ~t[old].is_red
    BY <1>2, <1>8, <1>12, <1>24
  <2> HIDE DEF top, old
  <2>2. top \in N /\ top # p /\ (top = w \/ top = old)
    BY <2>1, <1>8
  <2>3. ~b[top].is_red
    BY <2>1, <2>2, <1>11
  <2>4. ~u[top].is_red
    BY <2>2, <2>3, <1>24
  <2> QED
    BY <2>4 DEF top
<1>26. bh2 \in [N -> Nat]
  <2>1. bh[p] \in Nat /\ H(bh, x) + 1 \in Nat
    BY <1>2, <1>19
  <2> QED
    BY <2>1, <1>2
<1>27. inner # null
  <2>1. H(bh, inner) # 0
    BY <1>19
  <2> QED
    BY <2>1 DEF H
<1>28. u[p].is_red /\ ~u[u[p][far]].is_red /\ ~IsRed(u, x)
  BY ZenonT(40), <1>8, <1>11, <1>16, <1>18, <1>24, <1>27 DEF IsRed
<1>29. Lowered(u, N, bh2, x, p, s)
  <2> HIDE DEF bh2, root
  <2> QED
    BY <1>2, <1>21, <1>23, <1>24, <1>25, <1>26 DEF Lowered
<1> QED
  BY <1>6, <1>14, <1>15, <1>28, <1>29 DEF far

\* The outer child of the black sibling is red: the paths are even again.
LEMMA RaiseBlackIs ==
    ASSUME NEW t, NEW D, NEW N, NEW sub, Shape(t, D, N, sub),
           NEW bh, NEW x, NEW p, NEW s, Lowered(t, N, bh, x, p, s),
           NEW w, w = t[p][Mirror(s)], ~t[w].is_red, IsRed(t, t[w][Mirror(s)]), ~IsRed(t, x)
    PROVE  LET u == raiseBlack(t, p, w, s)
           IN  /\ HeaderKept(t, u)
               /\ ~IsRed(u, x)
               /\ \E sub2, bh2 : Shape(u, D, N, sub2) /\ RedBlack(u, N, sub2, bh2)
<1> DEFINE far == Mirror(s)
           inner == t[w][s]
           outer == t[w][far]
           cp == t[p].is_red
           a == Painted(t, w, cp)
           b == Painted(a, p, FALSE)
           c == Painted(b, outer, FALSE)
           u == rotate(c, p, s)
           bh1 == [bh EXCEPT ![outer] = bh[outer] + 1]
           bh2 == [bh1 EXCEPT ![w] = bh[p], ![p] = H(bh, x) + 1]
<1>1. TypedTree(t, D) /\ N \subseteq D /\ Linked(t, N, sub) /\ null \notin N /\ header \notin N
  BY Plain DEF Shape
<1>2. /\ p \in N /\ s \in Sides /\ t[p][s] = x /\ bh \in [N -> Nat]
      /\ \A n \in N, r \in Sides : PairAt(t, n, r, {x}, {x})
      /\ ~t[root(t)].is_red
      /\ \A n \in N : HeightAt(t, bh, n, p, s)
  BY DEF Lowered
<1>3. far \in Sides /\ far # s /\ \A r \in Sides : r = s \/ r = far
  BY <1>2, MirrorIs
<1>4. LoweredAround(t, N, bh, x, p, s, w)
  BY <1>1, LoweredIs
<1>5. Family(t, N, p, s, w, x, inner, outer)
  BY <1>1, <1>2, <1>4, FamilyIs DEF LoweredAround
<1>6. u = raiseBlack(t, p, w, s)
  BY DEF raiseBlack, Painted, Blacken, IsRed
<1>7. outer # null /\ t[outer].is_red
  BY DEF IsRed
<1>80. cp \in BOOLEAN
  BY <1>1, <1>2, FieldTypes
<1> HIDE DEF inner, outer, far, cp
<1>8. Repainted(t, t, D, N, sub)
  BY RepaintIs
<1>9. p \in N /\ w \in N /\ w # p /\ w # null /\ w # root(t) /\ root(t) \in N
      /\ x # p /\ x # w /\ (x # null => x \in N) /\ x # root(t)
      /\ outer \in N /\ outer # p /\ outer # w /\ outer # root(t)
      /\ inner # p /\ inner # w /\ (inner # null => inner \in N /\ inner # outer)
      /\ x # outer
  BY <1>1, <1>2, <1>5, <1>7 DEF Family
<1>10. Repainted(t, a, D, N, sub) /\ OneColour(t, a, N, w, cp)
  BY <1>8, <1>9, <1>80, RepaintIs
<1> HIDE DEF a
<1>11. Repainted(t, b, D, N, sub) /\ OneColour(a, b, N, p, FALSE)
  BY <1>9, <1>10, RepaintIs
<1> HIDE DEF b
<1>12. Repainted(t, c, D, N, sub) /\ OneColour(b, c, N, outer, FALSE)
  BY <1>9, <1>11, RepaintIs
<1> HIDE DEF c
<1>13. \A m \in N : c[m].is_red = IF m = outer THEN FALSE ELSE IF m = p THEN FALSE
                                  ELSE IF m = w THEN cp ELSE t[m].is_red
  BY <1>10, <1>11, <1>12 DEF OneColour
<1>14. /\ Shape(c, D, N, sub) /\ HeaderKept(t, c) /\ root(c) = root(t)
       /\ \A n \in N : c[n].parent = t[n].parent /\ \A r \in Sides : c[n][r] = t[n][r]
  BY <1>12 DEF Repainted
<1>15. Family(c, N, p, s, w, x, inner, outer)
  BY <1>1, <1>5, <1>12, FamilySame
<1>16. (\E sub2 : Shape(u, D, N, sub2)) /\ HeaderKept(c, u)
       /\ TurnedAround(c, u, N, p, s, w, x, inner, outer)
  BY <1>14, <1>15, TurnIs
<1>17. HeaderKept(t, u)
  BY <1>14, <1>16, HeaderKeptTwice
<1>18. /\ t[p][far] = w /\ t[w][s] = inner /\ t[w][far] = outer /\ t[w].parent = p
          /\ t[outer].parent = w
       /\ c[p][Mirror(s)] = w /\ c[p][s] = x /\ c[w][s] = inner /\ c[w][Mirror(s)] = outer
       /\ \A n \in N, r \in Sides : t[n][r] # null => t[n][r] \in N /\ t[t[n][r]].parent = n
  BY <1>5, <1>7, <1>15 DEF Family, far
<1>19. /\ bh[w] = H(bh, x) + 1 /\ bh[p] = H(bh, x) + 1 + Black(t, p)
       /\ H(bh, inner) = H(bh, x) /\ bh[outer] = H(bh, x) /\ H(bh, x) \in Nat
       /\ Black(t, p) \in Nat
  <2>1. Black(t, w) = 1 /\ H(bh, outer) = bh[outer] /\ Black(t, p) \in Nat
    BY <1>7 DEF Black, H
  <2>2. /\ bh[w] = H(bh, x) + 1 /\ bh[p] = H(bh, x) + 1 + Black(t, p)
        /\ H(bh, x) \in Nat /\ H(bh, inner) \in Nat /\ H(bh, outer) \in Nat
        /\ bh[w] = H(bh, inner) + Black(t, w) /\ bh[w] = H(bh, outer) + Black(t, w)
    BY <1>2, <1>3, <1>4, <1>9, <1>18 DEF LoweredAround
  <2> QED
    BY <2>1, <2>2
<1>20. TurnHeights(c, N, bh1, bh2, p, w, x, inner, outer, s, null, "left")
  <2>1. bh2[w] = bh[p] /\ bh2[p] = H(bh, x) + 1 /\ \A n \in N : n \notin {p, w} => bh2[n] = bh1[n]
    BY <1>2, <1>9
  <2>2. bh1[outer] = bh[outer] + 1 /\ \A n \in N : n # outer => bh1[n] = bh[n]
    BY <1>2, <1>9
  <2> HIDE DEF bh2, bh1
  <2>21. H(bh1, x) = H(bh, x) /\ H(bh1, inner) = H(bh, inner) /\ H(bh1, outer) = H(bh, x) + 1
    BY <2>2, <1>7, <1>9, <1>19 DEF H
  <2>22. \A n \in N, r \in Sides : Short(n, r, null, "left") = 0
    BY <1>1 DEF Short
  <2>3. ASSUME NEW n \in N, n \notin {p, w} PROVE HeightAt(c, bh1, n, null, "left")
        /\ bh2[n] = bh1[n]
    <3> SUFFICES ASSUME NEW r \in Sides
                 PROVE  bh1[n] = H(bh1, c[n][r]) + Short(n, r, null, "left") + Black(c, n)
      BY <2>1, <2>3 DEF HeightAt
    <3> DEFINE k == t[n][r]
    <3>1. c[n][r] = k /\ k # outer /\ (k # null => k \in N)
      BY <1>14, <1>18, <2>3, <1>7
    <3>2. bh[n] = H(bh, k) + Black(t, n) /\ H(bh, k) \in Nat
      BY <1>4, <2>3 DEF LoweredAround
    <3> HIDE DEF k
    <3>3. H(bh1, k) = H(bh, k)
      BY <3>1, <2>2 DEF H
    <3>4. Black(c, n) = (IF n = outer THEN 1 ELSE Black(t, n)) /\ (n = outer => Black(t, n) = 0)
      BY <1>7, <1>13, <2>3 DEF Black
    <3>5. Black(t, n) \in Nat
      BY DEF Black
    <3>6. bh1[n] = H(bh, k) + Black(c, n)
      BY <3>2, <3>4, <3>5, <2>2
    <3>7. Short(n, r, null, "left") = 0 /\ Black(c, n) \in Nat
      BY <2>22, <3>4, <3>5
    <3> QED
      BY <3>1, <3>2, <3>3, <3>6, <3>7
  <2>4. Short(p, s, null, "left") = 0 /\ Short(p, Mirror(s), null, "left") = 0
        /\ Short(w, s, null, "left") = 0 /\ Short(w, Mirror(s), null, "left") = 0
    BY <1>2, <1>3, <1>9, <2>22 DEF far
  <2>5. Black(c, p) = 1 /\ Black(c, w) = Black(t, p)
    BY <1>9, <1>13 DEF Black, cp
  <2>6. /\ bh2[p] = H(bh1, x) + Short(p, s, null, "left") + Black(c, p)
        /\ bh2[p] = H(bh1, inner) + Short(p, Mirror(s), null, "left") + Black(c, p)
        /\ bh2[w] = bh2[p] + Short(w, s, null, "left") + Black(c, w)
        /\ bh2[w] = H(bh1, outer) + Short(w, Mirror(s), null, "left") + Black(c, w)
    BY <1>19, <2>1, <2>21, <2>4, <2>5
  <2>7. bh2[w] = bh1[p]
    BY <2>1, <2>2, <1>9
  <2> QED
    BY <2>3, <2>6, <2>7 DEF TurnHeights
<1>21. \A n \in N : HeightAt(u, bh2, n, null, "left")
  <2> HIDE DEF bh2, bh1
  <2> QED
    BY <1>20, <1>2, <1>9, <1>14, <1>18, TurnedHeights
<1>211. \A n \in N, r \in Sides : t[n].is_red /\ t[n][r] # null => ~t[t[n][r]].is_red
  <2> SUFFICES ASSUME NEW n \in N, NEW r \in Sides, t[n].is_red, t[n][r] # null, t[t[n][r]].is_red
               PROVE  FALSE
    OBVIOUS
  <2>1. n = x \/ t[n][r] = x
    BY <1>2 DEF PairAt
  <2> QED
    BY <2>1, <1>1 DEF IsRed
<1>22. TurnPairs(c, N, p, w, x, inner, outer, {}, {})
  <2>1. ASSUME NEW n \in N, NEW r \in Sides, n \notin {p, w}, c[n][r] # p
        PROVE PairAt(c, n, r, {}, {})
    <3> DEFINE k == t[n][r]
    <3>1. c[n][r] = k /\ (c[n].is_red => t[n].is_red) /\ (k # null
          => k \in N /\ t[k].parent = n) /\ k # p
      BY ZenonT(40), <1>13, <1>14, <1>18, <2>1
    <3>2. k # null => (c[k].is_red => t[k].is_red)
      BY <3>1, <1>13, <1>18, <2>1
    <3>3. t[n].is_red /\ k # null => ~t[k].is_red
      BY <1>211
    <3> HIDE DEF k
    <3> QED
      BY <3>1, <3>2, <3>3 DEF PairAt
  <2>2. ~c[p].is_red /\ ~c[outer].is_red
    BY <1>9, <1>13
  <2>3. c[p].parent # header => RedPair(c, c[p].parent, w, {}, {})
    <3> DEFINE q == t[p].parent
    <3>1. c[p].parent = q
      BY <1>9, <1>14
    <3> SUFFICES ASSUME q # header PROVE RedPair(c, q, w, {}, {})
      BY <3>1
    <3>2. PICK r \in Sides : q \in N /\ t[q][r] = p
      BY <1>1, <1>9, ParentIs2
    <3>3. q # p /\ q # w
      <4>1. q # p
        BY <1>1, <1>9, <3>2, ParentIs2
      <4>2. t[w].parent = p /\ p # header
        BY <1>1, <1>9, <1>18
      <4>3. w \in sub[p] /\ sub[p] \subseteq sub[q] /\ q \notin sub[p]
        BY <1>1, <1>3, <1>9, <1>18, <3>2, KidIs, Plain
      <4> QED
        BY <4>1, <4>3
    <3>4. t[q].is_red => ~t[p].is_red
      BY <3>2, <1>211, <1>1, <1>9
    <3> HIDE DEF q
    <3>5. c[q].is_red => t[q].is_red
      BY <3>2, <3>3, <1>13
    <3>6. c[w].is_red = t[p].is_red
      BY <1>9, <1>13 DEF cp
    <3> QED
      BY <3>4, <3>5, <3>6 DEF RedPair
  <2> QED
    BY <2>1, <2>2, <2>3 DEF TurnPairs, RedPair
<1>23. \A n \in N, r \in Sides : PairAt(u, n, r, {}, {})
  BY <1>22, <1>2, <1>9, <1>14, <1>18, TurnedPairs
<1> HIDE DEF u
<1>24. /\ \A n \in N : u[n].is_red = c[n].is_red
       /\ root(u) = IF root(c) = p THEN w ELSE root(c)
  BY <1>16 DEF TurnedAround
<1>25. ~u[root(u)].is_red
  <2> DEFINE top == root(u)
             old == root(t)
  <2>1. top = (IF old = p THEN w ELSE old) /\ old \in N /\ old # w /\ old # outer /\ ~t[old].is_red
    BY <1>2, <1>9, <1>14, <1>24
  <2> HIDE DEF top, old
  <2>2. top \in N
    BY <2>1, <1>9
  <2>3. ~c[top].is_red
    <3>1. CASE old = p
      <4>1. top = w /\ ~t[p].is_red
        BY <3>1, <2>1
      <4> QED
        BY <4>1, <1>9, <1>13 DEF cp
    <3>2. CASE old # p
      BY <3>2, <2>1, <1>13
    <3> QED
      BY <3>1, <3>2
  <2>4. ~u[top].is_red
    BY <2>2, <2>3, <1>24
  <2> QED
    BY <2>4 DEF top
<1>26. bh2 \in [N -> Nat]
  <2>1. bh[p] \in Nat /\ H(bh, x) + 1 \in Nat /\ bh[outer] + 1 \in Nat
    BY <1>2, <1>9, <1>19
  <2>2. bh1 \in [N -> Nat]
    BY <2>1, <1>2
  <2> HIDE DEF bh1
  <2> QED
    BY <2>1, <2>2
<1>27. ~IsRed(u, x)
  BY <1>9, <1>13, <1>24 DEF IsRed
<1>28. PICK sub2 : Shape(u, D, N, sub2)
  BY <1>16
<1>29. RedBlack(u, N, sub2, bh2)
  <2> HIDE DEF bh2, bh1, root
  <2>1. Linked(u, N, sub2)
    BY <1>28 DEF Shape
  <2>2. Level(u, N, bh2)
    BY SMTT(30), <2>1, <1>21, <1>26, LevelIs
  <2> QED
    BY <2>2, <1>23, <1>25, <1>26 DEF RedBlack
<1> QED
  BY <1>6, <1>17, <1>27, <1>28, <1>29

\* Only the inner child of the black sibling is red: it comes up, and the new sibling
\* has a red outer child.
LEMMA BendIs ==
    ASSUME NEW t, NEW D, NEW N, NEW sub, Shape(t, D, N, sub),
           NEW bh, NEW x, NEW p, NEW s, Lowered(t, N, bh, x, p, s),
           NEW w, w = t[p][Mirror(s)], ~t[w].is_red,
           IsRed(t, t[w][s]), ~IsRed(t, t[w][Mirror(s)]), ~IsRed(t, x)
    PROVE  LET u == bend(t, w, s)
           IN  \E sub2, bh2 :
                /\ Shape(u, D, N, sub2)
                /\ HeaderKept(t, u)
                /\ Lowered(u, N, bh2, x, p, s)
                /\ ~u[u[p][Mirror(s)]].is_red /\ IsRed(u, u[u[p][Mirror(s)]][Mirror(s)])
                /\ ~IsRed(u, x)
<1> DEFINE far == Mirror(s)
           inner == t[w][s]
           outer == t[w][far]
           in1 == t[inner][far]
           in2 == t[inner][s]
           a == Painted(t, inner, FALSE)
           b == Painted(a, w, TRUE)
           u == rotate(b, w, far)
           bh2 == [bh EXCEPT ![inner] = bh[w], ![w] = H(bh, x)]
<1>1. TypedTree(t, D) /\ N \subseteq D /\ Linked(t, N, sub) /\ null \notin N /\ header \notin N
  BY Plain DEF Shape
<1>2. /\ p \in N /\ s \in Sides /\ t[p][s] = x /\ bh \in [N -> Nat]
      /\ \A n \in N, r \in Sides : PairAt(t, n, r, {x}, {x})
      /\ ~t[root(t)].is_red
      /\ \A n \in N : HeightAt(t, bh, n, p, s)
  BY DEF Lowered
<1>3. far \in Sides /\ far # s /\ Mirror(far) = s /\ \A r \in Sides : r = s \/ r = far
  BY <1>2, MirrorIs
<1>4. LoweredAround(t, N, bh, x, p, s, w)
  BY <1>1, LoweredIs
<1>5. Family(t, N, p, s, w, x, inner, outer)
  BY <1>1, <1>2, <1>4, FamilyIs DEF LoweredAround
<1>6. u = bend(t, w, s)
  BY DEF bend, Painted, Blacken, IsRed
<1>7. inner # null /\ t[inner].is_red
  BY DEF IsRed
<1>71. t[p][far] = w
  OBVIOUS
<1> HIDE DEF far
<1>8. p \in N /\ w \in N /\ w # p /\ w # null /\ w # root(t) /\ root(t) \in N
      /\ x # p /\ x # w /\ (x # null => x \in N) /\ x # root(t)
      /\ inner \in N /\ inner # p /\ inner # w /\ inner # root(t) /\ inner # x
      /\ outer # p /\ outer # w /\ outer # inner /\ (outer # null => outer \in N)
      /\ t[w].parent = p /\ t[inner].parent = w
  BY SMTT(30), <1>1, <1>2, <1>5, <1>7 DEF Family, far
<1>9. Family(t, N, w, far, inner, outer, in1, in2)
  <2>1. t[w][Mirror(far)] # null
    BY <1>3, <1>7
  <2>2. LET ww == t[w][Mirror(far)]
        IN  Family(t, N, w, far, ww, t[w][far], t[ww][far], t[ww][Mirror(far)])
    BY SMTT(30), <2>1, <1>1, <1>3, <1>8, FamilyIs
  <2> QED
    BY <2>2, <1>3
<1>10. /\ in1 # w /\ in1 # inner /\ (in1 # null => in1 \in N)
       /\ in2 # w /\ in2 # inner /\ (in2 # null => in2 \in N)
       /\ \A n \in N, r \in Sides : t[n][r] # null => t[n][r] \in N /\ t[t[n][r]].parent = n
  BY <1>9 DEF Family
<1>11. t[w][s] = inner /\ t[w][far] = outer /\ t[inner][far] = in1 /\ t[inner][s] = in2
  OBVIOUS
<1> HIDE DEF inner, outer, in1, in2
<1>12. Repainted(t, t, D, N, sub)
  BY RepaintIs
<1>13. Repainted(t, a, D, N, sub) /\ OneColour(t, a, N, inner, FALSE)
  BY <1>12, <1>8, RepaintIs
<1> HIDE DEF a
<1>14. Repainted(t, b, D, N, sub) /\ OneColour(a, b, N, w, TRUE)
  BY <1>8, <1>13, RepaintIs
<1> HIDE DEF b
<1>15. \A m \in N : b[m].is_red = IF m = w THEN TRUE ELSE IF m = inner THEN FALSE ELSE t[m].is_red
  BY <1>13, <1>14 DEF OneColour
<1>16. /\ Shape(b, D, N, sub) /\ HeaderKept(t, b) /\ root(b) = root(t)
       /\ \A n \in N : b[n].parent = t[n].parent /\ \A r \in Sides : b[n][r] = t[n][r]
  BY <1>14 DEF Repainted
<1>17. Family(b, N, w, far, inner, outer, in1, in2)
  BY <1>1, <1>9, <1>14, FamilySame
<1>18. (\E sub2 : Shape(u, D, N, sub2)) /\ HeaderKept(b, u)
       /\ TurnedAround(b, u, N, w, far, inner, outer, in1, in2)
  BY <1>16, <1>17, TurnIs
<1>19. HeaderKept(t, u)
  BY <1>16, <1>18, HeaderKeptTwice
<1>20. /\ b[w][Mirror(far)] = inner /\ b[w][far] = outer /\ b[inner][far] = in1
          /\ b[inner][Mirror(far)] = in2
  BY <1>17 DEF Family
<1>21. ~t[w].is_red /\ (outer # null => ~t[outer].is_red) /\ (x # null => ~t[x].is_red)
  BY <1>11 DEF IsRed, far
<1>22. (in1 # null => ~t[in1].is_red) /\ (in2 # null => ~t[in2].is_red)
  <2>1. PairAt(t, inner, far, {x}, {x}) /\ PairAt(t, inner, s, {x}, {x})
    BY <1>2, <1>3, <1>8
  <2>2. (t[inner][far] # x /\ t[inner][s] # x) \/ x = null
    <3> SUFFICES ASSUME x # null PROVE t[inner][far] # x /\ t[inner][s] # x
      OBVIOUS
    <3>1. t[x].parent = p
      BY <1>2, <1>10
    <3> QED
      BY <3>1, <1>2, <1>3, <1>8, <1>10
  <2> QED
    BY <2>1, <2>2, <1>7, <1>8, <1>11 DEF PairAt
<1>23. /\ bh[w] = H(bh, x) + 1 /\ bh[inner] = H(bh, x) /\ H(bh, outer) = H(bh, x)
       /\ H(bh, in1) = H(bh, x) /\ H(bh, in2) = H(bh, x) /\ H(bh, x) \in Nat
  <2>1. Black(t, w) = 1 /\ Black(t, inner) = 0 /\ H(bh, inner) = bh[inner]
    BY <1>7, <1>21 DEF Black, H
  <2>2. /\ bh[w] = H(bh, x) + 1
        /\ H(bh, x) \in Nat /\ H(bh, inner) \in Nat /\ H(bh, outer) \in Nat
        /\ H(bh, in1) \in Nat /\ H(bh, in2) \in Nat
    BY <1>2, <1>3, <1>4, <1>8, <1>11 DEF LoweredAround
  <2>3. /\ bh[w] = H(bh, inner) + Black(t, w) /\ bh[w] = H(bh, outer) + Black(t, w)
        /\ bh[inner] = H(bh, in1) + Black(t, inner) /\ bh[inner] = H(bh, in2) + Black(t, inner)
    BY <1>2, <1>3, <1>4, <1>8, <1>11 DEF LoweredAround
  <2> QED
    BY <2>1, <2>2, <2>3
<1>24. TurnHeights(b, N, bh, bh2, w, inner, outer, in1, in2, far, p, s)
  <2>1. bh2[inner] = bh[w] /\ bh2[w] = H(bh, x) /\ \A n \in N : n \notin {w, inner}
        => bh2[n] = bh[n]
    BY <1>2, <1>8
  <2> HIDE DEF bh2
  <2>2. ASSUME NEW n \in N, n \notin {w, inner} PROVE HeightAt(b, bh, n, p, s) /\ bh2[n] = bh[n]
    <3>1. Black(b, n) = Black(t, n)
      BY <1>15, <2>2 DEF Black
    <3> QED
      BY <3>1, <1>2, <1>16, <2>1, <2>2 DEF HeightAt
  <2>3. Short(w, far, p, s) = 0 /\ Short(w, Mirror(far), p, s) = 0
        /\ Short(inner, far, p, s) = 0 /\ Short(inner, Mirror(far), p, s) = 0
    BY <1>3, <1>8 DEF Short
  <2>4. Black(b, w) = 0 /\ Black(b, inner) = 1
    BY <1>8, <1>15 DEF Black
  <2>5. /\ bh2[w] = H(bh, outer) + Short(w, far, p, s) + Black(b, w)
        /\ bh2[w] = H(bh, in1) + Short(w, Mirror(far), p, s) + Black(b, w)
        /\ bh2[inner] = bh2[w] + Short(inner, far, p, s) + Black(b, inner)
        /\ bh2[inner] = H(bh, in2) + Short(inner, Mirror(far), p, s) + Black(b, inner)
    BY <1>23, <2>1, <2>3, <2>4
  <2> QED
    BY <2>1, <2>2, <2>5 DEF TurnHeights
<1>25. \A n \in N : HeightAt(u, bh2, n, p, s)
  <2> HIDE DEF bh2
  <2> QED
    BY <1>24, <1>3, <1>8, <1>16, <1>20, <1>7, TurnedHeights
<1>26. TurnPairs(b, N, w, inner, outer, in1, in2, {x}, {x})
  <2>1. ASSUME NEW n \in N, NEW r \in Sides, n \notin {w, inner}, b[n][r] # w
        PROVE PairAt(b, n, r, {x}, {x})
    <3>1. PairAt(t, n, r, {x}, {x}) /\ b[n][r] = t[n][r] /\ b[n].is_red = t[n].is_red
          /\ (t[n][r] # null => t[n][r] \in N)
      <4>1. b[n].is_red = t[n].is_red
        BY <1>15, <2>1
      <4>2. t[n][r] # null => t[n][r] \in N
        BY <1>10
      <4> QED
        BY <1>2, <1>16, <4>1, <4>2
    <3>2. t[n][r] # null => (b[t[n][r]].is_red => t[t[n][r]].is_red)
      BY <3>1, <1>15, <2>1
    <3> QED
      BY <3>1, <3>2 DEF PairAt
  <2>2. ~b[inner].is_red /\ (outer # null => ~b[outer].is_red) /\ (in1 # null => ~b[in1].is_red)
    BY <1>8, <1>10, <1>15, <1>21, <1>22
  <2> QED
    BY <2>1, <2>2 DEF TurnPairs, RedPair
<1>27. \A n \in N, r \in Sides : PairAt(u, n, r, {x}, {x})
  BY <1>26, <1>3, <1>7, <1>8, <1>16, <1>20, TurnedPairs
<1> HIDE DEF u
<1>28. /\ u[inner][far] = w
       /\ \A n \in N : u[n].is_red = b[n].is_red
       /\ root(u) = root(t)
       /\ \A n \in N \ {w, inner}, r \in Sides : u[n][r] = IF b[n][r] = w THEN inner ELSE b[n][r]
  <2> HIDE DEF root
  <2> QED
    BY <1>8, <1>16, <1>18 DEF TurnedAround
<1>29. u[p][s] = x /\ u[p][far] = inner
  BY <1>2, <1>3, <1>8, <1>16, <1>28, <1>71
<1>30. ~u[root(u)].is_red
  <2> DEFINE top == root(t)
  <2>1. top \in N /\ top # w /\ top # inner /\ ~t[top].is_red /\ root(u) = top
    BY <1>2, <1>8, <1>28
  <2> HIDE DEF top
  <2> QED
    BY <2>1, <1>15, <1>28
<1>31. bh2 \in [N -> Nat]
  <2>1. bh[w] \in Nat /\ H(bh, x) \in Nat
    BY <1>2, <1>8, <1>23
  <2> QED
    BY <2>1, <1>2
<1>32. ~u[u[p][far]].is_red /\ IsRed(u, u[u[p][far]][far]) /\ ~IsRed(u, x)
  BY <1>8, <1>15, <1>21, <1>28, <1>29 DEF IsRed
<1>33. Lowered(u, N, bh2, x, p, s)
  <2> HIDE DEF bh2, root
  <2> QED
    BY <1>2, <1>25, <1>27, <1>29, <1>30, <1>31 DEF Lowered
<1> QED
  BY <1>6, <1>18, <1>19, <1>32, <1>33 DEF far

\* Where the short place is after a round that has only painted w.
Darkened(u, D, N, sub, p, p2) ==
    /\ Shape(u, D, N, sub)
    /\ \E bh : IF p2 = header THEN Evened(u, N, bh, p)
               ELSE \E d \in Sides : Lowered(u, N, bh, p, p2, d)

\* Case 2: the black sibling becomes red, and the parent is one short instead.
LEMMA DarkenIs ==
    ASSUME NEW t, NEW D, NEW N, NEW sub, Shape(t, D, N, sub),
           NEW bh, NEW x, NEW p, NEW s, Lowered(t, N, bh, x, p, s),
           NEW w, w = t[p][Mirror(s)], ~t[w].is_red,
           ~IsRed(t, t[w][s]), ~IsRed(t, t[w][Mirror(s)]), ~IsRed(t, x)
    PROVE  LET u == Painted(t, w, TRUE)
           IN  /\ HeaderKept(t, u)
               /\ Darkened(u, D, N, sub, p, t[p].parent)
<1> DEFINE far == Mirror(s)
           inner == t[w][s]
           outer == t[w][far]
           p2 == t[p].parent
           u == Painted(t, w, TRUE)
           bh2 == [bh EXCEPT ![w] = H(bh, x), ![p] = H(bh, x) + Black(t, p)]
<1>1. TypedTree(t, D) /\ N \subseteq D /\ Linked(t, N, sub) /\ null \notin N /\ header \notin N
  BY Plain DEF Shape
<1>2. /\ p \in N /\ s \in Sides /\ t[p][s] = x /\ bh \in [N -> Nat]
      /\ \A n \in N, r \in Sides : PairAt(t, n, r, {x}, {x})
      /\ ~t[root(t)].is_red
      /\ \A n \in N : HeightAt(t, bh, n, p, s)
  BY DEF Lowered
<1>3. far \in Sides /\ far # s /\ \A r \in Sides : r = s \/ r = far
  BY <1>2, MirrorIs
<1>4. LoweredAround(t, N, bh, x, p, s, w)
  BY <1>1, LoweredIs
<1>5. Family(t, N, p, s, w, x, inner, outer)
  BY <1>1, <1>2, <1>4, FamilyIs DEF LoweredAround
<1>6. t[p][far] = w /\ t[w][s] = inner /\ t[w][far] = outer
      /\ (inner # null => ~t[inner].is_red) /\ (outer # null => ~t[outer].is_red)
      /\ (x # null => ~t[x].is_red)
  BY DEF IsRed
<1> HIDE DEF inner, outer, far
<1>7. p \in N /\ w \in N /\ w # p /\ w # null /\ w # root(t) /\ root(t) \in N
      /\ x # p /\ x # w /\ (x # null => x \in N) /\ x # root(t)
      /\ inner # p /\ inner # w /\ (inner # null => inner \in N)
      /\ outer # p /\ outer # w /\ (outer # null => outer \in N)
      /\ \A n \in N, r \in Sides : t[n][r] # null => t[n][r] \in N /\ t[t[n][r]].parent = n
  BY <1>1, <1>2, <1>5 DEF Family
<1>71. t[w].parent = p
  BY <1>3, <1>6, <1>7
<1>8. Repainted(t, t, D, N, sub)
  BY RepaintIs
<1>9. Repainted(t, u, D, N, sub) /\ OneColour(t, u, N, w, TRUE)
  BY <1>7, <1>8, RepaintIs
<1> HIDE DEF u
<1>10. \A m \in N : u[m].is_red = IF m = w THEN TRUE ELSE t[m].is_red
  BY <1>9 DEF OneColour
<1>11. /\ Shape(u, D, N, sub) /\ HeaderKept(t, u) /\ root(u) = root(t)
       /\ \A n \in N, r \in Sides : u[n][r] = t[n][r]
  BY <1>9 DEF Repainted
<1>12. PICK d \in Sides : \A n \in N, r \in Sides : t[n][r] = p <=> n = p2 /\ r = d
  <2>1. CASE p2 = header
    <3>1. \A n \in N, r \in Sides : t[n][r] # p /\ n # p2
      BY <1>1, <1>7, <2>1
    <3>2. "left" \in Sides
      BY DEF Sides
    <3> QED
      BY <3>1, <3>2
  <2>2. CASE p2 # header
    <3>1. PICK d \in Sides : t[p2][d] = p /\ t[p2][Mirror(d)] # p
      BY <1>1, <1>7, <2>2, ParentIs2
    <3>2. \A r \in Sides : r = d \/ r = Mirror(d)
      BY MirrorIs
    <3>3. \A n \in N, r \in Sides : t[n][r] = p => n = p2
      BY <1>1, <1>7
    <3> QED
      BY <3>1, <3>2, <3>3
  <2> QED
    BY <2>1, <2>2
<1>13. /\ bh[w] = H(bh, x) + 1 /\ bh[p] = H(bh, x) + 1 + Black(t, p)
       /\ H(bh, inner) = H(bh, x) /\ H(bh, outer) = H(bh, x) /\ H(bh, x) \in Nat
       /\ Black(t, p) \in Nat
  <2>1. Black(t, w) = 1 /\ Black(t, p) \in Nat
    BY DEF Black
  <2>2. /\ bh[w] = H(bh, x) + 1 /\ bh[p] = H(bh, x) + 1 + Black(t, p)
        /\ H(bh, x) \in Nat /\ H(bh, inner) \in Nat /\ H(bh, outer) \in Nat
        /\ bh[w] = H(bh, inner) + Black(t, w) /\ bh[w] = H(bh, outer) + Black(t, w)
    BY <1>2, <1>3, <1>4, <1>6, <1>7 DEF LoweredAround
  <2> QED
    BY <2>1, <2>2
<1>14. bh2[w] = H(bh, x) /\ bh2[p] = H(bh, x) + Black(t, p) /\ \A n \in N : n \notin {p, w}
       => bh2[n] = bh[n]
  BY <1>2, <1>7
<1>15. bh2 \in [N -> Nat]
  <2>1. H(bh, x) + Black(t, p) \in Nat /\ H(bh, x) \in Nat
    BY <1>13
  <2> QED
    BY <2>1, <1>2
<1> HIDE DEF bh2
<1>16. \A k : (k # null => k \in N) /\ k # p /\ k # w => H(bh2, k) = H(bh, k)
  BY <1>14 DEF H
<1>17. H(bh2, p) = H(bh, x) + Black(t, p) /\ H(bh, p) = H(bh, x) + 1 + Black(t, p)
       /\ H(bh2, w) = H(bh, x)
  BY <1>1, <1>7, <1>13, <1>14 DEF H
<1>18. ASSUME NEW n \in N PROVE HeightAt(u, bh2, n, p2, d)
  <2> SUFFICES ASSUME NEW r \in Sides
               PROVE  bh2[n] = H(bh2, t[n][r]) + Short(n, r, p2, d) + Black(u, n)
    BY <1>11 DEF HeightAt
  <2>1. CASE n = p
    <3>1. Short(p, r, p2, d) = 0
      <4>1. t[p][r] # p
        BY <1>2, <1>3, <1>6, <1>7
      <4> QED
        BY <4>1, <1>12, <1>7 DEF Short
    <3>2. Black(u, p) = Black(t, p)
      BY <1>7, <1>10 DEF Black
    <3>3. H(bh2, t[p][r]) = H(bh, x)
      BY <1>2, <1>3, <1>6, <1>7, <1>16, <1>17
    <3> QED
      BY <2>1, <3>1, <3>2, <3>3, <1>13, <1>14
  <2>2. CASE n = w
    <3>1. Short(w, r, p2, d) = 0
      BY <1>12, <1>2, <1>3, <1>6, <1>7, <2>2 DEF Short
    <3>2. Black(u, w) = 0
      BY <1>7, <1>10 DEF Black
    <3>3. H(bh2, t[w][r]) = H(bh, x)
      BY <1>2, <1>3, <1>6, <1>7, <1>13, <1>16
    <3> QED
      BY <2>2, <3>1, <3>2, <3>3, <1>13, <1>14
  <2>3. CASE n \notin {p, w}
    <3> DEFINE k == t[n][r]
    <3>1. bh[n] = H(bh, k) + Black(t, n) /\ H(bh, k) \in Nat
      BY <1>4, <2>3 DEF LoweredAround
    <3>2. Black(u, n) = Black(t, n) /\ Black(t, n) \in Nat
      BY <1>10, <2>3 DEF Black
    <3>3. k # w /\ (k # null => k \in N) /\ (k = p <=> n = p2 /\ r = d)
      BY <1>7, <1>71, <1>12, <2>3
    <3> HIDE DEF k
    <3>4. H(bh, k) = H(bh2, k) + Short(n, r, p2, d)
      <4>1. CASE k = p
        <5>1. Short(n, r, p2, d) = 1
          BY <3>3, <4>1 DEF Short
        <5> QED
          BY <4>1, <5>1, <1>13, <1>17
      <4>2. CASE k # p
        <5>1. Short(n, r, p2, d) = 0 /\ H(bh2, k) = H(bh, k)
          BY <3>3, <4>2, <1>16 DEF Short
        <5> QED
          BY <5>1, <3>1
      <4> QED
        BY <4>1, <4>2
    <3> QED
      BY <3>1, <3>2, <3>4, <1>14, <2>3 DEF k
  <2> QED
    BY <2>1, <2>2, <2>3
<1>19. ASSUME NEW n \in N, NEW r \in Sides PROVE PairAt(u, n, r, {p}, {p})
  <2> DEFINE k == t[n][r]
  <2> SUFFICES ASSUME u[n].is_red, k # null, u[k].is_red, n # p PROVE FALSE
    BY <1>11 DEF PairAt
  <2>1. k \in N /\ t[k].parent = n
    BY <1>7
  <2>2. CASE n = w
    BY ZenonT(40), <2>2, <2>1, <1>2, <1>3, <1>6, <1>7, <1>10
  <2>3. CASE n # w
    <3>1. k # w /\ t[n].is_red /\ t[k].is_red
      BY <2>1, <2>3, <1>10, <1>71
    <3>2. n = x \/ k = x
      BY <3>1, <1>2 DEF PairAt
    <3> QED
      BY <3>1, <3>2, <1>1, <1>6, <2>1
  <2> QED
    BY <2>2, <2>3
<1>20. CASE p2 = header
  <2>1. p = root(t)
    BY <1>1, <1>7, <1>20, ParentIs2
  <2>2. \A n \in N, r \in Sides : bh2[n] = H(bh2, u[n][r]) + Short(n, r, p2, d) + Black(u, n)
    BY <1>18 DEF HeightAt
  <2>3. \A n \in N, r \in Sides : Short(n, r, p2, d) = Short(n, r, null, "left")
    BY <1>1, <1>20 DEF Short
  <2>4. \A n \in N : HeightAt(u, bh2, n, null, "left")
    BY <2>2, <2>3 DEF HeightAt
  <2>5. Level(u, N, bh2)
    BY <2>4, <1>11, <1>15, LevelIs DEF Shape
  <2>6. p = root(u)
    BY <2>1, <1>11
  <2> HIDE DEF p2, root
  <2>7. Evened(u, N, bh2, p)
    BY <2>5, <2>6, <1>15, <1>19 DEF Evened
  <2> QED
    BY <2>7, <1>11, <1>20 DEF Darkened, u, p2
<1>21. CASE p2 # header
  <2>1. p2 \in N /\ \E r \in Sides : t[p2][r] = p
    BY <1>1, <1>7, <1>21, ParentIs2
  <2>2. t[p2][d] = p
    BY <2>1, <1>12
  <2>3. ~u[root(u)].is_red
    <3> DEFINE top == root(t)
    <3>1. top \in N /\ top # w /\ ~t[top].is_red /\ root(u) = top
      BY <1>2, <1>7, <1>11
    <3> HIDE DEF top
    <3> QED
      BY <3>1, <1>10
  <2>4. u[p2][d] = p
    BY <2>1, <2>2, <1>11
  <2> HIDE DEF p2, root
  <2>5. Lowered(u, N, bh2, p, p2, d)
    BY <2>1, <2>3, <2>4, <1>15, <1>18, <1>19 DEF Lowered
  <2> QED
    BY <2>5, <1>11, <1>21 DEF Darkened, u, p2
<1> QED
  BY <1>20, <1>21

\* New counts do not touch colours.
LEMMA RecountRedBlack ==
    ASSUME NEW t, NEW D, NEW N, NEW sub, Shape(t, D, N, sub), NEW bh, RedBlack(t, N, sub, bh),
           NEW n \in N \cup {header}
    PROVE  LET u == updateNodeCountToTop(t, n)
           IN  /\ Shape(u, D, N, sub)
               /\ RedBlack(u, N, sub, bh)
               /\ HeaderKept(t, u)
               /\ \A m \in N : u[m].is_red = t[m].is_red
<1> DEFINE u == updateNodeCountToTop(t, n)
<1>1. TypedTree(t, D) /\ N \subseteq D /\ Linked(t, N, sub) /\ \A m \in N : Counted(t, sub, m)
  BY DEF Shape
<1>2. CountedBut(t, N, sub, n)
  BY <1>1 DEF CountedBut
<1>3. SameButCounts(t, u, D) /\ \A m \in N : Counted(u, sub, m)
  BY <1>1, <1>2, CountToTopIs
<1> HIDE DEF u
<1>4. SameLinks(t, u, N) /\ HeaderKept(t, u) /\ \A m \in D \cup {header} : u[m].is_red = t[m].is_red
  BY <1>1, <1>3, SameButCountsKeeps
<1>5. Linked(u, N, sub)
  BY <1>1, <1>4, SameLinked
<1>6. TypedTree(u, D)
  BY <1>3 DEF SameButCounts
<1>7. Shape(u, D, N, sub)
  BY <1>1, <1>3, <1>5, <1>6 DEF Shape
<1>8. root(u) = root(t) /\ \A m \in N : u[m].is_red = t[m].is_red
      /\ \A r \in Sides : u[m][r] = t[m][r]
  BY <1>1, <1>4 DEF SameLinks
<1>9. \A m \in N, r \in Sides : t[m][r] # null => t[m][r] \in N
  BY <1>1, KidIs
<1>10. N # {} => root(t) \in N
  BY <1>1 DEF Linked, RootFits
<1> HIDE DEF root
<1>11. \A m \in N, r \in Sides : PairAt(u, m, r, {}, {})
  BY <1>8, <1>9 DEF PairAt, RedBlack
<1>12. Level(u, N, bh)
  BY <1>8 DEF Level, RedBlack, Black
<1>13. RedBlack(u, N, sub, bh)
  BY <1>8, <1>10, <1>11, <1>12 DEF RedBlack
<1> QED
  BY <1>4, <1>7, <1>8, <1>13 DEF u

\* After k rounds: either everything is even and x is black, or a place is short, and
\* that place is at the root, or holds a red node, or is above more than k nodes.
Short2(t, N, sub, bh, x, p, k) ==
    \/ Evened(t, N, bh, x)
    \/ /\ \E d \in Sides : Lowered(t, N, bh, x, p, d)
       /\ IsRed(t, x) \/ Cardinality(sub[p]) > k

Sinking(t0, D, N, k, s) ==
    /\ s.x \in N \cup {null} /\ s.over \in BOOLEAN
    /\ HeaderKept(t0, s.tree)
    /\ \E sub, bh :
        /\ Shape(s.tree, D, N, sub)
        /\ s.over => RedBlack(s.tree, N, sub, bh) /\ ~IsRed(s.tree, s.x)
        /\ ~s.over => Short2(s.tree, N, sub, bh, s.x, s.p, k)

\* Case 4 makes all paths even again.
LEMMA ShiftEvens ==
    ASSUME NEW t, NEW D, NEW N, NEW sub, Shape(t, D, N, sub),
           NEW bh, NEW x, NEW p, NEW s, Lowered(t, N, bh, x, p, s), ~IsRed(t, x),
           NEW w, w = t[p][Mirror(s)], ~t[w].is_red,
           IsRed(t, t[w][s]) \/ IsRed(t, t[w][Mirror(s)]),
           NEW t0, HeaderKept(t0, t), NEW k
    PROVE  Sinking(t0, D, N, k, shiftBlack(t, x, p, s))
<1> DEFINE far == Mirror(s)
           bent == IF IsRed(t, t[w][far]) THEN t ELSE bend(t, w, s)
           w2 == bent[p][far]
           v == raiseBlack(bent, p, w2, s)
           u == updateNodeCountToTop(v, p)
<1>1. PICK sub1, bh1 : /\ Shape(bent, D, N, sub1) /\ HeaderKept(t, bent)
                       /\ Lowered(bent, N, bh1, x, p, s) /\ ~IsRed(bent, x)
                       /\ ~bent[w2].is_red /\ IsRed(bent, bent[w2][far])
  <2>1. CASE IsRed(t, t[w][far])
    <3>1. bent = t
      BY <2>1
    <3>2. HeaderKept(t, t)
      BY SMTT(30) DEF HeaderKept
    <3> HIDE DEF bent
    <3> QED
      BY <2>1, <3>1, <3>2
  <2>2. CASE ~IsRed(t, t[w][far])
    <3>1. bent = bend(t, w, s)
      BY <2>2
    <3>2. \E sub2, bh2 :
                /\ Shape(bend(t, w, s), D, N, sub2)
                /\ HeaderKept(t, bend(t, w, s))
                /\ Lowered(bend(t, w, s), N, bh2, x, p, s)
                /\ ~bend(t, w, s)[bend(t, w, s)[p][far]].is_red
                /\ IsRed(bend(t, w, s), bend(t, w, s)[bend(t, w, s)[p][far]][far])
                /\ ~IsRed(bend(t, w, s), x)
      BY <2>2, BendIs
    <3> HIDE DEF bent
    <3> QED
      BY <3>1, <3>2
  <2> QED
    BY <2>1, <2>2
<1>2. shiftBlack(t, x, p, s) = [tree |-> u, x |-> x, p |-> p, over |-> TRUE]
  BY DEF shiftBlack
<1> HIDE DEF bent
<1>3. w2 = bent[p][Mirror(s)] /\ ~bent[w2].is_red /\ IsRed(bent, bent[w2][Mirror(s)])
  BY <1>1
<1> HIDE DEF w2
<1>4. HeaderKept(bent, v) /\ ~IsRed(v, x)
      /\ \E sub2, bh2 : Shape(v, D, N, sub2) /\ RedBlack(v, N, sub2, bh2)
  BY <1>1, <1>3, RaiseBlackIs
<1> HIDE DEF v
<1>5. PICK sub2, bh2 : Shape(v, D, N, sub2) /\ RedBlack(v, N, sub2, bh2)
  BY <1>4
<1>6. p \in N /\ s \in Sides /\ t[p][s] = x
  BY DEF Lowered
<1>7. /\ Shape(u, D, N, sub2) /\ RedBlack(u, N, sub2, bh2) /\ HeaderKept(v, u)
      /\ \A m \in N : u[m].is_red = v[m].is_red
  BY <1>5, <1>6, RecountRedBlack
<1> HIDE DEF u
<1>8. x # null => x \in N
  BY <1>6, KidIs DEF Shape
<1>9. ~IsRed(u, x)
  BY <1>4, <1>7, <1>8 DEF IsRed
<1>10. HeaderKept(t0, u)
  BY <1>1, <1>4, <1>7, HeaderKeptTwice
<1> DEFINE r == shiftBlack(t, x, p, s)
<1>11. r.tree = u /\ r.x = x /\ r.p = p /\ r.over = TRUE
  BY <1>2
<1> HIDE DEF r
<1>12. Sinking(t0, D, N, k, r)
  BY <1>7, <1>8, <1>9, <1>10, <1>11 DEF Sinking
<1> QED
  BY SMTT(30), <1>12 DEF r

\* One round with a black sibling ends, or moves the short place up.
LEMMA ShiftBlackIs ==
    ASSUME NEW t, NEW D, NEW N, NEW sub, Shape(t, D, N, sub),
           NEW bh, NEW x, NEW p, NEW s, Lowered(t, N, bh, x, p, s), ~IsRed(t, x),
           NEW w, w = t[p][Mirror(s)], ~t[w].is_red,
           NEW t0, HeaderKept(t0, t), NEW k \in Nat, t[p].is_red \/ Cardinality(sub[p]) > k
    PROVE  Sinking(t0, D, N, k + 1, shiftBlack(t, x, p, s))
<1> DEFINE far == Mirror(s)
           u == Painted(t, w, TRUE)
           p2 == t[p].parent
           r == shiftBlack(t, x, p, s)
<1>1. CASE IsRed(t, t[w][s]) \/ IsRed(t, t[w][far])
  BY <1>1, ShiftEvens
<1>2. CASE ~(IsRed(t, t[w][s]) \/ IsRed(t, t[w][far]))
  <2>1. r = [tree |-> u, x |-> p, p |-> p2, over |-> FALSE]
    BY <1>2 DEF shiftBlack, Painted
  <2>2. HeaderKept(t, u) /\ Darkened(u, D, N, sub, p, t[p].parent)
    BY <1>2, DarkenIs
  <2>3. r.tree = u /\ r.x = p /\ r.p = p2 /\ r.over = FALSE
    BY <2>1
  <2>31. u = Painted(t, w, TRUE)
    OBVIOUS
  <2> HIDE DEF r, u
  <2>4. p \in N /\ s \in Sides /\ t[p][s] = x
    BY DEF Lowered
  <2>5. w # p /\ w \in N
    <3>1. LoweredAround(t, N, bh, x, p, s, w)
      BY LoweredIs DEF Shape
    <3>2. w # null /\ Linked(t, N, sub)
      BY <3>1 DEF LoweredAround, Shape
    <3> QED
      BY <2>4, <3>2, KidIs, MirrorIs
  <2>6. u[p].is_red = t[p].is_red
    <3>1. Repainted(t, t, D, N, sub)
      BY RepaintIs
    <3>2. OneColour(t, u, N, w, TRUE)
      BY <3>1, <2>5, <2>31, RepaintIs
    <3> QED
      BY <3>2, <2>4, <2>5 DEF OneColour
  <2>7. HeaderKept(t0, u)
    BY <2>2, HeaderKeptTwice
  <2>8. PICK bh2 : IF p2 = header THEN Evened(u, N, bh2, p) ELSE \E d \in Sides : Lowered(u, N,
        bh2, p, p2, d)
    BY <2>2 DEF Darkened
  <2>9. p2 # header => IsRed(u, p) \/ Cardinality(sub[p2]) > k + 1
    <3> SUFFICES ASSUME p2 # header, ~t[p].is_red PROVE Cardinality(sub[p2]) > k + 1
      <4>1. p # null
        BY <2>4, Plain DEF Shape
      <4> QED
        BY <2>6, <4>1 DEF IsRed
    <3>1. Cardinality(sub[p]) > k
      OBVIOUS
    <3>2. Linked(t, N, sub)
      BY DEF Shape
    <3>3. PICK d \in Sides : p2 \in N /\ t[p2][d] = p /\ p # null
      BY <2>4, <3>2, ParentIs2, Plain
    <3>4. /\ Cardinality(sub[p]) < Cardinality(sub[p2])
          /\ Cardinality(sub[p]) \in Nat /\ Cardinality(sub[p2]) \in Nat
      BY <3>2, <3>3, KidSmaller
    <3> QED
      BY <3>1, <3>4
  <2> HIDE DEF p2
  <2>10. Short2(u, N, sub, bh2, p, p2, k + 1)
    BY <2>8, <2>9 DEF Short2
  <2>11. Shape(u, D, N, sub)
    BY <2>2 DEF Darkened
  <2>12. Sinking(t0, D, N, k + 1, r)
    BY <2>3, <2>4, <2>7, <2>10, <2>11 DEF Sinking
  <2> QED
    BY <2>12 DEF r
<1> QED
  BY <1>1, <1>2

\* One round of eraseNodeFixup ends, or moves the short place up.
LEMMA EraseRoundIs ==
    ASSUME NEW t0, NEW D, NEW N, NEW k \in Nat, NEW s, Sinking(t0, D, N, k, s)
    PROVE  Sinking(t0, D, N, k + 1, eraseRound(s))
<1> DEFINE t == s.tree
           x == s.x
           p == s.p
           j == k + 1
<1>1. /\ x \in N \cup {null} /\ s.over \in BOOLEAN /\ HeaderKept(t0, t)
      /\ j \in Nat
  BY DEF Sinking
<1>2. PICK sub, bh :
        /\ Shape(t, D, N, sub)
        /\ s.over => RedBlack(t, N, sub, bh) /\ ~IsRed(t, x)
        /\ ~s.over => Short2(t, N, sub, bh, x, p, k)
  BY DEF Sinking
<1>3. Linked(t, N, sub)
  BY <1>2 DEF Shape
<1>4. CASE s.over
  <2>1. eraseRound(s) = s
    BY <1>4 DEF eraseRound, eraseSettled
  <2> HIDE DEF j
  <2>2. Sinking(t0, D, N, j, s)
    BY <1>1, <1>2, <1>4 DEF Sinking
  <2> QED
    BY <2>1, <2>2 DEF j
<1>5. CASE ~s.over /\ Evened(t, N, bh, x)
  <2>1. eraseRound(s) = s
    BY <1>5 DEF eraseRound, eraseSettled, Evened
  <2>2. Short2(t, N, sub, bh, x, p, j)
    BY <1>5 DEF Short2
  <2> HIDE DEF j
  <2>3. Sinking(t0, D, N, j, s)
    BY <1>1, <1>2, <1>5, <2>2 DEF Sinking
  <2> QED
    BY <2>1, <2>3 DEF j
<1>6. CASE ~s.over /\ ~Evened(t, N, bh, x) /\ IsRed(t, x)
  <2>1. eraseRound(s) = s
    BY <1>6 DEF eraseRound, eraseSettled
  <2>2. Short2(t, N, sub, bh, x, p, j)
    BY <1>2, <1>6 DEF Short2
  <2> HIDE DEF j
  <2>3. Sinking(t0, D, N, j, s)
    BY <1>1, <1>2, <1>6, <2>2 DEF Sinking
  <2> QED
    BY <2>1, <2>3 DEF j
<1>7. CASE ~s.over /\ ~Evened(t, N, bh, x) /\ ~IsRed(t, x)
  <2>1. (\E d \in Sides : Lowered(t, N, bh, x, p, d)) /\ Cardinality(sub[p]) > k
    BY <1>2, <1>7 DEF Short2
  <2>2. PICK d \in Sides : Lowered(t, N, bh, x, p, d)
    BY <2>1
  <2> DEFINE w == t[p][Mirror(d)]
  <2>3. p \in N /\ t[p][d] = x
    BY <2>2 DEF Lowered
  <2>4. LoweredAround(t, N, bh, x, p, d, w)
    BY <1>3, <2>2, LoweredIs
  <2>5. w # null
    BY <2>4 DEF LoweredAround
  <2>6. Family(t, N, p, d, w, x, t[w][d], t[w][Mirror(d)])
    BY <1>3, <2>3, <2>5, FamilyIs
  <2>7. x # w
    <3>1. w \in N /\ w # t[p][Mirror(Mirror(d))]
      BY <1>3, <2>3, <2>5, KidIs, MirrorIs
    <3> QED
      BY <3>1, <2>3, MirrorIs
  <2>8. x # root(t)
    <3>1. x = null => root(t) # null
      BY SMTT(30), <1>3, <2>3, Plain DEF Linked, RootFits
    <3>2. x # null => x # root(t)
      BY <2>6 DEF Family
    <3> QED
      BY <3>1, <3>2
  <2>9. (IF x = t[p].left THEN "left" ELSE "right") = d
    BY <2>3, <2>7 DEF Sides, Mirror
  <2>10. ~eraseSettled(s)
    BY <1>7, <2>8 DEF eraseSettled
  <2> DEFINE a == IF t[w].is_red THEN raiseRed(t, p, w, d) ELSE t
  <2>11. eraseRound(s) = shiftBlack(a, x, p, d)
    BY <2>9, <2>10 DEF eraseRound
  <2>12. CASE t[w].is_red
    <3> DEFINE u == raiseRed(t, p, w, d)
    <3>1. \E sub2, bh2 :
                /\ Shape(u, D, N, sub2)
                /\ HeaderKept(t, u)
                /\ Lowered(u, N, bh2, x, p, d)
                /\ u[p].is_red /\ ~u[u[p][Mirror(d)]].is_red /\ ~IsRed(u, x)
      BY <1>2, <1>7, <2>2, <2>12, RaiseRedIs
    <3>2. a = u
      BY <2>12
    <3> HIDE DEF a, u
    <3>3. PICK sub2, bh2 :
                /\ Shape(u, D, N, sub2)
                /\ HeaderKept(t, u)
                /\ Lowered(u, N, bh2, x, p, d)
                /\ u[p].is_red /\ ~u[u[p][Mirror(d)]].is_red /\ ~IsRed(u, x)
      BY <3>1
    <3>4. HeaderKept(t0, u)
      BY <1>1, <3>3, HeaderKeptTwice
    <3>5. Sinking(t0, D, N, k + 1, shiftBlack(u, x, p, d))
      BY <3>3, <3>4, ShiftBlackIs
    <3> QED
      BY SMTT(30), <3>5, <3>2, <2>11
  <2>13. CASE ~t[w].is_red
    <3>1. a = t
      BY <2>13
    <3> HIDE DEF a
    <3>2. Sinking(t0, D, N, k + 1, shiftBlack(t, x, p, d))
      BY <1>1, <1>2, <1>7, <2>1, <2>2, <2>13, ShiftBlackIs
    <3> QED
      BY <3>1, <3>2, <2>11
  <2> QED
    BY <2>12, <2>13
<1> QED
  BY <1>1, <1>4, <1>5, <1>6, <1>7

EraseRoundsOf(f, first, m) ==
    f = [k \in 0..m |-> IF k = 0 THEN first ELSE eraseRound(f[k - 1])]

\* The recursion over the rounds of eraseNodeFixup is well defined.
LEMMA EraseRoundsExist ==
    ASSUME NEW first, NEW m \in Nat
    PROVE  \E f : EraseRoundsOf(f, first, m)
<1> DEFINE S == {k \in Nat : \E f : EraseRoundsOf(f, first, k)}
<1>1. 0 \in S
  <2> DEFINE g == [n \in 0..0 |-> first]
  <2>1. EraseRoundsOf(g, first, 0)
    BY DEF EraseRoundsOf
  <2> QED
    BY <2>1
<1>2. ASSUME NEW k \in Nat, k \in S PROVE k + 1 \in S
  <2>1. PICK f : EraseRoundsOf(f, first, k)
    BY <1>2
  <2> DEFINE g == [n \in 0..(k + 1) |-> IF n <= k THEN f[n] ELSE eraseRound(f[k])]
             h == [n \in 0..(k + 1) |-> IF n = 0 THEN first ELSE eraseRound(g[n - 1])]
  <2>2. \A n \in 0..(k + 1) : g[n] = h[n]
    BY <2>1 DEF EraseRoundsOf
  <2>3. g = h
    BY <2>2
  <2> HIDE DEF g
  <2>4. EraseRoundsOf(g, first, k + 1)
    BY <2>3 DEF EraseRoundsOf
  <2> QED
    BY <2>4
<1> HIDE DEF S
<1>3. m \in S
  BY <1>1, <1>2, Induct
<1> QED
  BY <1>3 DEF S

EraseSteps(f) == \A k \in 1..MaxValue : f[k] = eraseRound(f[k - 1])

\* The rounds of eraseNodeFixup start at x and follow each other.
LEMMA EraseRoundsAre ==
    ASSUME NEW t, NEW x, NEW p
    PROVE  /\ eraseRounds(t, x, p)[0] = [tree |-> t, x |-> x, p |-> p, over |-> FALSE]
           /\ EraseSteps(eraseRounds(t, x, p))
<1> DEFINE f == eraseRounds(t, x, p)
           first == [tree |-> t, x |-> x, p |-> p, over |-> FALSE]
<1>1. EraseRoundsOf(f, first, MaxValue)
  <2>1. \E g : EraseRoundsOf(g, first, MaxValue)
    BY SetAssumption, EraseRoundsExist
  <2>2. f = CHOOSE g : EraseRoundsOf(g, first, MaxValue)
    BY DEF eraseRounds, EraseRoundsOf
  <2> HIDE DEF f, first
  <2> QED
    BY <2>1, <2>2
<1> HIDE DEF f, first
<1>2. f[0] = first
  BY <1>1, SetAssumption DEF EraseRoundsOf
<1>3. ASSUME NEW k \in 1..MaxValue PROVE f[k] = eraseRound(f[k - 1])
  <2>1. k \in 0..MaxValue /\ k # 0
    BY SetAssumption
  <2> QED
    BY <1>1, <2>1 DEF EraseRoundsOf
<1> QED
  BY <1>2, <1>3 DEF f, first, EraseSteps

\* After as many rounds as there are values, the loop has ended.
LEMMA EraseRoundsSink ==
    ASSUME NEW t, NEW D, NEW N, NEW x, NEW p,
           Sinking(t, D, N, 0, [tree |-> t, x |-> x, p |-> p, over |-> FALSE])
    PROVE  Sinking(t, D, N, MaxValue, eraseRounds(t, x, p)[MaxValue])
<1> DEFINE f == eraseRounds(t, x, p)
           S == {k \in Nat : k <= MaxValue => Sinking(t, D, N, k, f[k])}
<1>1. f[0] = [tree |-> t, x |-> x, p |-> p, over |-> FALSE] /\ EraseSteps(f)
  BY EraseRoundsAre
<1> HIDE DEF f
<1>2. 0 \in S
  BY <1>1
<1>3. ASSUME NEW k \in Nat, k \in S PROVE k + 1 \in S
  <2> SUFFICES ASSUME k + 1 <= MaxValue PROVE Sinking(t, D, N, k + 1, f[k + 1])
    OBVIOUS
  <2>1. k <= MaxValue /\ k + 1 \in 1..MaxValue /\ (k + 1) - 1 = k
    BY SetAssumption
  <2>2. f[k + 1] = eraseRound(f[k])
    BY <1>1, <2>1 DEF EraseSteps
  <2>3. Sinking(t, D, N, k, f[k])
    BY <1>3, <2>1
  <2>4. Sinking(t, D, N, k + 1, eraseRound(f[k]))
    BY <2>3, EraseRoundIs
  <2> QED
    BY <2>2, <2>4
<1> HIDE DEF S
<1>4. MaxValue \in S
  BY <1>2, <1>3, SetAssumption, Induct
<1> QED
  BY <1>4, SetAssumption DEF S, f

\* Heights are even but where a red node x makes up for the difference.
Lacking(t, N, bh, x) ==
    /\ bh \in [N -> Nat]
    /\ \A n \in N, r \in Sides :
        bh[n] = H(bh, t[n][r]) + (IF t[n][r] = x THEN 1 - Black(t, x) ELSE 0) + Black(t, n)

\* The red node x turns black and makes up for the missing one.
LEMMA BlackenEvens ==
    ASSUME NEW t, NEW D, NEW N, NEW sub, Shape(t, D, N, sub), NEW bh, NEW x \in N,
           Lacking(t, N, bh, x),
           \A n \in N, r \in Sides : PairAt(t, n, r, {x}, {x}),
           x = root(t) \/ ~t[root(t)].is_red
    PROVE  LET u == Blacken(t, x)
           IN  /\ HeaderKept(t, u)
               /\ Shape(u, D, N, sub)
               /\ \E bh2 : RedBlack(u, N, sub, bh2)
<1> DEFINE u == Blacken(t, x)
           c == 1 - Black(t, x)
           bh2 == [bh EXCEPT ![x] = bh[x] + c]
<1>1. Linked(t, N, sub) /\ null \notin N
  BY Plain DEF Shape
<1>2. u = Painted(t, x, FALSE)
  BY <1>1 DEF Blacken, Painted
<1>3. Repainted(t, t, D, N, sub)
  BY RepaintIs
<1>4. Repainted(t, Painted(t, x, FALSE), D, N, sub)
      /\ OneColour(t, Painted(t, x, FALSE), N, x, FALSE)
  BY <1>3, RepaintIs
<1>5. Repainted(t, u, D, N, sub) /\ OneColour(t, u, N, x, FALSE)
  BY <1>2, <1>4
<1> HIDE DEF u
<1>6. /\ Shape(u, D, N, sub) /\ HeaderKept(t, u) /\ root(u) = root(t)
      /\ \A n \in N, r \in Sides : u[n][r] = t[n][r]
      /\ \A m \in N : u[m].is_red = IF m = x THEN FALSE ELSE t[m].is_red
  BY <1>5 DEF Repainted, OneColour
<1>7. bh \in [N -> Nat] /\ c \in {0, 1} /\ c = 1 - Black(t, x) /\ Black(t, x) \in {0, 1}
  BY DEF Lacking, Black
<1>8. /\ \A n \in N, r \in Sides : bh[n] = H(bh,
         t[n][r]) + (IF t[n][r] = x THEN c ELSE 0) + Black(t, n)
      /\ \A n \in N, r \in Sides : t[n][r] # null => t[n][r] \in N
      /\ N # {} => root(t) \in N
  BY <1>1, KidIs DEF Lacking, Linked, RootFits
<1> HIDE DEF c
<1>9. bh2[x] = bh[x] + c /\ (\A n \in N : n # x => bh2[n] = bh[n]) /\ bh2 \in [N -> Nat]
  BY <1>7
<1> HIDE DEF bh2
<1>10. ASSUME NEW n \in N, NEW r \in Sides PROVE bh2[n] = H(bh2, u[n][r]) + Black(u, n)
  <2> DEFINE k == t[n][r]
  <2>1. u[n][r] = k /\ (k # null => k \in N)
    BY <1>6, <1>8
  <2>2. bh[n] = H(bh, k) + (IF k = x THEN c ELSE 0) + Black(t, n)
    BY <1>8
  <2> HIDE DEF k
  <2>3. H(bh2, k) = H(bh, k) + (IF k = x THEN c ELSE 0) /\ H(bh, k) \in Nat
    BY <2>1, <1>1, <1>7, <1>9 DEF H
  <2>4. Black(u, n) = (IF n = x THEN 1 ELSE Black(t, n)) /\ Black(t, n) \in {0, 1}
    BY <1>6 DEF Black
  <2>5. bh2[n] = bh[n] + (IF n = x THEN c ELSE 0) /\ bh[n] \in Nat
    BY <1>7, <1>9
  <2>6. CASE n = x
    BY <2>6, <2>1, <2>2, <2>3, <2>4, <2>5, <1>7
  <2>7. CASE n # x
    BY <2>7, <2>1, <2>2, <2>3, <2>4, <2>5, <1>7
  <2> QED
    BY <2>6, <2>7
<1>11. ASSUME NEW n \in N, NEW r \in Sides PROVE PairAt(u, n, r, {}, {})
  <2> DEFINE k == t[n][r]
  <2> SUFFICES ASSUME u[n].is_red, k # null, u[k].is_red PROVE FALSE
    BY <1>6 DEF PairAt
  <2>1. k \in N /\ n # x /\ k # x /\ t[n].is_red /\ t[k].is_red
    BY <1>6, <1>8
  <2> QED
    BY <2>1 DEF PairAt
<1>12. N # {} => ~u[root(u)].is_red
  <2> DEFINE top == root(t)
  <2>1. root(u) = top /\ (N # {} => top \in N) /\ (x = top \/ ~t[top].is_red)
    BY <1>6, <1>8
  <2> HIDE DEF top
  <2> QED
    BY <2>1, <1>6
<1>13. Level(u, N, bh2)
  BY <1>10 DEF Level
<1> HIDE DEF root
<1>14. RedBlack(u, N, sub, bh2)
  BY <1>9, <1>11, <1>12, <1>13 DEF RedBlack
<1> QED
  BY <1>6, <1>14 DEF u

\* A place under p, where x is, is short of a black node; or the whole tree is.
Thinned(t, N, bh, x, p) ==
    Evened(t, N, bh, x) \/ \E d \in Sides : Lowered(t, N, bh, x, p, d)

\* eraseNodeFixup leaves a red-black tree with right counts.
LEMMA EraseFixupIs ==
    ASSUME NEW t, NEW D, NEW N, NEW sub, Shape(t, D, N, sub), NEW bh,
           NEW x \in N \cup {null}, NEW p, Thinned(t, N, bh, x, p)
    PROVE  LET u == eraseNodeFixup(t, x, p)
           IN  /\ HeaderKept(t, u)
               /\ \E sub2, bh2 : Shape(u, D, N, sub2) /\ RedBlack(u, N, sub2, bh2)
<1> DEFINE first == [tree |-> t, x |-> x, p |-> p, over |-> FALSE]
           last == eraseRounds(t, x, p)[MaxValue]
           v == last.tree
           y == last.x
           q == last.p
           u == Blacken(v, y)
<1>1. Sinking(t, D, N, 0, first)
  <2>1. first.tree = t /\ first.x = x /\ first.p = p /\ first.over = FALSE
    OBVIOUS
  <2>2. HeaderKept(t, t)
    BY DEF HeaderKept
  <2>3. Short2(t, N, sub, bh, x, p, 0)
    <3>1. CASE Evened(t, N, bh, x)
      BY <3>1 DEF Short2
    <3>2. CASE \E d \in Sides : Lowered(t, N, bh, x, p, d)
      <4>1. p \in N
        BY <3>2 DEF Lowered
      <4>2. Cardinality(sub[p]) \in Nat /\ Cardinality(sub[p]) # 0
        BY <4>1, FiniteNodes DEF Shape
      <4>3. Cardinality(sub[p]) > 0
        BY <4>2
      <4> QED
        BY <3>2, <4>3 DEF Short2
    <3> QED
      BY <3>1, <3>2 DEF Thinned
  <2> HIDE DEF first
  <2> QED
    BY <2>1, <2>2, <2>3 DEF Sinking
<1>2. Sinking(t, D, N, MaxValue, last)
  BY <1>1, EraseRoundsSink
<1>3. u = eraseNodeFixup(t, x, p)
  BY DEF eraseNodeFixup
<1> HIDE DEF last
<1>4. y \in N \cup {null} /\ last.over \in BOOLEAN /\ HeaderKept(t, v)
  BY <1>2 DEF Sinking
<1>5. PICK sub1, bh1 :
        /\ Shape(v, D, N, sub1)
        /\ last.over => RedBlack(v, N, sub1, bh1) /\ ~IsRed(v, y)
        /\ ~last.over => Short2(v, N, sub1, bh1, y, q, MaxValue)
  BY <1>2 DEF Sinking
<1>6. Linked(v, N, sub1) /\ null \notin N
  BY <1>5, Plain DEF Shape
<1>7. ~last.over => Evened(v, N, bh1, y) \/ \E d \in Sides : Lowered(v, N, bh1, y, q, d)
      /\ IsRed(v, y)
  <2> SUFFICES ASSUME ~last.over, ~Evened(v, N, bh1, y)
               PROVE  \E d \in Sides : Lowered(v, N, bh1, y, q, d) /\ IsRed(v, y)
    OBVIOUS
  <2>1. (\E d \in Sides : Lowered(v, N, bh1, y, q, d))
        /\ (IsRed(v, y) \/ Cardinality(sub1[q]) > MaxValue)
    BY <1>5 DEF Short2
  <2>2. q \in N
    BY <2>1 DEF Lowered
  <2>3. Cardinality(sub1[q]) \in Nat /\ Cardinality(sub1[q]) <= MaxValue
    BY <1>6, <2>2, FiniteNodes
  <2>4. ~(Cardinality(sub1[q]) > MaxValue)
    BY <2>3, SetAssumption
  <2> QED
    BY <2>1, <2>4
<1> HIDE DEF v, y, q
<1>8. CASE y = null
  <2>1. u = v
    BY <1>8 DEF Blacken
  <2>2. RedBlack(v, N, sub1, bh1)
    <3>1. CASE last.over
      BY <1>5, <3>1
    <3>2. CASE ~last.over
      <4>1. ~IsRed(v, y)
        BY <1>8 DEF IsRed
      <4>2. Evened(v, N, bh1, null)
        BY <1>7, <1>8, <3>2, <4>1
      <4>3. N = {} /\ bh1 \in [N -> Nat]
        BY <1>6, <4>2 DEF Evened, Linked, RootFits
      <4> QED
        BY <4>3 DEF RedBlack, Level
    <3> QED
      BY <1>4, <3>1, <3>2
  <2> HIDE DEF u
  <2> QED
    BY <1>3, <1>4, <1>5, <2>1, <2>2
<1>9. CASE y # null
  <2>1. y \in N
    BY <1>4, <1>9
  <2>2. /\ Lacking(v, N, bh1, y)
        /\ \A n \in N, r \in Sides : PairAt(v, n, r, {y}, {y})
        /\ y = root(v) \/ ~v[root(v)].is_red
    <3>1. CASE last.over
      <4>1. RedBlack(v, N, sub1, bh1) /\ ~IsRed(v, y)
        BY <1>5, <3>1
      <4>2. Black(v, y) = 1 /\ N # {}
        BY <4>1, <1>9, <2>1 DEF Black, IsRed
      <4>3. bh1 \in [N -> Nat] /\ (\A n \in N, r \in Sides : bh1[n] = H(bh1, v[n][r]) + Black(v, n))
        BY <4>1 DEF RedBlack, Level
      <4>4. \A n \in N, r \in Sides : H(bh1, v[n][r]) \in Nat /\ Black(v, n) \in Nat
        BY <4>3, <1>6, KidIs DEF H, Black
      <4>5. Lacking(v, N, bh1, y)
        <5> SUFFICES ASSUME NEW n \in N, NEW r \in Sides
                     PROVE  bh1[n] = H(bh1, v[n][r]) + (IF v[n][r] = y THEN 1 - Black(v,
                            y) ELSE 0) + Black(v, n)
          BY <4>3 DEF Lacking
        <5>1. (IF v[n][r] = y THEN 1 - Black(v, y) ELSE 0) = 0
          BY <4>2
        <5>2. bh1[n] = H(bh1, v[n][r]) + Black(v, n) /\ H(bh1, v[n][r]) \in Nat
              /\ Black(v, n) \in Nat
          BY <4>3, <4>4
        <5> QED
          BY <5>1, <5>2
      <4>6. \A n \in N, r \in Sides : PairAt(v, n, r, {y}, {y})
        BY <4>1 DEF RedBlack, PairAt
      <4>7. ~v[root(v)].is_red
        BY <4>1, <4>2 DEF RedBlack
      <4> QED
        BY <4>5, <4>6, <4>7
    <3>2. CASE ~last.over /\ Evened(v, N, bh1, y)
      <4>1. /\ bh1 \in [N -> Nat] /\ y = root(v)
            /\ \A n \in N, r \in Sides : PairAt(v, n, r, {y}, {y})
            /\ \A n \in N, r \in Sides : bh1[n] = H(bh1, v[n][r]) + Black(v, n)
        BY <3>2 DEF Evened, Level
      <4>2. \A n \in N, r \in Sides : H(bh1, v[n][r]) \in Nat /\ Black(v, n) \in Nat
        BY <4>1, <1>6, KidIs DEF H, Black
      <4>3. \A n \in N, r \in Sides : v[n][r] # y
        <5>1. v[y].parent = header /\ header \notin N
          BY <1>6, <4>1, <1>9, Plain DEF Linked, RootFits
        <5> QED
          BY <5>1, <1>6, <1>9, KidIs
      <4>4. Lacking(v, N, bh1, y)
        <5> SUFFICES ASSUME NEW n \in N, NEW r \in Sides
                     PROVE  bh1[n] = H(bh1, v[n][r]) + (IF v[n][r] = y THEN 1 - Black(v,
                            y) ELSE 0) + Black(v, n)
          BY <4>1 DEF Lacking
        <5>1. (IF v[n][r] = y THEN 1 - Black(v, y) ELSE 0) = 0
          BY <4>3
        <5>2. bh1[n] = H(bh1, v[n][r]) + Black(v, n) /\ H(bh1, v[n][r]) \in Nat
              /\ Black(v, n) \in Nat
          BY <4>1, <4>2
        <5> QED
          BY <5>1, <5>2
      <4> QED
        BY <4>1, <4>4
    <3>3. CASE ~last.over /\ ~Evened(v, N, bh1, y)
      <4>1. PICK d \in Sides : Lowered(v, N, bh1, y, q, d) /\ IsRed(v, y)
        BY <1>7, <3>3
      <4>2. /\ bh1 \in [N -> Nat] /\ q \in N /\ v[q][d] = y /\ ~v[root(v)].is_red
            /\ \A n \in N, r \in Sides : PairAt(v, n, r, {y}, {y})
            /\ \A n \in N, r \in Sides : bh1[n] = H(bh1, v[n][r]) + Short(n, r, q, d) + Black(v, n)
        BY <4>1 DEF Lowered, HeightAt
      <4>3. Black(v, y) = 0
        BY <4>1 DEF IsRed, Black
      <4>4. \A n \in N, r \in Sides : v[n][r] = y <=> n = q /\ r = d
        <5>1. v[q][d] # v[q][Mirror(d)] /\ v[y].parent = q
          BY <1>6, <1>9, <4>2, KidIs
        <5>2. \A r \in Sides : r = d \/ r = Mirror(d)
          BY MirrorIs
        <5>3. \A n \in N, r \in Sides : v[n][r] = y => v[y].parent = n
          BY <1>6, <1>9, KidIs
        <5> QED
          BY <4>2, <5>1, <5>2, <5>3
      <4>5. Lacking(v, N, bh1, y)
        <5> SUFFICES ASSUME NEW n \in N, NEW r \in Sides
                     PROVE  bh1[n] = H(bh1, v[n][r]) + (IF v[n][r] = y THEN 1 - Black(v,
                            y) ELSE 0) + Black(v, n)
          BY <4>2 DEF Lacking
        <5>1. (IF v[n][r] = y THEN 1 - Black(v, y) ELSE 0) = Short(n, r, q, d)
          BY <4>3, <4>4 DEF Short
        <5> QED
          BY <5>1, <4>2
      <4> QED
        BY <4>2, <4>5
    <3> QED
      BY <1>4, <3>1, <3>2, <3>3
  <2>3. HeaderKept(v, u) /\ Shape(u, D, N, sub1) /\ \E bh2 : RedBlack(u, N, sub1, bh2)
    BY <1>5, <2>1, <2>2, BlackenEvens
  <2>4. HeaderKept(t, u)
    BY <1>4, <2>3, HeaderKeptTwice
  <2> HIDE DEF u
  <2> QED
    BY <1>3, <2>3, <2>4
<1> QED
  BY <1>8, <1>9

-----------------------------------------------------------------------------
(***************************************************************************)
(* What eraseNode leaves before the counts and the colours are put right.  *)
(* The node y with at most one child x is cut out; it is z itself, or the  *)
(* successor of z, which then takes the place of z.                        *)
(***************************************************************************)
\* Where z was, y is.
Renamed(k, z, y) == IF k = z THEN y ELSE k
Origin(m, z, y) == IF m = y THEN z ELSE m
RenamedSet(S, z, y) == (S \ {z, y}) \cup (IF z \in S /\ z # y THEN {y} ELSE {})
\* A link to y leads to its child.
CutLink(k, y, x) == IF k = y THEN x ELSE k

Spliced(t, u, N, z, y, x) ==
    /\ root(u) = Renamed(CutLink(root(t), y, x), z, y)
    /\ \A m \in N \ {z} :
        /\ \A r \in Sides : u[m][r] = Renamed(CutLink(t[Origin(m, z, y)][r], y, x), z, y)
        /\ u[m].parent = Renamed(t[IF m = x THEN y ELSE Origin(m, z, y)].parent, z, y)
        /\ u[m].is_red = t[Origin(m, z, y)].is_red
        /\ u[m].node_count = t[m].node_count

\* y is z or comes right after it.
SpliceSite(t, N, sub, z, y, x, s) ==
    /\ z \in N /\ y \in N /\ s \in Sides
    /\ t[y][s] = x /\ t[y][Mirror(s)] = null
    /\ y \in sub[z]
    /\ y # z => z < y /\ \A e \in N : e # y /\ e # z => (e < z <=> e < y)

SiteFacts(t, N, sub, z, y, x) ==
    /\ x # y /\ x # z /\ (x # null => x \in N /\ t[x].parent = y)
    /\ sub[y] = {y} \cup Under(sub, x)
    /\ y \notin Under(sub, x) /\ z \notin Under(sub, x)
    /\ z \in sub[y] => z = y
    /\ root(t) = y => z = y
    /\ \A n \in N, r \in Sides : n # y => t[n][r] # x \/ x = null
    /\ \A n \in N, r \in Sides : t[n][r] = y => t[y].parent = n
    /\ \A n \in N : z \in sub[n] => y \in sub[n]
    /\ N \subseteq Int /\ header \notin N /\ null \notin N

\* What is around the place where a node is cut out.
LEMMA SiteIs ==
    ASSUME NEW t, NEW N, NEW sub, Linked(t, N, sub), NEW z, NEW y, NEW x, NEW s,
           SpliceSite(t, N, sub, z, y, x, s)
    PROVE  SiteFacts(t, N, sub, z, y, x)
<1>1. /\ z \in N /\ y \in N /\ s \in Sides
      /\ t[y][s] = x /\ t[y][Mirror(s)] = null
      /\ y \in sub[z]
  BY DEF SpliceSite
<1>2. N \subseteq Int /\ header \notin N /\ null \notin N /\ \A n \in N : n \in sub[n]
      /\ sub[n] \subseteq N
  BY Plain
<1>3. x # null => /\ x \in N /\ t[x].parent = y /\ x # y /\ y \notin sub[x]
      /\ sub[x] \subseteq sub[y]
                  /\ x \in sub[y]
  BY <1>1, KidIs
<1>4. z \in sub[y] => z = y
  BY <1>1, BelowIs DEF BelowFits
<1>5. sub[y] = {y} \cup Under(sub, x)
  BY <1>1 DEF Linked, KidsFit, Under
<1>6. y \notin Under(sub, x) /\ z \notin Under(sub, x)
  BY <1>3, <1>4 DEF Under
<1>7. x # z /\ x # y
  BY <1>1, <1>2, <1>3, <1>6 DEF Under
<1>8. root(t) = y => z = y
  <2>1. root(t) = y => sub[y] = N
    BY <1>1, <1>2 DEF Linked, RootFits
  <2> QED
    BY <2>1, <1>1, <1>4
<1>9. \A n \in N, r \in Sides : n # y => t[n][r] # x \/ x = null
  BY <1>3, KidIs
<1>10. \A n \in N, r \in Sides : t[n][r] = y => t[y].parent = n
  BY <1>1, <1>2, KidIs
<1>11. \A n \in N : z \in sub[n] => y \in sub[n]
  BY <1>1, BelowIs DEF BelowFits
<1> HIDE DEF root
<1> QED
  BY <1>2, <1>3, <1>4, <1>5, <1>6, <1>7, <1>8, <1>9, <1>10, <1>11 DEF SiteFacts

SplicedSub(sub, N, z, y) == [m \in N \ {z} |-> RenamedSet(sub[Origin(m, z, y)], z, y)]

\* The order among the renamed nodes is the old one.
LEMMA RenamedOrder ==
    ASSUME NEW t, NEW N, NEW sub, NEW z, NEW y, NEW x, NEW s, SpliceSite(t, N, sub, z, y, x, s),
           N \subseteq Int, NEW e \in N \ {y}, NEW n \in N \ {y}, NEW r \in Sides, Off(r, e, n)
    PROVE  Off(r, Renamed(e, z, y), Renamed(n, z, y))
<1>1. z \in N /\ y \in N /\ z \in Int /\ y \in Int /\ e \in Int /\ n \in Int
      /\ (y # z => z < y /\ \A f \in N : f # y /\ f # z => (f < z <=> f < y))
  BY DEF SpliceSite
<1>2. CASE z = y
  BY <1>2 DEF Renamed
<1>3. CASE z # y
  <2>1. CASE e = z
    <3>1. n # z
      BY <2>1, <1>1 DEF Off
    <3>2. n < z <=> n < y
      BY <1>1, <1>3, <3>1
    <3>3. Renamed(e, z, y) = y /\ Renamed(n, z, y) = n
      BY <2>1, <3>1 DEF Renamed
    <3>4. CASE r = "left"
      BY <3>1, <3>2, <3>3, <3>4, <2>1, <1>1 DEF Off
    <3>5. CASE r # "left"
      BY <3>1, <3>2, <3>3, <3>5, <2>1, <1>1 DEF Off
    <3> QED
      BY <3>4, <3>5
  <2>2. CASE n = z
    <3>1. e # z
      BY <2>2, <1>1 DEF Off
    <3>2. e < z <=> e < y
      BY <1>1, <1>3, <3>1
    <3>3. Renamed(n, z, y) = y /\ Renamed(e, z, y) = e
      BY <2>2, <3>1 DEF Renamed
    <3>4. CASE r = "left"
      BY <3>1, <3>2, <3>3, <3>4, <2>2, <1>1 DEF Off
    <3>5. CASE r # "left"
      BY <3>1, <3>2, <3>3, <3>5, <2>2, <1>1 DEF Off
    <3> QED
      BY <3>4, <3>5
  <2>3. CASE e # z /\ n # z
    BY <2>3 DEF Renamed
  <2> QED
    BY <2>1, <2>2, <2>3
<1> QED
  BY <1>2, <1>3

\* The subtree where a link leads now.
LEMMA SplicedUnder ==
    ASSUME NEW t, NEW N, NEW sub, Linked(t, N, sub), NEW z, NEW y, NEW x, NEW s,
           SpliceSite(t, N, sub, z, y, x, s), NEW k \in N \cup {null}
    PROVE  Under(SplicedSub(sub, N, z, y), Renamed(CutLink(k, y, x), z, y))
                = RenamedSet(Under(sub, k), z, y)
<1> DEFINE R(S) == RenamedSet(S, z, y)
           sub2 == SplicedSub(sub, N, z, y)
<1>1. z \in N /\ y \in N
  BY DEF SpliceSite
<1>2. SiteFacts(t, N, sub, z, y, x)
  BY SiteIs
<1>3. \A m \in N \ {z} : sub2[m] = R(sub[Origin(m, z, y)])
  BY DEF SplicedSub
<1>4. null \notin N
  BY <1>2 DEF SiteFacts
<1> HIDE DEF sub2
<1>5. CASE k = null
  BY <1>1, <1>4, <1>5 DEF Under, Renamed, CutLink, RenamedSet
<1>6. CASE k = y
  <2>1. Renamed(CutLink(k, y, x), z, y) = x
    BY <1>2, <1>6 DEF Renamed, CutLink, SiteFacts
  <2>2. R(sub[y]) = Under(sub, x)
    BY <1>2 DEF SiteFacts, RenamedSet
  <2>3. Under(sub2, x) = Under(sub, x)
    <3>1. CASE x = null
      BY <3>1 DEF Under
    <3>2. CASE x # null
      <4>1. sub2[x] = R(sub[x])
        BY <3>2, <1>2, <1>3 DEF SiteFacts, Origin
      <4>2. R(sub[x]) = sub[x]
        BY <3>2, <1>2 DEF SiteFacts, Under, RenamedSet
      <4> QED
        BY <3>2, <4>1, <4>2 DEF Under
    <3> QED
      BY <3>1, <3>2
  <2> QED
    BY <2>1, <2>2, <2>3, <1>1, <1>4, <1>6 DEF Under, sub2
<1>7. CASE k # null /\ k # y
  <2> DEFINE m == Renamed(k, z, y)
  <2>1. Renamed(CutLink(k, y, x), z, y) = m
    BY <1>7 DEF CutLink
  <2>2. m \in N \ {z} /\ Origin(m, z, y) = k /\ m # null
    BY <1>1, <1>4, <1>7 DEF Renamed, Origin
  <2> HIDE DEF m
  <2>3. sub2[m] = R(sub[k])
    BY <2>2, <1>3
  <2> QED
    BY <2>1, <2>2, <2>3, <1>7 DEF Under, sub2
<1> QED
  BY <1>5, <1>6, <1>7

\* Children after the cut.
LEMMA SplicedKids ==
    ASSUME NEW t, NEW N, NEW sub, Linked(t, N, sub), NEW z, NEW y, NEW x, NEW s,
           SpliceSite(t, N, sub, z, y, x, s), NEW u, Spliced(t, u, N, z, y, x),
           NEW m \in N \ {z}
    PROVE  KidsFit(u, N \ {z}, SplicedSub(sub, N, z, y), m)
<1> DEFINE n == Origin(m, z, y)
           sub2 == SplicedSub(sub, N, z, y)
           M == N \ {z}
           Led(k) == Renamed(CutLink(k, y, x), z, y)
<1>1. z \in N /\ y \in N
  BY DEF SpliceSite
<1>2. SiteFacts(t, N, sub, z, y, x)
  BY SiteIs
<1>3. N \subseteq Int /\ header \notin N /\ null \notin N /\ \A a \in N : a \in sub[a]
      /\ sub[a] \subseteq N
  BY Plain
<1>4. n \in N /\ n # y /\ m = Renamed(n, z, y)
  BY <1>1 DEF Origin, Renamed
<1>5. \A r \in Sides : u[m][r] = Led(t[n][r])
  BY DEF Spliced
<1>6. sub2[m] = RenamedSet(sub[n], z, y)
  BY DEF SplicedSub
<1> HIDE DEF n, M, sub2
<1>7. SUFFICES ASSUME NEW r \in Sides
      PROVE  /\ sub2[m] = {m} \cup Under(sub2, u[m][r]) \cup Under(sub2, u[m][Mirror(r)])
             /\ u[m][r] # null => u[m][r] \in M /\ u[u[m][r]].parent = m
             /\ \A e \in Under(sub2, u[m][r]) : Off(r, e, m)
  BY DEF KidsFit, M, sub2
<1> DEFINE a == t[n][r]
           b == t[n][Mirror(r)]
<1>8. Mirror(r) \in Sides
  BY MirrorIs
<1>9. a \in N \cup {null} /\ b \in N \cup {null} /\ (a # null => t[a].parent = n)
  BY <1>4, <1>8, KidIs
<1>10. sub[n] = {n} \cup Under(sub, a) \cup Under(sub, b) /\ \A e \in Under(sub, a) : Off(r, e, n)
  BY <1>4 DEF Linked, KidsFit
<1>11. u[m][r] = Led(a) /\ u[m][Mirror(r)] = Led(b)
  BY <1>5, <1>8
<1>111. \A c \in N, q \in Sides : c # y => t[c][q] # x \/ x = null
  BY <1>2 DEF SiteFacts
<1>112. a # x \/ x = null
  BY <1>111, <1>4
<1> HIDE DEF a, b
<1>12. /\ Under(sub2, Led(a)) = RenamedSet(Under(sub, a), z, y)
       /\ Under(sub2, Led(b)) = RenamedSet(Under(sub, b), z, y)
  BY <1>9, SplicedUnder DEF sub2
<1>13. sub2[m] = {m} \cup Under(sub2, u[m][r]) \cup Under(sub2, u[m][Mirror(r)])
  <2> DEFINE A == Under(sub, a)
             B == Under(sub, b)
  <2>1. RenamedSet({n} \cup A \cup B, z, y) = {m} \cup RenamedSet(A, z, y) \cup RenamedSet(B, z, y)
    <3> HIDE DEF A, B
    <3> QED
      BY <1>4 DEF RenamedSet, Renamed
  <2> QED
    BY <2>1, <1>6, <1>10, <1>11, <1>12
<1>14. ASSUME Led(a) # null PROVE Led(a) \in M /\ u[Led(a)].parent = m
  <2>1. CASE a = y
    <3>1. Led(a) = x
      BY <2>1, <1>2 DEF Renamed, CutLink, SiteFacts
    <3>2. x \in N /\ x # z /\ x # y
      BY <3>1, <1>14, <1>2 DEF SiteFacts
    <3>3. u[x].parent = Renamed(t[y].parent, z, y)
      BY <3>2 DEF Spliced
    <3>4. t[y].parent = n
      BY <1>9, <2>1, <1>1, <1>3
    <3> QED
      BY <3>1, <3>2, <3>3, <3>4, <1>4 DEF M
  <2>2. CASE a # y
    <3>1. Led(a) = Renamed(a, z, y)
      BY <2>2 DEF CutLink
    <3> DEFINE k == Renamed(a, z, y)
    <3>2. a # null
      BY <3>1, <1>14, <1>1, <1>3 DEF Renamed
    <3>3. k \in N \ {z} /\ Origin(k, z, y) = a
      BY <2>2, <3>2, <1>9, <1>1 DEF Renamed, Origin
    <3>31. k # x
      <4>1. x # y /\ x # z
        BY <1>2 DEF SiteFacts
      <4>2. a # x
        BY <1>112, <3>2
      <4> QED
        BY <4>1, <4>2 DEF Renamed
    <3> HIDE DEF k
    <3>4. u[k].parent = Renamed(t[a].parent, z, y)
      BY <3>3, <3>31 DEF Spliced
    <3>5. t[a].parent = n
      BY <3>2, <1>9
    <3> QED
      BY <3>1, <3>3, <3>4, <3>5, <1>4 DEF M, k
  <2> QED
    BY <2>1, <2>2
<1>15. ASSUME NEW e \in Under(sub2, Led(a)) PROVE Off(r, e, m)
  <2>1. e \in RenamedSet(Under(sub, a), z, y)
    BY <1>12
  <2>2. PICK f \in Under(sub, a) : f # y /\ e = Renamed(f, z, y)
    <3>1. CASE e \in Under(sub, a) /\ e # z /\ e # y
      BY <3>1 DEF Renamed
    <3>2. CASE e = y /\ z \in Under(sub, a) /\ z # y
      BY <3>2 DEF Renamed
    <3> QED
      BY <2>1, <3>1, <3>2 DEF RenamedSet
  <2>3. f \in N /\ Off(r, f, n)
    BY <1>3, <1>9, <1>10 DEF Under
  <2>4. Off(r, Renamed(f, z, y), Renamed(n, z, y))
    BY <1>3, <1>4, <2>2, <2>3, RenamedOrder
  <2> QED
    BY <2>2, <2>4, <1>4
<1> HIDE DEF Led
<1> QED
  BY <1>11, <1>13, <1>14, <1>15

\* Parents after the cut.
LEMMA SplicedParents ==
    ASSUME NEW t, NEW N, NEW sub, Linked(t, N, sub), NEW z, NEW y, NEW x, NEW s,
           SpliceSite(t, N, sub, z, y, x, s), NEW u, Spliced(t, u, N, z, y, x),
           NEW m \in N \ {z}
    PROVE  ParentFits(u, N \ {z}, m)
<1> DEFINE n == IF m = x THEN y ELSE Origin(m, z, y)
           q == t[n].parent
           M == N \ {z}
           Led(k) == Renamed(CutLink(k, y, x), z, y)
<1>1. z \in N /\ y \in N
  BY DEF SpliceSite
<1>2. SiteFacts(t, N, sub, z, y, x)
  BY SiteIs
<1>3. N \subseteq Int /\ header \notin N /\ null \notin N
  BY Plain
<1>4. n \in N /\ Led(n) = m
  <2>1. x # z /\ x # y
    BY <1>2 DEF SiteFacts
  <2>2. CASE m = x
    BY <2>1, <2>2, <1>1 DEF Renamed, CutLink
  <2>3. CASE m # x
    <3>1. n \in N /\ n # y /\ Renamed(n, z, y) = m
      BY <2>3, <1>1 DEF Origin, Renamed
    <3> QED
      BY <3>1 DEF CutLink
  <2> QED
    BY <2>2, <2>3
<1>5. u[m].parent = Renamed(q, z, y)
  BY DEF Spliced
<1>6. q # y
  <2> SUFFICES ASSUME q = y PROVE FALSE
    OBVIOUS
  <2>1. PICK r \in Sides : t[y][r] = n /\ q # n
    BY <1>1, <1>3, <1>4, ParentIs2
  <2>2. n # null
    BY <1>3, <1>4
  <2>3. n = x
    BY <2>1, <2>2, MirrorIs DEF SpliceSite
  <2>4. m = x
    BY <2>3, <1>2, <1>4 DEF SiteFacts, Renamed, CutLink
  <2> QED
    BY <2>3, <2>4, <1>2 DEF SiteFacts
<1> HIDE DEF n, M
<1>7. CASE q = header
  <2>1. root(t) = n
    BY <1>4, <1>7, ParentIs2
  <2>2. root(u) = m
    <3>1. root(u) = Led(root(t))
      BY DEF Spliced
    <3> QED
      BY <3>1, <2>1, <1>4
  <2>3. u[m].parent = header
    BY <1>1, <1>3, <1>5, <1>7 DEF Renamed
  <2> QED
    BY <2>2, <2>3 DEF ParentFits
<1>8. CASE q # header
  <2>1. PICK r \in Sides : q \in N /\ t[q][r] = n
    BY <1>4, <1>8, ParentIs2
  <2> DEFINE p == Renamed(q, z, y)
  <2>2. p \in M /\ Origin(p, z, y) = q
    BY <1>1, <1>6, <2>1 DEF Renamed, Origin, M
  <2> HIDE DEF p, q
  <2>3. u[p][r] = Led(t[q][r])
    BY <2>2 DEF Spliced, M
  <2>4. u[p][r] = m
    BY <2>1, <2>3, <1>4
  <2>5. u[m].parent = p /\ p # header
    BY <2>2, <1>3, <1>5 DEF p, M
  <2> QED
    BY <2>2, <2>4, <2>5 DEF ParentFits, M
<1> QED
  BY <1>7, <1>8

\* The root after the cut.
LEMMA SplicedRoot ==
    ASSUME NEW t, NEW N, NEW sub, Linked(t, N, sub), NEW z, NEW y, NEW x, NEW s,
           SpliceSite(t, N, sub, z, y, x, s), NEW u, Spliced(t, u, N, z, y, x)
    PROVE  RootFits(u, N \ {z}, SplicedSub(sub, N, z, y))
<1> DEFINE k == root(t)
           M == N \ {z}
           sub2 == SplicedSub(sub, N, z, y)
<1>1. z \in N /\ y \in N
  BY DEF SpliceSite
<1>2. SiteFacts(t, N, sub, z, y, x)
  BY SiteIs
<1>3. N \subseteq Int /\ header \notin N /\ null \notin N
  BY Plain
<1>4. k \in N /\ t[k].parent = header /\ sub[k] = N
  BY <1>1 DEF Linked, RootFits
<1>5. root(u) = Renamed(CutLink(k, y, x), z, y)
  BY DEF Spliced
<1> DEFINE top == root(u)
<1>6. (k = y => z = y) /\ k = root(t)
  BY <1>2 DEF SiteFacts
<1> HIDE DEF k, sub2
<1>7. CASE k = y
  <2>1. z = y /\ top = x
    BY <1>2, <1>5, <1>6, <1>7 DEF SiteFacts, Renamed, CutLink
  <2>2. N = {y} \cup Under(sub, x) /\ y \notin Under(sub, x) /\ x # y /\ (x # null => x \in N)
    BY <1>2, <1>4, <1>7 DEF SiteFacts
  <2>3. CASE x = null
    <3>1. M = {}
      BY <2>1, <2>2, <2>3 DEF Under
    <3> QED
      BY <3>1, <2>1, <2>3 DEF RootFits
  <2>4. CASE x # null
    <3>1. x \in M /\ sub[x] = M
      BY <2>1, <2>2, <2>4 DEF Under
    <3>2. u[x].parent = header
      <4>1. u[x].parent = Renamed(t[y].parent, z, y)
        BY <3>1 DEF Spliced
      <4> QED
        BY <4>1, <1>1, <1>3, <1>4, <1>7 DEF Renamed
    <3>3. sub2[x] = M
      <4>1. sub2[x] = RenamedSet(sub[x], z, y)
        BY <3>1, <2>2 DEF SplicedSub, Origin, sub2
      <4> QED
        BY <4>1, <3>1, <2>1, <2>2 DEF RenamedSet
    <3> QED
      BY <2>1, <2>4, <3>1, <3>2, <3>3 DEF RootFits, sub2
  <2> QED
    BY <2>3, <2>4
<1>8. CASE k # y
  <2>1. top = Renamed(k, z, y)
    BY <1>5, <1>8 DEF CutLink
  <2>2. top \in M /\ Origin(top, z, y) = k
    BY <2>1, <1>1, <1>4, <1>8 DEF Renamed, Origin
  <2>3. top # x
    <3>1. x # y /\ x # z /\ (x # null => t[x].parent = y)
      BY <1>2 DEF SiteFacts
    <3>2. k # x
      BY <3>1, <1>1, <1>3, <1>4
    <3> QED
      BY <3>1, <3>2, <2>1 DEF Renamed
  <2> HIDE DEF top
  <2>4. u[top].parent = header
    <3>1. u[top].parent = Renamed(t[k].parent, z, y)
      BY <2>2, <2>3 DEF Spliced
    <3> QED
      BY <3>1, <1>1, <1>3, <1>4 DEF Renamed
  <2>5. sub2[top] = M
    <3>1. sub2[top] = RenamedSet(N, z, y)
      BY <2>2, <1>4 DEF SplicedSub, sub2
    <3> QED
      BY <3>1, <1>1 DEF RenamedSet
  <2>6. top # null
    BY <2>2, <1>3
  <2> QED
    BY <2>2, <2>4, <2>5, <2>6 DEF RootFits, sub2, top
<1> QED
  BY <1>7, <1>8

\* The tree stays linked and in order without z.
LEMMA SplicedLinked ==
    ASSUME NEW t, NEW N, NEW sub, Linked(t, N, sub), NEW z, NEW y, NEW x, NEW s,
           SpliceSite(t, N, sub, z, y, x, s), NEW u, Spliced(t, u, N, z, y, x)
    PROVE  Linked(u, N \ {z}, SplicedSub(sub, N, z, y))
<1> DEFINE M == N \ {z}
           sub2 == SplicedSub(sub, N, z, y)
<1>1. z \in N /\ y \in N
  BY DEF SpliceSite
<1>2. M \subseteq Values
  BY Plain
<1>3. sub2 \in [M -> SUBSET M]
  <2> SUFFICES ASSUME NEW m \in M PROVE RenamedSet(sub[Origin(m, z, y)], z, y) \subseteq M
    BY DEF SplicedSub
  <2>1. Origin(m, z, y) \in N
    BY <1>1 DEF Origin
  <2>2. sub[Origin(m, z, y)] \subseteq N
    BY <2>1, Plain
  <2> QED
    BY <2>2, <1>1 DEF RenamedSet
<1>4. \A m \in M : KidsFit(u, M, sub2, m) /\ ParentFits(u, M, m)
  BY SplicedKids, SplicedParents
<1>5. RootFits(u, M, sub2)
  BY SplicedRoot
<1> QED
  BY <1>2, <1>3, <1>4, <1>5 DEF Linked

\* Only counts above the place that y has left are stale.
LEMMA SplicedCounts ==
    ASSUME NEW t, NEW N, NEW sub, Linked(t, N, sub), \A n \in N : Counted(t, sub, n),
           NEW z, NEW y, NEW x, NEW s,
           SpliceSite(t, N, sub, z, y, x, s), NEW u, Spliced(t, u, N, z, y, x)
    PROVE  LET p == Renamed(t[y].parent, z, y)
           IN  /\ p \in (N \ {z}) \cup {header}
               /\ CountedBut(u, N \ {z}, SplicedSub(sub, N, z, y), p)
<1> DEFINE q == t[y].parent
           p == Renamed(q, z, y)
           M == N \ {z}
           sub2 == SplicedSub(sub, N, z, y)
<1>1. z \in N /\ y \in N
  BY DEF SpliceSite
<1>2. SiteFacts(t, N, sub, z, y, x)
  BY SiteIs
<1>3. N \subseteq Int /\ header \notin N /\ null \notin N /\ \A n \in N : n \in sub[n]
  BY Plain
<1>4. q = header \/ (q \in N /\ q # y)
  BY <1>1, ParentIs2
<1>5. q = header <=> root(t) = y
  BY <1>1, ParentIs2
<1>6. p \in M \cup {header} /\ (p = header <=> q = header)
  BY <1>1, <1>3, <1>4 DEF Renamed
<1>61. root(t) = y => z = y
  BY <1>2 DEF SiteFacts
<1> HIDE DEF q
<1>7. ASSUME NEW m \in M, p = header \/ p \notin sub2[m] PROVE Counted(u, sub2, m)
  <2> DEFINE n == Origin(m, z, y)
  <2>1. n \in N /\ n # y /\ sub2[m] = RenamedSet(sub[n], z, y)
    BY <1>1 DEF Origin, SplicedSub
  <2>2. u[m].node_count = t[m].node_count
    BY DEF Spliced
  <2>3. n = m
    <3>1. CASE p = header
      BY <3>1, <1>5, <1>6, <1>61, <2>1 DEF Origin
    <3>2. CASE p # header
      <4>1. q \in N /\ q # y /\ q # header
        BY <1>4, <1>6, <3>2
      <4>2. q \notin sub[n]
        <5>1. p \notin RenamedSet(sub[n], z, y)
          BY <1>7, <2>1, <3>2
        <5> HIDE DEF n
        <5> QED
          BY <5>1, <4>1 DEF RenamedSet, Renamed
      <4>3. n # z
        <5> SUFFICES ASSUME n = z PROVE FALSE
          OBVIOUS
        <5>1. y \in sub[z] /\ y # z
          BY <2>1 DEF SpliceSite
        <5>2. q \in sub[z]
          BY <1>1, <5>1, BelowIs DEF BelowFits, q
        <5> QED
          BY <4>2, <5>2
      <4> QED
        BY <4>3 DEF Origin
    <3> QED
      BY <3>1, <3>2
  <2>4. y \notin sub[n]
    <3>1. y \in sub[n] <=> n = y \/ (q # header /\ q \in sub[n])
      BY <1>1, <2>1, AboveIs DEF q
    <3>2. q # header => q \notin sub[n]
      <4> SUFFICES ASSUME q # header PROVE q \notin sub[n]
        OBVIOUS
      <4>1. p \notin RenamedSet(sub[n], z, y)
        BY <1>6, <1>7, <2>1
      <4> HIDE DEF n
      <4> QED
        BY <4>1, <1>4 DEF RenamedSet, Renamed
    <3> QED
      BY <3>1, <3>2, <2>1
  <2>5. z \notin sub[n]
    BY <2>1, <2>4, <1>2 DEF SiteFacts
  <2>6. sub2[m] = sub[m]
    BY <2>1, <2>3, <2>4, <2>5 DEF RenamedSet
  <2>7. Counted(t, sub, m)
    OBVIOUS
  <2> HIDE DEF sub2
  <2> QED
    BY <2>2, <2>6, <2>7 DEF Counted
<1>8. CountedBut(u, M, sub2, p)
  BY <1>7 DEF CountedBut
<1> QED
  BY <1>6, <1>8 DEF q

\* The heights are the old ones, but below p when y was black.
SplicedHeights(bh, N, z, y) == [m \in N \ {z} |-> bh[Origin(m, z, y)]]

\* The colours after the cut: the place of y is short when y was black.
LEMMA SplicedColours ==
    ASSUME NEW t, NEW D, TypedTree(t, D), NEW N, NEW sub, Linked(t, N, sub), N \subseteq D,
           NEW bh, RedBlack(t, N, sub, bh),
           NEW z, NEW y, NEW x, NEW s,
           SpliceSite(t, N, sub, z, y, x, s), NEW u, Spliced(t, u, N, z, y, x),
           Linked(u, N \ {z}, SplicedSub(sub, N, z, y))
    PROVE  LET p == Renamed(t[y].parent, z, y)
               bh2 == SplicedHeights(bh, N, z, y)
           IN  IF t[y].is_red THEN RedBlack(u, N \ {z}, SplicedSub(sub, N, z, y), bh2)
               ELSE Thinned(u, N \ {z}, bh2, x, p)
<1> DEFINE q == t[y].parent
           p == Renamed(q, z, y)
           M == N \ {z}
           sub2 == SplicedSub(sub, N, z, y)
           bh2 == SplicedHeights(bh, N, z, y)
           Led(k) == Renamed(CutLink(k, y, x), z, y)
<1>1. z \in N /\ y \in N /\ s \in Sides /\ t[y][s] = x
  BY DEF SpliceSite
<1>2. SiteFacts(t, N, sub, z, y, x)
  BY SiteIs
<1>3. N \subseteq Int /\ header \notin N /\ null \notin N
  BY Plain
<1>4. /\ bh \in [N -> Nat]
      /\ \A n \in N, r \in Sides : PairAt(t, n, r, {}, {})
      /\ \A n \in N, r \in Sides : bh[n] = H(bh, t[n][r]) + Black(t, n)
      /\ ~t[root(t)].is_red
  BY <1>1 DEF RedBlack, Level
<1>5. q = header \/ (q \in N /\ q # y /\ \E d \in Sides : t[q][d] = y)
  BY <1>1, ParentIs2
<1>6. q = header <=> root(t) = y
  BY <1>1, ParentIs2
<1>7. x # y /\ x # z /\ (x # null => x \in N)
  BY <1>2 DEF SiteFacts
<1>8. \A n \in N, r \in Sides : t[n][r] \in N \cup {null}
  BY KidIs
<1>9. \A k \in N \cup {null} : H(bh, k) \in Nat
  BY <1>4 DEF H
<1>10. \A n \in N : Black(t, n) \in {0, 1}
  BY DEF Black
<1>11. ASSUME NEW m \in M
       PROVE  LET n == Origin(m, z, y)
              IN  /\ n \in N /\ n # y
                  /\ u[m].is_red = t[n].is_red /\ bh2[m] = bh[n] /\ Black(u, m) = Black(t, n)
                  /\ m = Renamed(n, z, y)
                  /\ \A r \in Sides : u[m][r] = Led(t[n][r])
  <2>1. Origin(m, z, y) \in N /\ Origin(m, z, y) # y /\ m = Renamed(Origin(m, z, y), z, y)
    BY <1>1 DEF Origin, Renamed
  <2>2. u[m].is_red = t[Origin(m, z, y)].is_red /\ \A r \in Sides : u[m][r] = Led(t[Origin(m,
        z, y)][r])
    BY DEF Spliced
  <2>3. bh2[m] = bh[Origin(m, z, y)]
    BY DEF SplicedHeights
  <2> QED
    BY <2>1, <2>2, <2>3 DEF Black
<1>12. bh2 \in [M -> Nat]
  <2> SUFFICES ASSUME NEW m \in M PROVE bh[Origin(m, z, y)] \in Nat
    BY DEF SplicedHeights
  <2> QED
    BY <1>4, <1>11
<1>13. ASSUME NEW k \in N \cup {null}, k # y
       PROVE  /\ Led(k) = Renamed(k, z, y) /\ H(bh2, Led(k)) = H(bh, k)
              /\ k # null => Led(k) \in M /\ u[Led(k)].is_red = t[k].is_red
              /\ k = null => Led(k) = null
  <2>1. Led(k) = Renamed(k, z, y)
    BY <1>13 DEF CutLink
  <2>2. CASE k = null
    BY <2>1, <2>2, <1>1, <1>3 DEF Renamed, H
  <2>3. CASE k # null
    <3> DEFINE m == Renamed(k, z, y)
    <3>1. m \in M /\ Origin(m, z, y) = k /\ m # null
      BY <2>3, <1>1, <1>3, <1>13 DEF Renamed, Origin
    <3> HIDE DEF m
    <3>2. bh2[m] = bh[k] /\ u[m].is_red = t[k].is_red
      BY <3>1, <1>11
    <3> QED
      BY <2>1, <2>3, <3>1, <3>2 DEF H, m
  <2> QED
    BY <2>2, <2>3
<1>14. Led(y) = x
  BY <1>7 DEF Renamed, CutLink
<1>15. H(bh2, x) = H(bh, x) /\ (x # null => x \in M /\ u[x].is_red = t[x].is_red)
  <2>1. x \in N \cup {null} /\ x # y
    BY <1>7
  <2>2. Led(x) = x
    BY <1>7 DEF Renamed, CutLink
  <2> QED
    BY <2>1, <2>2, <1>13
<1>16. bh[y] = H(bh, x) + Black(t, y) /\ H(bh, y) = bh[y]
  BY <1>1, <1>3, <1>4 DEF H
<1>18. t[y].is_red => ~IsRed(t, x)
  <2>1. PairAt(t, y, s, {}, {})
    BY <1>1, <1>4
  <2> QED
    BY <2>1, <1>1 DEF PairAt, IsRed
<1>19. root(u) = Led(root(t))
  BY DEF Spliced
<1>20. \A n \in N, r \in Sides : t[n][r] = y => q = n
  BY <1>2 DEF SiteFacts
<1>201. root(t) \in N
  BY <1>1 DEF Linked, RootFits
<1>202. \A n \in N, r \in Sides : t[n].is_red /\ t[n][r] # null => ~t[t[n][r]].is_red
  BY <1>4 DEF PairAt
<1> HIDE DEF q, p, M, sub2, bh2, Led
<1>21. ASSUME NEW m \in M, NEW r \in Sides
       PROVE  PairAt(u, m, r, {x}, {x}) /\ (t[y].is_red => PairAt(u, m, r, {}, {}))
  <2> DEFINE n == Origin(m, z, y)
             k == t[n][r]
  <2>1. n \in N /\ n # y /\ u[m].is_red = t[n].is_red /\ u[m][r] = Led(k) /\ k \in N \cup {null}
    BY <1>8, <1>11
  <2>2. t[n].is_red /\ k # null => ~t[k].is_red
    BY <2>1, <1>202
  <2> HIDE DEF n, k
  <2>3. CASE k = y
    <3>1. u[m][r] = x
      BY <2>1, <2>3, <1>14
    <3>2. t[y].is_red /\ x # null => ~u[x].is_red
      BY <1>15, <1>18 DEF IsRed
    <3> QED
      BY <3>1, <3>2 DEF PairAt
  <2>4. CASE k # y
    <3> DEFINE j == Led(k)
    <3>1. u[m][r] = j /\ (j # null => k # null /\ u[j].is_red = t[k].is_red)
      BY <2>1, <2>4, <1>13
    <3> HIDE DEF j
    <3> QED
      BY <3>1, <2>1, <2>2 DEF PairAt
  <2> QED
    BY <2>3, <2>4
<1>22. y = root(t) \/ ~u[root(u)].is_red
  <2> DEFINE top == root(t)
  <2>1. top \in N /\ ~t[top].is_red /\ root(u) = Led(top)
    BY <1>4, <1>19, <1>201
  <2> HIDE DEF top
  <2>2. top # y => ~u[Led(top)].is_red
    BY <2>1, <1>3, <1>13
  <2> QED
    BY <2>1, <2>2 DEF top
<1>23. CASE t[y].is_red
  <2>1. y # root(t)
    BY <1>4, <1>23
  <2>2. ASSUME NEW m \in M, NEW r \in Sides PROVE bh2[m] = H(bh2, u[m][r]) + Black(u, m)
    <3> DEFINE n == Origin(m, z, y)
               k == t[n][r]
    <3>1. n \in N /\ bh2[m] = bh[n] /\ Black(u, m) = Black(t, n) /\ u[m][r] = Led(k)
          /\ k \in N \cup {null}
      BY <1>8, <1>11
    <3>2. bh[n] = H(bh, k) + Black(t, n)
      BY <3>1, <1>4
    <3> HIDE DEF n, k
    <3>3. H(bh2, Led(k)) = H(bh, k)
      <4>1. CASE k = y
        <5>1. Black(t, y) = 0 /\ H(bh, x) \in Nat
          BY <1>23, <1>7, <1>9 DEF Black
        <5> QED
          BY <4>1, <5>1, <1>14, <1>15, <1>16
      <4>2. CASE k # y
        BY <4>2, <3>1, <1>13
      <4> QED
        BY <4>1, <4>2
    <3> QED
      BY <3>1, <3>2, <3>3
  <2>3. Level(u, M, bh2)
    BY <2>2 DEF Level
  <2> HIDE DEF root
  <2>4. RedBlack(u, M, sub2, bh2)
    BY <2>1, <2>3, <1>12, <1>21, <1>22, <1>23 DEF RedBlack
  <2> QED
    BY <2>4, <1>23 DEF M, sub2, bh2
<1>24. CASE ~t[y].is_red
  <2>0. Black(t, y) = 1
    BY <1>24 DEF Black
  <2>1. CASE q = header
    <3>1. root(t) = y /\ root(u) = x
      BY <2>1, <1>6, <1>14, <1>19
    <3>2. ASSUME NEW m \in M, NEW r \in Sides PROVE bh2[m] = H(bh2, u[m][r]) + Black(u, m)
      <4> DEFINE n == Origin(m, z, y)
                 k == t[n][r]
      <4>1. n \in N /\ bh2[m] = bh[n] /\ Black(u, m) = Black(t, n) /\ u[m][r] = Led(k)
            /\ k \in N \cup {null}
        BY <1>8, <1>11
      <4>2. bh[n] = H(bh, k) + Black(t, n) /\ k # y
        BY <4>1, <1>3, <1>4, <1>20, <2>1
      <4> HIDE DEF n, k
      <4>3. H(bh2, Led(k)) = H(bh, k)
        BY <4>1, <4>2, <1>13
      <4> QED
        BY <4>1, <4>2, <4>3
    <3>3. Level(u, M, bh2)
      BY <3>2 DEF Level
    <3> HIDE DEF root
    <3>4. Evened(u, M, bh2, x)
      BY <3>1, <3>3, <1>12, <1>21 DEF Evened
    <3> QED
      BY <3>4, <1>24 DEF Thinned, M, bh2
  <2>2. CASE q # header
    <3>1. PICK d \in Sides : q \in N /\ q # y /\ t[q][d] = y
      BY <2>2, <1>5
    <3>2. t[q][Mirror(d)] # y
      <4>1. y # null
        BY <1>1, <1>3
      <4> QED
        BY <3>1, <4>1, KidIs
    <3>3. \A n \in N, r \in Sides : t[n][r] = y <=> n = q /\ r = d
      BY <3>1, <3>2, <1>20, MirrorIs
    <3>4. p \in M /\ Origin(p, z, y) = q
      BY <3>1, <1>1 DEF p, M, Origin, Renamed
    <3>5. u[p][d] = x
      BY <3>1, <3>4, <1>11, <1>14
    <3>6. ASSUME NEW m \in M, NEW r \in Sides
          PROVE  bh2[m] = H(bh2, u[m][r]) + Short(m, r, p, d) + Black(u, m)
      <4> DEFINE n == Origin(m, z, y)
                 k == t[n][r]
      <4>1. n \in N /\ bh2[m] = bh[n] /\ Black(u, m) = Black(t, n) /\ u[m][r] = Led(k)
            /\ k \in N \cup {null}
            /\ m = Renamed(n, z, y)
        BY <1>8, <1>11
      <4>2. bh[n] = H(bh, k) + Black(t, n) /\ (k = y <=> n = q /\ r = d)
        BY <4>1, <3>3, <1>4
      <4>21. n = q <=> m = p
        BY <4>1, <3>4 DEF p
      <4>3. H(bh, k) = H(bh2, Led(k)) + Short(m, r, p, d)
        <5>1. CASE k = y
          <6>1. Short(m, r, p, d) = 1
            BY <5>1, <4>2, <4>21 DEF Short
          <6> QED
            BY <5>1, <6>1, <2>0, <1>14, <1>15, <1>16
        <5>2. CASE k # y
          <6>1. Short(m, r, p, d) = 0 /\ H(bh, k) \in Nat
            BY <5>2, <4>1, <4>2, <4>21, <1>9 DEF Short
          <6>2. H(bh2, Led(k)) = H(bh, k)
            BY <5>2, <4>1, <1>13
          <6> QED
            BY <6>1, <6>2
        <5> QED
          BY <5>1, <5>2
      <4> HIDE DEF n, k
      <4> QED
        BY <4>1, <4>2, <4>3
    <3>7. \A m \in M : HeightAt(u, bh2, m, p, d)
      BY <3>6 DEF HeightAt
    <3>8. y # root(t)
      BY <2>2, <1>6
    <3> HIDE DEF root
    <3>9. Lowered(u, M, bh2, x, p, d)
      BY <3>4, <3>5, <3>7, <3>8, <1>12, <1>21, <1>22 DEF Lowered
    <3> QED
      BY <3>9, <1>24 DEF Thinned, M, bh2, p, q
  <2> QED
    BY <2>1, <2>2
<1> QED
  BY <1>23, <1>24

\* What is left of the tree when z, with no more than the child x, is cut out.
Removed(t, u, D, N, z, y, x) ==
    /\ TypedTree(u, D)
    /\ HeaderKept(t, u)
    /\ Spliced(t, u, N, z, y, x)

\* Erasing a node with at most one child cuts it out.
LEMMA CutIs ==
    ASSUME NEW t, NEW D, TypedTree(t, D), NEW N, NEW sub, Linked(t, N, sub), N \subseteq D,
           NEW z, NEW x, NEW s, SpliceSite(t, N, sub, z, z, x, s)
    PROVE  Removed(t, Relink(SetParent(t, x, t[z].parent), z, x), D, N, z, z, x)
<1> DEFINE p == t[z].parent
           v == SetParent(t, x, p)
           u == Relink(v, z, x)
<1>1. z \in N
  BY DEF SpliceSite
<1>2. SiteFacts(t, N, sub, z, z, x)
  BY SiteIs
<1>3. N \subseteq Int /\ header \notin N /\ null \notin N /\ null # header /\ null \in Int
  BY Plain, ValuesAre DEF null
<1>4. x # z /\ x # header /\ x \in D \cup {null} /\ x \in Int
  BY <1>2, <1>3 DEF SiteFacts
<1>5. p \in Int
  BY <1>1, FieldTypes
<1>6. Wrote(t, v, D, x, "parent", p)
  BY <1>4, <1>5, SetParentIs
<1> HIDE DEF v
<1>7. TypedTree(v, D) /\ \A m \in D \cup {header}, g \in Fields : v[m][g] = IF m = x
      /\ g = "parent" THEN p ELSE t[m][g]
  BY <1>6 DEF Wrote
<1>8. /\ \A m \in D \cup {header} : /\ v[m].parent = IF m = x THEN p ELSE t[m].parent
                                    /\ v[m].is_red = t[m].is_red
                                    /\ v[m].node_count = t[m].node_count
                                    /\ v[m].left = t[m].left
                                    /\ v[m].right = t[m].right
                                    /\ \A r \in Sides : v[m][r] = t[m][r]
  BY <1>7 DEF Fields, Sides
<1>9. p = header <=> root(t) = z
  BY <1>1, ParentIs2
<1>10. p # header => p \in N /\ \E r \in Sides : t[p][r] = z /\ t[p][Mirror(r)] # z
  BY <1>1, ParentIs2
<1>11. root(v) = root(t) /\ v[z].parent = p
  BY <1>1, <1>4, <1>8 DEF root
<1>12. Hangs(v, D, z)
  <2>1. p # header => p \in D /\ \E r \in Sides : v[p][r] = z /\ v[p][Mirror(r)] # z
    BY <1>8, <1>10, MirrorIs
  <2> HIDE DEF root, p
  <2> QED
    BY <2>1, <1>9, <1>11 DEF Hangs
<1>13. Relinked(v, u, D, z, x)
  BY <1>1, <1>4, <1>7, <1>12, RelinkIs
<1> HIDE DEF u
<1>14. TypedTree(u, D)
       /\ \A m \in D \cup {header}, g \in Fields :
            u[m][g] = IF p = header
                      THEN IF m = header /\ g = "parent" THEN x ELSE v[m][g]
                      ELSE IF m = p /\ g \in Sides /\ v[p][g] = z THEN x
                      ELSE v[m][g]
  <2> HIDE DEF p
  <2> QED
    BY <1>11, <1>13 DEF Relinked
<1>15. /\ \A m \in D \cup {header} :
            /\ u[m].is_red = t[m].is_red /\ u[m].node_count = t[m].node_count
            /\ u[m].parent = IF m = header /\ p = header THEN x ELSE v[m].parent
            /\ \A r \in Sides : u[m][r] = IF p # header /\ m = p /\ t[p][r] = z THEN x ELSE t[m][r]
  <2> HIDE DEF p
  <2>1. \A m \in D \cup {header} : u[m].is_red = t[m].is_red /\ u[m].node_count = t[m].node_count
    BY <1>8, <1>14 DEF Fields, Sides
  <2>2. \A m \in D \cup {header} : u[m].parent = IF m = header /\ p = header THEN x ELSE v[m].parent
    BY <1>14 DEF Fields, Sides
  <2>3. \A m \in D \cup {header}, r \in Sides :
            u[m][r] = IF p # header /\ m = p /\ t[p][r] = z THEN x ELSE t[m][r]
    <3>1. \A r \in Sides : r \in Fields /\ r # "parent"
      BY DEF Fields, Sides
    <3>2. p # header => p \in D \cup {header}
      BY <1>10
    <3> QED
      BY <3>1, <3>2, <1>8, <1>14
  <2> QED
    BY <2>1, <2>2, <2>3
<1>16. \A n \in N, r \in Sides : t[n][r] = z => p = n
  BY <1>2 DEF SiteFacts
<1>17. \A n \in N, r \in Sides : u[n][r] = CutLink(t[n][r], z, x)
  BY <1>3, <1>10, <1>15, <1>16 DEF CutLink
<1>18. root(u) = CutLink(root(t), z, x)
  BY ZenonT(40), <1>4, <1>8, <1>9, <1>15 DEF CutLink, root
<1>19. Spliced(t, u, N, z, z, x)
  <2>1. \A k : Renamed(k, z, z) = k /\ Origin(k, z, z) = k
    BY DEF Renamed, Origin
  <2>2. \A n \in N : u[n].parent = (IF n = x THEN p ELSE t[n].parent) /\ u[n].is_red = t[n].is_red
                     /\ u[n].node_count = t[n].node_count
    BY <1>3, <1>8, <1>15
  <2> HIDE DEF root
  <2>3. \A n \in N \ {z} : u[n].parent = Renamed(t[IF n = x THEN z ELSE Origin(n, z,
        z)].parent, z, z)
    BY <2>1, <2>2
  <2> QED
    BY <2>1, <2>2, <2>3, <1>17, <1>18 DEF Spliced
<1>20. HeaderKept(t, u)
  <2>1. \A r \in Sides : u[header][r] = t[header][r]
    BY <1>10, <1>15, <1>3
  <2>2. "left" \in Sides /\ "right" \in Sides
    BY DEF Sides
  <2>3. header \in D \cup {header}
    OBVIOUS
  <2> QED
    BY <2>1, <2>2, <2>3, <1>15 DEF HeaderKept
<1> QED
  BY <1>14, <1>19, <1>20 DEF Removed, u, v

\* The nodes that change when y takes the place of z: z's children l and r, the
\* parents p of y and q of z.
Exchangeable(t, N, z, y, x, l, r, p, q) ==
    /\ z \in N /\ y \in N /\ l \in N /\ r \in N /\ y # z
    /\ t[z].left = l /\ t[z].right = r /\ t[y].left = null /\ t[y].right = x
    /\ t[y].parent = p /\ t[z].parent = q
    /\ l # z /\ r # z /\ l # r /\ y # l /\ t[l].parent = z /\ t[r].parent = z
    /\ x # z /\ x # l /\ x # y /\ x # r /\ (x # null => x \in N /\ t[x].parent = y)
    /\ y = r => p = z
    /\ y # r => p \in N /\ p # z /\ p # y /\ p # l /\ t[p].left = y /\ t[p].right # y
    /\ q # z /\ q # y /\ q # l /\ q # r /\ (q # header => q # x) /\ (y # r => q # p)
    /\ q = header <=> root(t) = z
    /\ q # header => q \in N /\ \E s \in Sides : t[q][s] = z /\ t[q][Mirror(s)] # z
    /\ root(t) # y
    /\ \A n \in N, s \in Sides : (t[n][s] = z => n = q) /\ (t[n][s] = y => n = p)
    /\ \A n \in N : t[n].parent = z => n = l \/ n = r
    /\ header \notin N /\ null \notin N /\ N \subseteq Int

\* The successor of a node with two children has no left child.
LEMMA SuccessorIs ==
    ASSUME NEW t, NEW D, TypedTree(t, D), NEW N, NEW sub, Linked(t, N, sub), N \subseteq D,
           NEW z \in N, t[z].left # null, t[z].right # null,
           NEW y, y = Furthest(t, t[z].right, "left")
    PROVE  /\ SpliceSite(t, N, sub, z, y, t[y].right, "right")
           /\ Exchangeable(t, N, z, y, t[y].right, t[z].left, t[z].right, t[y].parent, t[z].parent)
<1> DEFINE l == t[z].left
           r == t[z].right
           x == t[y].right
           p == t[y].parent
           q == t[z].parent
           L == "left"
           R == "right"
<1>1. L \in Sides /\ R \in Sides /\ Mirror(L) = R /\ Mirror(R) = L /\ L # R
  BY DEF Sides, Mirror
<1>2. N \subseteq Int /\ header \notin N /\ null \notin N /\ \A n \in N : n \in sub[n]
      /\ sub[n] \subseteq N
  BY Plain
<1>3. l = t[z][L] /\ r = t[z][R]
  OBVIOUS
<1>301. y = Furthest(t, t[z][R], L) /\ t[z][R] # null /\ t[z][L] # null
  OBVIOUS
<1>302. y = Furthest(t, r, L)
  OBVIOUS
<1> HIDE DEF L, R
<1>31. \A n \in N, s \in Sides : t[n][s] # null =>
            /\ t[n][s] \in N /\ t[n][s] # n /\ t[n][s] # t[n][Mirror(s)]
            /\ t[t[n][s]].parent = n
            /\ t[n][s] \in sub[t[n][s]] /\ sub[t[n][s]] \subseteq sub[n] /\ n \notin sub[t[n][s]]
            /\ Off(s, t[n][s], n)
  BY KidIs
<1>4. /\ l \in N /\ l # z /\ t[l].parent = z /\ l \in sub[l] /\ sub[l] \subseteq sub[z]
         /\ Off(L, l, z)
      /\ r \in N /\ r # z /\ t[r].parent = z /\ r \in sub[r] /\ sub[r] \subseteq sub[z]
         /\ z \notin sub[r]
      /\ l # r
  BY <1>1, <1>3, <1>301, <1>31
<1>5. y \in sub[r] /\ t[y][L] = null /\ ExtremeIs(L, sub[r], y)
  BY <1>1, <1>302, <1>4, FurthestIs
<1>6. ExtremeIs(L, Beyond(R, N, z), y)
  BY <1>1, <1>301, NextBelow
<1>7. y \in N /\ y # z /\ y \in sub[z]
  BY <1>2, <1>4, <1>5
<1>8. \A e \in sub[r] : e # y => y < e
  BY <1>5 DEF ExtremeIs, Off, L
<1>9. z < y /\ \A e \in N : e > z => e = y \/ y < e
  <2>1. y \in Beyond(R, N, z)
    <3>1. \A e \in sub[r] : Off(R, e, z)
      BY <1>1, <1>3, <1>4, <1>2 DEF Linked, KidsFit, Under
    <3> QED
      BY <1>5, <1>7, <3>1 DEF Beyond
  <2>2. \A e \in Beyond(R, N, z) : e = y \/ Off(L, y, e)
    BY <1>6, <2>1 DEF ExtremeIs
  <2>3. \A e \in N : e > z => e \in Beyond(R, N, z)
    BY <1>2, <1>1 DEF Beyond, Off, L, R
  <2> QED
    BY <2>1, <2>2, <2>3, <1>1 DEF Off, Beyond, L, R
<1>10. \A e \in N : e # y /\ e # z => (e < z <=> e < y)
  <2> SUFFICES ASSUME NEW e \in N, e # y, e # z PROVE e < z <=> e < y
    OBVIOUS
  <2>1. e \in Int /\ z \in Int /\ y \in Int
    BY <1>2, <1>7
  <2>2. e > z => y < e
    BY <1>9
  <2> QED
    BY <2>1, <2>2, <1>9
<1>11. t[y].right = t[y][R] /\ t[y].left = t[y][L]
  BY DEF L, R
<1>12. SpliceSite(t, N, sub, z, y, x, R)
  BY <1>1, <1>5, <1>7, <1>9, <1>10, <1>11 DEF SpliceSite
<1>13. SiteFacts(t, N, sub, z, y, x)
  BY <1>12, SiteIs
<1>14. x # y /\ x # z /\ (x # null => x \in N /\ t[x].parent = y) /\ (root(t) = y => z = y)
       /\ (\A n \in N, s \in Sides : t[n][s] = y => p = n)
  BY <1>13 DEF SiteFacts
<1>15. x # null => x \in sub[y] /\ x \in sub[x] /\ sub[x] \subseteq sub[y]
  BY <1>1, <1>7, <1>11, <1>31
<1>16. sub[y] \subseteq sub[r]
  BY <1>4, <1>5, BelowIs DEF BelowFits
<1>17. l \notin sub[r]
  <2>1. l < z
    BY <1>4 DEF Off, L
  <2>2. l \in Int /\ z \in Int /\ y \in Int /\ z < y
    BY <1>2, <1>4, <1>7, <1>9
  <2>3. l # y /\ ~(y < l)
    BY <2>1, <2>2
  <2> QED
    BY <2>3, <1>8
<1>18. y # l /\ x # l
  BY <1>2, <1>4, <1>5, <1>15, <1>16, <1>17
<1>19. x # r
  <2> SUFFICES ASSUME x = r PROVE FALSE
    BY SMTT(30)
  <2>1. r \in sub[x] /\ x # null /\ y \notin sub[x]
    BY SMTT(30), <1>1, <1>2, <1>4, <1>7, <1>11, <1>31
  <2> QED
    BY <2>1, <1>5
<1>20. y = r => p = z
  BY <1>4
<1>21. y # r => p \in N /\ p # z /\ p # y /\ p # l /\ t[p].left = y /\ t[p].right # y
       /\ p \in sub[r]
  <2> SUFFICES ASSUME y # r PROVE p \in N /\ p # z /\ p # y /\ p # l /\ t[p].left = y
      /\ t[p].right # y /\ p \in sub[r]
    OBVIOUS
  <2>1. p \in sub[r]
    BY <1>4, <1>5, BelowIs DEF BelowFits
  <2>2. p \in N /\ p # z /\ p # l
    BY <2>1, <1>2, <1>4, <1>17
  <2>3. PICK s \in Sides : t[p][s] = y /\ t[p][Mirror(s)] # y /\ p # y
    BY <1>7, <1>2, <2>2, ParentIs2
  <2>4. y < p
    BY <1>8, <2>1, <2>3
  <2>5. Off(s, y, p)
    <3>1. t[p][s] # null /\ t[p][s] = y
      BY <1>2, <1>7, <2>3
    <3> HIDE DEF p
    <3>2. Off(s, t[p][s], p)
      BY <3>1, <2>2, <1>31
    <3> QED
      BY <3>1, <3>2
  <2>6. s = L
    <3>1. y \in Int /\ p \in Int
      BY <1>2, <1>7, <2>2
    <3>2. s = "left" \/ s = "right"
      BY DEF Sides
    <3> HIDE DEF p
    <3>3. ~(p < y)
      BY <2>4, <3>1
    <3> QED
      BY <2>5, <3>2, <3>3 DEF Off, L
  <2> QED
    BY <2>1, <2>2, <2>3, <2>6, <1>1 DEF L, R
<1>22. q = header <=> root(t) = z
  BY ParentIs2
<1>23. q # header => q \in N /\ \E s \in Sides : t[q][s] = z /\ t[q][Mirror(s)] # z
  BY ParentIs2
<1>24. q # header => q \notin sub[z]
  <2> SUFFICES ASSUME q # header PROVE q \notin sub[z]
    OBVIOUS
  <2>1. PICK s \in Sides : q \in N /\ t[q][s] = z
    BY <1>23
  <2> QED
    BY <2>1, <1>2, <1>31
<1>25. q # z /\ q # y /\ q # l /\ q # r /\ (q # header => q # x) /\ (y # r => q # p)
  <2>1. z \in sub[z] /\ y \in sub[z] /\ l \in sub[z] /\ r \in sub[z]
    BY <1>2, <1>4, <1>7
  <2>2. x # null => x \in sub[z]
    BY <1>4, <1>5, <1>15, <1>16
  <2>3. y # r => p \in sub[z]
    BY <1>4, <1>21
  <2>4. q # header => q # null
    BY <1>2, <1>23
  <2>5. z # header /\ y # header /\ l # header /\ r # header /\ (y # r => p # header)
    BY <1>2, <1>4, <1>7, <1>21
  <2> HIDE DEF q, l, r, x, p
  <2> QED
    BY <2>1, <2>2, <2>3, <2>4, <2>5, <1>24
<1>26. \A n \in N, s \in Sides : (t[n][s] = z => n = q) /\ (t[n][s] = y => n = p)
  BY <1>2, <1>14, <1>31
<1>27. \A n \in N : t[n].parent = z => n = l \/ n = r
  <2> SUFFICES ASSUME NEW n \in N, t[n].parent = z PROVE n = l \/ n = r
    OBVIOUS
  <2>1. \E s \in Sides : t[z][s] = n
    BY <1>2, ParentIs2
  <2> QED
    BY <2>1, <1>3 DEF Sides, L, R
<1> HIDE DEF root
<1>28. t[z].left = l /\ t[z].right = r /\ t[y].left = null /\ t[y].right = x /\ t[y].parent = p
       /\ t[z].parent = q
  BY <1>5, <1>11
<1> HIDE DEF l, r, x, p, q
<1>29. Exchangeable(t, N, z, y, x, l, r, p, q)
  <2>1. /\ z \in N /\ y \in N /\ l \in N /\ r \in N /\ y # z
        /\ l # z /\ r # z /\ l # r /\ y # l /\ t[l].parent = z /\ t[r].parent = z
        /\ x # z /\ x # l /\ x # y /\ x # r /\ (x # null => x \in N /\ t[x].parent = y)
        /\ root(t) # y
    BY <1>4, <1>7, <1>14, <1>18, <1>19
  <2>2. /\ y = r => p = z
        /\ y # r => p \in N /\ p # z /\ p # y /\ p # l /\ t[p].left = y /\ t[p].right # y
    BY <1>20, <1>21
  <2> QED
    BY <2>1, <2>2, <1>2, <1>22, <1>23, <1>25, <1>26, <1>27, <1>28 DEF Exchangeable
<1> QED
  BY <1>12, <1>29 DEF l, r, x, p, q, R

\* The tree with the children of z below y, before the link from above is changed.
Adopted(t, v, D, z, y, x, l, r, p) ==
    /\ TypedTree(v, D)
    /\ \A m \in D \cup {header} :
        /\ v[m].parent = IF m = l \/ (y # r /\ m = r) THEN y
                         ELSE IF y # r /\ m = x THEN p ELSE t[m].parent
        /\ v[m].left = IF m = y THEN l ELSE IF y # r /\ m = p THEN x ELSE t[m].left
        /\ v[m].right = IF y # r /\ m = y THEN r ELSE t[m].right
        /\ v[m].is_red = t[m].is_red
        /\ v[m].node_count = t[m].node_count

\* The left child, and the right one when it is not y itself.
AdoptLeft(t, y, l) == [t EXCEPT ![l].parent = y, ![y].left = l]
AdoptRight(left, y, x, r, p) ==
    [SetParent(left, x, p) EXCEPT ![p].left = x, ![y].right = r, ![r].parent = y]

\* The successor takes over the left child of z.
LEMMA AdoptLeftIs ==
    ASSUME NEW t, NEW D, TypedTree(t, D), NEW N, N \subseteq D, NEW z, NEW y, NEW x, NEW l,
           NEW r, NEW p, NEW q,
           Exchangeable(t, N, z, y, x, l, r, p, q)
    PROVE  /\ TypedTree(AdoptLeft(t, y, l), D)
           /\ \A m \in D \cup {header}, g \in Fields :
                AdoptLeft(t, y, l)[m][g] =
                    IF g = "parent" /\ m = l THEN y ELSE IF g = "left" /\ m = y THEN l ELSE t[m][g]
<1> DEFINE a1 == Write(t, l, "parent", y)
           a2 == Write(a1, y, "left", l)
<1>1. l \in D /\ y \in D /\ l \in Int /\ y \in Int
  BY DEF Exchangeable
<1>2. "parent" \in Fields /\ "left" \in Fields /\ Fits("parent", y) /\ Fits("left", l)
  BY <1>1 DEF Fields, Fits
<1>3. AdoptLeft(t, y, l) = a2
  BY DEF AdoptLeft, Write
<1>4. Wrote(t, a1, D, l, "parent", y)
  BY <1>1, <1>2, WriteIs
<1> HIDE DEF a1
<1>5. TypedTree(a1, D) /\ \A m \in D \cup {header}, g \in Fields : a1[m][g] = IF m = l
      /\ g = "parent" THEN y ELSE t[m][g]
  BY <1>4 DEF Wrote
<1>6. Wrote(a1, a2, D, y, "left", l)
  BY <1>1, <1>2, <1>5, WriteIs
<1> HIDE DEF a2
<1>7. TypedTree(a2, D) /\ \A m \in D \cup {header}, g \in Fields : a2[m][g] = IF m = y
      /\ g = "left" THEN l ELSE a1[m][g]
  BY <1>6 DEF Wrote
<1>8. \A m \in D \cup {header}, g \in Fields :
        a2[m][g] = IF g = "parent" /\ m = l THEN y ELSE IF g = "left" /\ m = y THEN l ELSE t[m][g]
  BY <1>5, <1>7
<1> QED
  BY <1>3, <1>7, <1>8

\* The successor takes over the children of z.
LEMMA AdoptedIs ==
    ASSUME NEW t, NEW D, TypedTree(t, D), NEW N, N \subseteq D, NEW z, NEW y, NEW x, NEW l,
           NEW r, NEW p, NEW q,
           Exchangeable(t, N, z, y, x, l, r, p, q)
    PROVE  Adopted(t, IF y = r THEN AdoptLeft(t, y, l) ELSE AdoptRight(AdoptLeft(t, y, l), y,
           x, r, p),
                   D, z, y, x, l, r, p)
<1> DEFINE a == AdoptLeft(t, y, l)
<1>1. /\ l \in N /\ y \in N /\ r \in N /\ l # y /\ l # r /\ x # l /\ x # r /\ x # y
      /\ (x # null => x \in N) /\ (y # r => p \in N /\ p # y /\ p # l)
      /\ N \subseteq Int /\ null \notin N /\ header \notin N
  BY DEF Exchangeable
<1>2. TypedTree(a, D) /\ \A m \in D \cup {header}, g \in Fields :
        a[m][g] = IF g = "parent" /\ m = l THEN y ELSE IF g = "left" /\ m = y THEN l ELSE t[m][g]
  BY AdoptLeftIs
<1> HIDE DEF a
<1>3. CASE y = r
  <2>1. \A m \in D \cup {header} :
        /\ a[m].parent = IF m = l THEN y ELSE t[m].parent
        /\ a[m].left = IF m = y THEN l ELSE t[m].left
        /\ a[m].right = t[m].right
        /\ a[m].is_red = t[m].is_red
        /\ a[m].node_count = t[m].node_count
    BY <1>2 DEF Fields
  <2>2. Adopted(t, a, D, z, y, x, l, r, p)
    BY <1>2, <1>3, <2>1 DEF Adopted
  <2> QED
    BY <1>3, <2>2 DEF a
<1>4. CASE y # r
  <2> DEFINE b == SetParent(a, x, p)
             c == Write(b, p, "left", x)
             d == Write(c, y, "right", r)
             e == Write(d, r, "parent", y)
  <2>1. AdoptRight(a, y, x, r, p) = e
    BY DEF AdoptRight, Write
  <2>2. x \in D \cup {null} /\ p \in D /\ p \in Int /\ x \in Int /\ y \in D /\ y \in Int
        /\ r \in D /\ r \in Int
    <3>1. null \in Int
      BY DEF null
    <3> QED
      BY <3>1, <1>1, <1>4
  <2>3. /\ "parent" \in Fields /\ "left" \in Fields /\ "right" \in Fields
        /\ Fits("left", x) /\ Fits("right", r) /\ Fits("parent", y)
    BY <2>2 DEF Fields, Fits
  <2>4. Wrote(a, b, D, x, "parent", p)
    BY <1>2, <2>2, SetParentIs
  <2> HIDE DEF b
  <2>5. TypedTree(b, D) /\ \A m \in D \cup {header}, g \in Fields : b[m][g] = IF m = x
        /\ g = "parent" THEN p ELSE a[m][g]
    BY <2>4 DEF Wrote
  <2>6. Wrote(b, c, D, p, "left", x)
    BY <2>2, <2>3, <2>5, WriteIs
  <2> HIDE DEF c
  <2>7. TypedTree(c, D) /\ \A m \in D \cup {header}, g \in Fields : c[m][g] = IF m = p
        /\ g = "left" THEN x ELSE b[m][g]
    BY <2>6 DEF Wrote
  <2>8. Wrote(c, d, D, y, "right", r)
    BY <2>2, <2>3, <2>7, WriteIs
  <2> HIDE DEF d
  <2>9. TypedTree(d, D) /\ \A m \in D \cup {header}, g \in Fields : d[m][g] = IF m = y
        /\ g = "right" THEN r ELSE c[m][g]
    BY <2>8 DEF Wrote
  <2>10. Wrote(d, e, D, r, "parent", y)
    BY <2>2, <2>3, <2>9, WriteIs
  <2> HIDE DEF e
  <2>11. TypedTree(e, D) /\ \A m \in D \cup {header}, g \in Fields : e[m][g] = IF m = r
         /\ g = "parent" THEN y ELSE d[m][g]
    BY <2>10 DEF Wrote
  <2>12. ASSUME NEW m \in D \cup {header}
         PROVE  /\ e[m].parent = IF m = l \/ m = r THEN y ELSE IF m = x THEN p ELSE t[m].parent
                /\ e[m].left = IF m = y THEN l ELSE IF m = p THEN x ELSE t[m].left
                /\ e[m].right = IF m = y THEN r ELSE t[m].right
                /\ e[m].is_red = t[m].is_red
                /\ e[m].node_count = t[m].node_count
    <3>1. e[m].parent = IF m = r THEN y ELSE b[m].parent
      BY <2>7, <2>9, <2>11 DEF Fields
    <3>2. b[m].parent = IF m = x THEN p ELSE IF m = l THEN y ELSE t[m].parent
      BY <1>2, <2>5 DEF Fields
    <3>3. e[m].left = IF m = p THEN x ELSE IF m = y THEN l ELSE t[m].left
      BY <1>2, <2>5, <2>7, <2>9, <2>11 DEF Fields
    <3>4. e[m].right = IF m = y THEN r ELSE t[m].right
      BY <1>2, <2>5, <2>7, <2>9, <2>11 DEF Fields
    <3>5. e[m].is_red = t[m].is_red /\ e[m].node_count = t[m].node_count
      BY <1>2, <2>5, <2>7, <2>9, <2>11 DEF Fields
    <3> QED
      BY <3>1, <3>2, <3>3, <3>4, <3>5, <1>1, <1>4
  <2>13. Adopted(t, e, D, z, y, x, l, r, p)
    BY <1>4, <2>11, <2>12 DEF Adopted
  <2> QED
    BY <1>4, <2>1, <2>13 DEF a
<1> QED
  BY <1>3, <1>4

\* Erasing a node with two children cuts out its successor, which takes its place and colour.
LEMMA ExchangeIs ==
    ASSUME NEW t, NEW D, TypedTree(t, D), NEW N, N \subseteq D, NEW z, NEW y, NEW x, NEW l,
           NEW r, NEW p, NEW q,
           Exchangeable(t, N, z, y, x, l, r, p, q)
    PROVE  Removed(t, Exchange(t, z, y, x), D, N, z, y, x)
<1> DEFINE v == IF y = r THEN AdoptLeft(t, y, l) ELSE AdoptRight(AdoptLeft(t, y, l), y, x, r, p)
           b == Relink(v, z, y)
           c == Write(b, y, "parent", q)
           d == Write(c, y, "is_red", t[z].is_red)
           u == Write(d, z, "is_red", t[y].is_red)
<1>1. /\ z \in N /\ y \in N /\ l \in N /\ r \in N /\ y # z
      /\ t[z].left = l /\ t[z].right = r /\ t[y].left = null /\ t[y].right = x
      /\ t[y].parent = p /\ t[z].parent = q
      /\ l # z /\ r # z /\ l # r /\ y # l
      /\ x # z /\ x # l /\ x # y /\ x # r /\ (x # null => x \in N /\ t[x].parent = y)
  BY DEF Exchangeable
<1>2. /\ y = r => p = z
      /\ y # r => p \in N /\ p # z /\ p # y /\ p # l /\ t[p].left = y /\ t[p].right # y
      /\ q # z /\ q # y /\ q # l /\ q # r /\ (q # header => q # x) /\ (y # r => q # p)
      /\ q = header <=> root(t) = z
      /\ q # header => q \in N /\ \E s \in Sides : t[q][s] = z /\ t[q][Mirror(s)] # z
      /\ root(t) # y
  BY DEF Exchangeable
<1>3. /\ \A n \in N, s \in Sides : (t[n][s] = z => n = q) /\ (t[n][s] = y => n = p)
      /\ \A n \in N : t[n].parent = z => n = l \/ n = r
      /\ header \notin N /\ null \notin N /\ N \subseteq Int
  BY DEF Exchangeable
<1>4. Adopted(t, v, D, z, y, x, l, r, p)
  BY AdoptedIs
<1>5. Exchange(t, z, y, x) = u
  <2>1. Exchange(t, z, y, x) = [Relink(v, z, y) EXCEPT ![y].parent = q, ![y].is_red = t[z].is_red,
                                                       ![z].is_red = t[y].is_red]
    BY <1>1 DEF Exchange, AdoptLeft, AdoptRight
  <2> HIDE DEF v
  <2> QED
    BY <2>1 DEF Write
<1> HIDE DEF v
<1>6. /\ TypedTree(v, D)
      /\ \A m \in D \cup {header} :
        /\ v[m].parent = IF m = l \/ (y # r /\ m = r) THEN y
                         ELSE IF y # r /\ m = x THEN p ELSE t[m].parent
        /\ v[m].left = IF m = y THEN l ELSE IF y # r /\ m = p THEN x ELSE t[m].left
        /\ v[m].right = IF y # r /\ m = y THEN r ELSE t[m].right
        /\ v[m].is_red = t[m].is_red
        /\ v[m].node_count = t[m].node_count
  BY <1>4 DEF Adopted
<1>7. y \in D /\ z \in D /\ y \in Int /\ q \in Int /\ t[z].is_red \in BOOLEAN
      /\ t[y].is_red \in BOOLEAN
  BY <1>1, <1>3, FieldTypes
<1>8. v[z].parent = q /\ root(v) = root(t)
  <2>1. header \notin {l, r, x}
    BY <1>1, <1>3, ValuesAre
  <2> QED
    BY <2>1, <1>1, <1>6, <1>7 DEF root
<1>9. \A s \in Sides : q # header => v[q][s] = t[q][s]
  <2>1. q # header => q \in D /\ q # y /\ (y # r => q # p)
    BY <1>2
  <2> QED
    BY <2>1, <1>6 DEF Sides
<1>10. Hangs(v, D, z)
  <2>1. q # header => q \in D /\ \E s \in Sides : v[q][s] = z /\ v[q][Mirror(s)] # z
    BY <1>2, <1>9, MirrorIs
  <2> QED
    BY <2>1, <1>2, <1>8 DEF Hangs
<1>11. Relinked(v, b, D, z, y)
  BY <1>6, <1>7, <1>10, RelinkIs
<1> HIDE DEF b
<1>12. TypedTree(b, D)
       /\ \A m \in D \cup {header}, g \in Fields :
            b[m][g] = IF q = header
                      THEN IF m = header /\ g = "parent" THEN y ELSE v[m][g]
                      ELSE IF m = q /\ g \in Sides /\ v[q][g] = z THEN y
                      ELSE v[m][g]
  BY <1>8, <1>11 DEF Relinked
<1>13. "parent" \in Fields /\ "is_red" \in Fields /\ Fits("parent", q)
       /\ Fits("is_red", t[z].is_red) /\ Fits("is_red", t[y].is_red)
  BY <1>7 DEF Fields, Fits
<1>14. Wrote(b, c, D, y, "parent", q)
  BY <1>7, <1>12, <1>13, WriteIs
<1> HIDE DEF c
<1>15. TypedTree(c, D) /\ \A m \in D \cup {header}, g \in Fields : c[m][g] = IF m = y
       /\ g = "parent" THEN q ELSE b[m][g]
  BY <1>14 DEF Wrote
<1>16. Wrote(c, d, D, y, "is_red", t[z].is_red)
  BY <1>7, <1>13, <1>15, WriteIs
<1> HIDE DEF d
<1>17. TypedTree(d, D) /\ \A m \in D \cup {header}, g \in Fields : d[m][g] = IF m = y
       /\ g = "is_red" THEN t[z].is_red ELSE c[m][g]
  BY <1>16 DEF Wrote
<1>18. Wrote(d, u, D, z, "is_red", t[y].is_red)
  BY <1>7, <1>13, <1>17, WriteIs
<1> HIDE DEF u
<1>19. TypedTree(u, D) /\ \A m \in D \cup {header}, g \in Fields : u[m][g] = IF m = z
       /\ g = "is_red" THEN t[y].is_red ELSE d[m][g]
  BY <1>18 DEF Wrote
<1>20. ASSUME NEW m \in D \cup {header}
       PROVE  /\ u[m].parent = IF m = y THEN q ELSE IF m = header
                 /\ q = header THEN y ELSE v[m].parent
              /\ m # z => u[m].is_red = IF m = y THEN t[z].is_red ELSE t[m].is_red
              /\ u[m].node_count = t[m].node_count
              /\ \A s \in Sides : u[m][s] = IF q # header /\ m = q
                 /\ t[q][s] = z THEN y ELSE v[m][s]
  <2>1. \A g \in Fields : g # "is_red" => u[m][g] = c[m][g]
    BY <1>17, <1>19
  <2>2. u[m].parent = IF m = y THEN q ELSE b[m].parent
    BY <2>1, <1>13, <1>15
  <2>3. b[m].parent = IF m = header /\ q = header THEN y ELSE v[m].parent
    BY <1>12, <1>13 DEF Sides
  <2>4. m # z => u[m].is_red = IF m = y THEN t[z].is_red ELSE b[m].is_red
    BY <1>13, <1>15, <1>17, <1>19
  <2>5. b[m].is_red = v[m].is_red
    BY <1>12, <1>13 DEF Sides
  <2>6. "node_count" \in Fields /\ "node_count" \notin Sides /\ "node_count" # "is_red"
        /\ "node_count" # "parent"
    BY DEF Fields, Sides
  <2>7. u[m].node_count = v[m].node_count
    BY <2>1, <2>6, <1>12, <1>15
  <2>8. \A s \in Sides : s \in Fields /\ s # "is_red" /\ s # "parent"
    BY DEF Fields, Sides
  <2>9. \A s \in Sides : u[m][s] = b[m][s]
    BY <2>1, <2>8, <1>15
  <2>10. \A s \in Sides : u[m][s] = IF q # header /\ m = q /\ t[q][s] = z THEN y ELSE v[m][s]
    BY <2>8, <2>9, <1>9, <1>12
  <2> QED
    BY <2>2, <2>3, <2>4, <2>5, <2>7, <2>10, <1>6
<1>21. \A m \in D \cup {header} : v[m]["left"] = v[m].left /\ v[m]["right"] = v[m].right
  OBVIOUS
<1> DEFINE Led(k) == Renamed(CutLink(k, y, x), z, y)
<1>22. /\ Led(l) = l /\ Led(r) = (IF y = r THEN x ELSE r) /\ Led(y) = x /\ Led(z) = y
       /\ \A k : k # y /\ k # z => Led(k) = k
  BY <1>1 DEF Renamed, CutLink
<1> HIDE DEF Led
<1>23. ASSUME NEW m \in N, m # z, m # y, NEW s \in Sides PROVE u[m][s] = Led(t[m][s])
  <2>1. u[m][s] = IF q # header /\ m = q /\ t[q][s] = z THEN y ELSE v[m][s]
    BY <1>20
  <2>2. CASE t[m][s] = z
    <3>1. m = q /\ q # header
      BY <1>3, <2>2
    <3> QED
      BY <2>1, <2>2, <3>1, <1>22
  <2>3. CASE t[m][s] = y
    <3>1. m = p /\ y # r
      BY <1>2, <1>3, <1>23, <2>3
    <3>2. s = "left"
      BY <3>1, <2>3, <1>2 DEF Sides
    <3>3. v[m][s] = x
      BY <3>1, <3>2, <1>6, <1>23
    <3> QED
      BY <2>1, <2>3, <3>3, <1>1, <1>22
  <2>4. CASE t[m][s] # z /\ t[m][s] # y
    <3>1. v[m][s] = t[m][s]
      <4>1. s = "left" => ~(y # r /\ m = p)
        BY <2>4, <1>2
      <4>2. CASE s = "left"
        BY <4>1, <4>2, <1>6, <1>23
      <4>3. CASE s = "right"
        BY <4>3, <1>6, <1>23
      <4> QED
        BY <4>2, <4>3 DEF Sides
    <3> QED
      BY <2>1, <2>4, <3>1, <1>22
  <2> QED
    BY <2>2, <2>3, <2>4
<1>24. \A s \in Sides : u[y][s] = Led(t[z][s])
  <2>1. \A s \in Sides : u[y][s] = v[y][s]
    BY <1>2, <1>7, <1>20
  <2>2. v[y]["left"] = l /\ v[y]["right"] = IF y = r THEN x ELSE r
    BY <1>1, <1>6, <1>7
  <2>3. \A s \in Sides : s = "left" \/ s = "right"
    BY DEF Sides
  <2>4. t[z]["left"] = l /\ t[z]["right"] = r
    BY <1>1
  <2> QED
    BY <2>1, <2>2, <2>3, <2>4, <1>22
<1>25. ASSUME NEW m \in N, m # z, m # y, m # x PROVE u[m].parent = Renamed(t[m].parent, z, y)
  <2>1. m # header
    BY <1>3
  <2>2. u[m].parent = v[m].parent
    BY <2>1, <1>20, <1>25
  <2>3. v[m].parent = IF m = l \/ (y # r /\ m = r) THEN y ELSE t[m].parent
    BY <1>6, <1>25
  <2>4. t[m].parent = z => m = l \/ m = r
    BY <1>3
  <2>5. CASE m = l \/ m = r
    <3>1. (m = r => y # r) /\ (y # r => t[r].parent = z) /\ t[l].parent = z
      <4>1. t[l].parent = z /\ t[r].parent = z
        BY DEF Exchangeable
      <4> QED
        BY <4>1, <1>25
    <3> QED
      BY <2>2, <2>3, <2>5, <3>1, <1>25 DEF Renamed
  <2>6. CASE m # l /\ m # r
    BY <2>2, <2>3, <2>4, <2>6 DEF Renamed
  <2> QED
    BY <2>5, <2>6
<1>26. x # null => u[x].parent = Renamed(p, z, y)
  <2> SUFFICES ASSUME x # null PROVE u[x].parent = Renamed(p, z, y)
    OBVIOUS
  <2>1. x \in N /\ x # header /\ x \in D
    BY <1>1, <1>3
  <2>2. u[x].parent = v[x].parent
    BY <2>1, <1>1, <1>20
  <2>3. v[x].parent = IF y # r THEN p ELSE t[x].parent
    BY <2>1, <1>1, <1>6
  <2>4. CASE y = r
    BY <2>2, <2>3, <2>4, <1>1, <1>2 DEF Renamed
  <2>5. CASE y # r
    BY <2>2, <2>3, <2>5, <1>2 DEF Renamed
  <2> QED
    BY <2>4, <2>5
<1>27. u[y].parent = q /\ q = Renamed(q, z, y)
  BY <1>2, <1>7, <1>20 DEF Renamed
<1>28. root(u) = Led(root(t))
  <2> DEFINE top == root(t)
  <2>1. u[header].parent = IF q = header THEN y ELSE top
    <3>1. header # y /\ header \in D \cup {header}
      BY <1>1, <1>3
    <3>2. v[header].parent = top
      BY <1>8 DEF root
    <3> HIDE DEF top
    <3> QED
      BY <3>1, <3>2, <1>20
  <2>2. (q = header <=> top = z) /\ top # y
    BY <1>2
  <2>3. root(u) = u[header].parent
    BY DEF root
  <2> HIDE DEF top
  <2>4. root(u) = Led(top)
    BY <2>1, <2>2, <2>3, <1>22
  <2> QED
    BY <2>4 DEF top
<1>29. ASSUME NEW m \in N \ {z}
       PROVE  /\ \A s \in Sides : u[m][s] = Led(t[Origin(m, z, y)][s])
              /\ u[m].parent = Renamed(t[IF m = x THEN y ELSE Origin(m, z, y)].parent, z, y)
              /\ u[m].is_red = t[Origin(m, z, y)].is_red
              /\ u[m].node_count = t[m].node_count
  <2>0. m \in D \cup {header}
    OBVIOUS
  <2>1. CASE m = y
    <3>1. Origin(m, z, y) = z /\ m # x
      BY <2>1, <1>1 DEF Origin
    <3>2. u[m].is_red = t[z].is_red /\ u[m].node_count = t[m].node_count
      BY <2>0, <2>1, <1>1, <1>20
    <3> QED
      BY <3>1, <3>2, <2>1, <1>1, <1>24, <1>27
  <2>2. CASE m # y
    <3>1. Origin(m, z, y) = m
      BY <2>2 DEF Origin
    <3>2. u[m].is_red = t[m].is_red /\ u[m].node_count = t[m].node_count
      BY <2>0, <2>2, <1>20
    <3>3. \A s \in Sides : u[m][s] = Led(t[m][s])
      BY <2>2, <1>23
    <3>4. m = x => x # null
      BY <1>3
    <3>5. u[m].parent = Renamed(t[IF m = x THEN y ELSE m].parent, z, y)
      BY <3>4, <2>2, <1>1, <1>25, <1>26
    <3> QED
      BY <3>1, <3>2, <3>3, <3>5
  <2> QED
    BY <2>1, <2>2
<1>30. Spliced(t, u, N, z, y, x)
  BY <1>28, <1>29 DEF Spliced, Led
<1>31. HeaderKept(t, u)
  <2>1. header \in D \cup {header} /\ header # y /\ header # z /\ (q # header => header # q)
        /\ (y # r => header # p)
    BY <1>1, <1>2, <1>3
  <2>2. u[header].is_red = t[header].is_red /\ u[header].node_count = t[header].node_count
    BY <2>1, <1>20
  <2>3. \A s \in Sides : u[header][s] = v[header][s]
    BY <2>1, <1>20
  <2>4. u[header].left = v[header].left /\ u[header].right = v[header].right
    BY <2>3 DEF Sides
  <2>5. v[header].left = t[header].left /\ v[header].right = t[header].right
    BY <2>1, <1>6
  <2> QED
    BY <2>2, <2>4, <2>5 DEF HeaderKept
<1>32. Removed(t, u, D, N, z, y, x)
  BY <1>19, <1>30, <1>31 DEF Removed
<1> QED
  BY <1>5, <1>32

\* Colours and heights read nothing but links and colours.
LEMMA SameColours ==
    ASSUME NEW t, NEW N, NEW sub, Linked(t, N, sub), NEW u, SameLinks(t, u, N),
           \A n \in N : u[n].is_red = t[n].is_red
    PROVE  /\ \A bh : RedBlack(t, N, sub, bh) => RedBlack(u, N, sub, bh)
           /\ \A bh, x, p : Thinned(t, N, bh, x, p) => Thinned(u, N, bh, x, p)
<1>1. root(u) = root(t) /\ \A n \in N, s \in Sides : u[n][s] = t[n][s]
  BY DEF SameLinks
<1>2. \A n \in N, s \in Sides : t[n][s] # null => t[n][s] \in N
  BY KidIs
<1>3. \A n \in N, s \in Sides : \A A, B : PairAt(t, n, s, A, B) => PairAt(u, n, s, A, B)
  BY <1>1, <1>2 DEF PairAt
<1>4. \A n \in N : Black(u, n) = Black(t, n)
  BY DEF Black
<1>5. \A bh : Level(t, N, bh) => Level(u, N, bh)
  BY <1>1, <1>4 DEF Level
<1>6. \A bh, n, p, d : n \in N /\ HeightAt(t, bh, n, p, d) => HeightAt(u, bh, n, p, d)
  BY <1>1, <1>4 DEF HeightAt
<1>7. N # {} => root(t) \in N
  BY DEF Linked, RootFits
<1> HIDE DEF root
<1>8. N # {} /\ ~t[root(t)].is_red => ~u[root(u)].is_red
  BY <1>1, <1>7
<1>9. ASSUME NEW bh, RedBlack(t, N, sub, bh) PROVE RedBlack(u, N, sub, bh)
  BY <1>3, <1>5, <1>8, <1>9 DEF RedBlack
<1>10. ASSUME NEW bh, NEW x, NEW p, Thinned(t, N, bh, x, p) PROVE Thinned(u, N, bh, x, p)
  <2>1. CASE Evened(t, N, bh, x)
    <3>1. Evened(u, N, bh, x)
      BY <2>1, <1>1, <1>3, <1>5 DEF Evened
    <3> QED
      BY <3>1 DEF Thinned
  <2>2. CASE \E d \in Sides : Lowered(t, N, bh, x, p, d)
    <3>1. PICK d \in Sides : Lowered(t, N, bh, x, p, d)
      BY <2>2
    <3>2. Lowered(u, N, bh, x, p, d)
      BY <3>1, <1>1, <1>3, <1>6, <1>8 DEF Lowered
    <3> QED
      BY <3>2 DEF Thinned
  <2> QED
    BY <1>10, <2>1, <2>2 DEF Thinned
<1> QED
  BY <1>9, <1>10

\* The end of eraseNode: counts, then colours.
Finished(t, v, y, x, p) ==
    IF t[y].is_red THEN updateNodeCountToTop(v, p)
    ELSE eraseNodeFixup(updateNodeCountToTop(v, p), x, p)

\* Counting and colouring after the cut leave a red-black tree without z.
LEMMA FinishedIs ==
    ASSUME NEW t, NEW N, NEW sub, Shape(t, N, N, sub), NEW bh, RedBlack(t, N, sub, bh),
           NEW z, NEW y, NEW x, NEW s, SpliceSite(t, N, sub, z, y, x, s),
           NEW v, Removed(t, v, N, N, z, y, x),
           NEW p, p = Renamed(t[y].parent, z, y)
    PROVE  /\ HeaderKept(t, Finished(t, v, y, x, p))
           /\ \E sub2, bh2 : /\ Shape(Finished(t, v, y, x, p), N, N \ {z}, sub2)
                             /\ RedBlack(Finished(t, v, y, x, p), N \ {z}, sub2, bh2)
<1> DEFINE M == N \ {z}
           sub2 == SplicedSub(sub, N, z, y)
           bh2 == SplicedHeights(bh, N, z, y)
           c == updateNodeCountToTop(v, p)
<1>1. TypedTree(t, N) /\ Linked(t, N, sub) /\ \A n \in N : Counted(t, sub, n)
  BY DEF Shape
<1>2. TypedTree(v, N) /\ HeaderKept(t, v) /\ Spliced(t, v, N, z, y, x)
  BY DEF Removed
<1>3. Linked(v, M, sub2)
  BY <1>1, <1>2, SplicedLinked
<1>4. p \in M \cup {header} /\ CountedBut(v, M, sub2, p)
  BY <1>1, <1>2, SplicedCounts
<1>5. IF t[y].is_red THEN RedBlack(v, M, sub2, bh2) ELSE Thinned(v, M, bh2, x, p)
  BY <1>1, <1>2, <1>3, SplicedColours
<1>6. x \in M \cup {null}
  <2>1. SiteFacts(t, N, sub, z, y, x)
    BY <1>1, SiteIs
  <2> QED
    BY <2>1 DEF SiteFacts
<1>61. M \subseteq N
  OBVIOUS
<1> HIDE DEF M, sub2, bh2
<1>7. SameButCounts(v, c, N) /\ \A m \in M : Counted(c, sub2, m)
  BY <1>2, <1>3, <1>4, <1>61, CountToTopIs
<1>71. Finished(t, v, y, x, p) = IF t[y].is_red THEN c ELSE eraseNodeFixup(c, x, p)
  BY DEF Finished
<1> HIDE DEF c
<1>8. SameLinks(v, c, M) /\ HeaderKept(v, c) /\ \A m \in N \cup {header} : c[m].is_red = v[m].is_red
  BY <1>7, <1>61, SameButCountsKeeps
<1>9. Linked(c, M, sub2) /\ TypedTree(c, N)
  BY <1>3, <1>7, <1>8, SameLinked DEF SameButCounts
<1>10. Shape(c, N, M, sub2)
  BY <1>7, <1>9, <1>61 DEF Shape
<1>101. \A m \in M : c[m].is_red = v[m].is_red
  BY <1>8, <1>61
<1>11. /\ RedBlack(v, M, sub2, bh2) => RedBlack(c, M, sub2, bh2)
       /\ Thinned(v, M, bh2, x, p) => Thinned(c, M, bh2, x, p)
  BY <1>3, <1>8, <1>101, SameColours
<1>12. HeaderKept(t, c)
  BY <1>2, <1>8, HeaderKeptTwice
<1>13. CASE t[y].is_red
  BY <1>5, <1>10, <1>11, <1>12, <1>13, <1>71 DEF M
<1>14. CASE ~t[y].is_red
  <2> DEFINE u == eraseNodeFixup(c, x, p)
  <2>1. Thinned(c, M, bh2, x, p)
    BY <1>5, <1>11, <1>14
  <2>2. HeaderKept(c, u) /\ \E sub3, bh3 : Shape(u, N, M, sub3) /\ RedBlack(u, M, sub3, bh3)
    BY <1>6, <1>10, <2>1, EraseFixupIs
  <2> HIDE DEF u
  <2>3. HeaderKept(t, u)
    BY <1>12, <2>2, HeaderKeptTwice
  <2>4. Finished(t, v, y, x, p) = u
    BY <1>14, <1>71 DEF u
  <2> QED
    BY <2>2, <2>3, <2>4 DEF M
<1> QED
  BY <1>13, <1>14

\* The header knows the ends of the set without z, the nodes are untouched.
Ended(t, u, N, z) ==
    /\ TypedTree(u, N)
    /\ SameOn(t, u, N)
    /\ u[header].is_red = t[header].is_red
    /\ u[header].node_count = t[header].node_count
    /\ ExtremeIs("left", N \ {z}, u[header].left)
    /\ ExtremeIs("right", N \ {z}, u[header].right)

\* A new end in the header changes no node.
LEMMA EndWritten ==
    ASSUME NEW t, NEW N, TypedTree(t, N), NEW s \in Sides, NEW a \in Int
    PROVE  LET u == Write(t, header, s, a)
           IN  /\ TypedTree(u, N) /\ SameOn(t, u, N)
               /\ u[header].is_red = t[header].is_red
               /\ u[header].node_count = t[header].node_count
               /\ u[header][s] = a /\ u[header][Mirror(s)] = t[header][Mirror(s)]
<1> DEFINE h == header
           u == Write(t, h, s, a)
<1>1. s \in Fields /\ Fits(s, a) /\ h \in N \cup {header} /\ s # "is_red" /\ s # "node_count"
      /\ s # "parent"
      /\ Mirror(s) \in Fields /\ Mirror(s) # s
  BY DEF Sides, Fields, Fits, Mirror
<1>2. header \notin N
  BY ValuesAre DEF TypedTree
<1> HIDE DEF h
<1>3. Wrote(t, u, N, h, s, a)
  BY <1>1, WriteIs
<1>31. \A n \in N : u[n] = t[n]
  BY <1>1, <1>2 DEF Write, h, TypedTree
<1> HIDE DEF u
<1>4. TypedTree(u, N) /\ \A m \in N \cup {header}, g \in Fields : u[m][g] = IF m = h
      /\ g = s THEN a ELSE t[m][g]
  BY <1>3 DEF Wrote
<1>5. u[h].is_red = t[h].is_red /\ u[h].node_count = t[h].node_count /\ u[h].parent = t[h].parent
      /\ u[h][s] = a /\ u[h][Mirror(s)] = t[h][Mirror(s)]
  BY <1>1, <1>4 DEF Fields
<1>6. SameOn(t, u, N)
  BY <1>31, <1>5 DEF SameOn, root, h
<1> QED
  BY <1>4, <1>5, <1>6 DEF u, h

\* EndsWithout gives the header the ends of the set without z.
LEMMA EndsIs ==
    ASSUME NEW t, NEW N, SetOk(t, N), NEW z \in N
    PROVE  Ended(t, EndsWithout(t, z), N, z)
<1> DEFINE M == N \ {z}
           L == "left"
           R == "right"
           h == header
<1>1. /\ Headed(t[header], N)
      /\ TypedTree(t, N) /\ IsFiniteSet(N) /\ N \subseteq Int /\ header \notin N
  BY SetIs
<1>2. PICK sub, bh : Shape(t, N, N, sub) /\ RedBlack(t, N, sub, bh)
  BY SetIs
<1>3. Linked(t, N, sub) /\ ~t[root(t)].is_red
  BY <1>2 DEF Shape, RedBlack
<1>4. /\ t[h].node_count = Cardinality(N)
      /\ ExtremeIs(L, N, t[h][L]) /\ ExtremeIs(R, N, t[h][R])
      /\ t[h].left = t[h][L] /\ t[h].right = t[h][R]
  BY <1>1 DEF Headed
<1>5. L \in Sides /\ R \in Sides /\ Mirror(L) = R /\ Mirror(R) = L
  BY DEF Sides, Mirror
<1>6. /\ \A a, b : Off(L, a, b) <=> a < b
      /\ \A a, b : Off(R, a, b) <=> b < a
  BY DEF Off
<1>61. \A a : Write(t, h, L, a) = [t EXCEPT ![header].left = a]
       /\ Write(t, h, R, a) = [t EXCEPT ![header].right = a]
  BY DEF Write
<1>62. header \in Int /\ z \in Int
  BY <1>1 DEF header
<1> HIDE DEF h, L, R
<1>7. CASE Cardinality(N) = 1
  <2>1. N = {z}
    <3>1. PICK e : N = {e}
      BY <1>1, <1>7, FS_Singleton
    <3> QED
      BY <3>1
  <2> DEFINE u1 == Write(t, h, L, h)
             u2 == Write(u1, h, R, h)
  <2>2. EndsWithout(t, z) = u2
    BY <1>4, <1>7 DEF EndsWithout, Write, h, L, R
  <2>3. /\ TypedTree(u1, N) /\ SameOn(t, u1, N)
        /\ u1[h].is_red = t[h].is_red
        /\ u1[h].node_count = t[h].node_count
        /\ u1[h][L] = h
    BY <1>1, <1>5, <1>62, EndWritten DEF h
  <2> HIDE DEF u1
  <2>4. /\ TypedTree(u2, N) /\ SameOn(u1, u2, N)
        /\ u2[h].is_red = u1[h].is_red
        /\ u2[h].node_count = u1[h].node_count
        /\ u2[h][R] = h /\ u2[h][Mirror(R)] = u1[h][Mirror(R)]
    BY <2>3, <1>5, <1>62, EndWritten DEF h
  <2> HIDE DEF u2
  <2>5. SameOn(t, u2, N)
    BY <2>3, <2>4 DEF SameOn
  <2>6. u2[h].left = h /\ u2[h].right = h
    BY <2>3, <2>4, <1>5 DEF L, R
  <2>7. ExtremeIs("left", N \ {z}, h) /\ ExtremeIs("right", N \ {z}, h)
    BY <2>1 DEF ExtremeIs, h
  <2>8. Ended(t, u2, N, z)
    BY <2>3, <2>4, <2>5, <2>6, <2>7 DEF Ended, h
  <2> QED
    BY <2>2, <2>8
<1>8. CASE Cardinality(N) # 1
  <2>1. N # {z}
    BY <1>8, FS_Singleton
  <2>2. PICK f \in M : TRUE
    BY <2>1
  <2>3. \A s \in Sides : \A a : ExtremeIs(s, N, a) => a \in N /\ \A e \in N : e = a \/ Off(s, a, e)
    BY DEF ExtremeIs
  <2>4. ASSUME NEW s \in Sides, NEW a, ExtremeIs(s, N, a), a # z PROVE ExtremeIs(s, M, a)
    BY <2>2, <2>3, <2>4 DEF ExtremeIs
  <2>5. ~(ExtremeIs(L, N, z) /\ ExtremeIs(R, N, z))
    <3> SUFFICES ASSUME ExtremeIs(L, N, z), ExtremeIs(R, N, z) PROVE FALSE
      OBVIOUS
    <3>1. Off(L, z, f) /\ Off(R, z, f)
      BY <1>5, <2>2, <2>3
    <3>2. f \in Int /\ z \in Int
      BY <1>1, <2>2
    <3> QED
      BY <3>1, <3>2, <1>6
  <2>6. CASE t[h][L] = z
    <3> DEFINE a == increment(t, z)
               u == Write(t, h, L, a)
    <3>1. ExtremeIs(L, Beyond(R, N, z), a)
      BY <1>1, <1>3, IncrementIs DEF L, R
    <3>2. Beyond(R, N, z) = M
      <4>1. \A e \in N : e = z \/ z < e
        BY <1>4, <1>5, <1>6, <2>3, <2>6
      <4>2. ~(z < z)
        BY <1>62
      <4>3. \A e \in N : e # z <=> Off(R, e, z)
        BY <4>1, <4>2, <1>6
      <4> QED
        BY <4>3 DEF Beyond
    <3>3. ExtremeIs(L, M, a) /\ a \in Int
      BY <3>1, <3>2, <2>2, <1>1 DEF ExtremeIs
    <3>4. EndsWithout(t, z) = u
      BY <1>4, <1>8, <1>61, <2>6 DEF EndsWithout, h
    <3> HIDE DEF a
    <3>5. /\ TypedTree(u, N) /\ SameOn(t, u, N)
          /\ u[h].is_red = t[h].is_red
          /\ u[h].node_count = t[h].node_count
          /\ u[h][L] = a /\ u[h][R] = t[h][R]
      BY SMTT(30), <3>3, <1>1, <1>5, EndWritten DEF h
    <3> HIDE DEF u
    <3>6. ExtremeIs(R, M, t[h][R])
      BY <1>4, <1>5, <2>4, <2>5, <2>6
    <3>7. u[h].left = a /\ u[h].right = t[h][R]
      BY <3>5 DEF L, R
    <3>8. Ended(t, u, N, z)
      BY <3>3, <3>5, <3>6, <3>7 DEF Ended, h, L, R
    <3> QED
      BY <3>4, <3>8
  <2>7. CASE t[h][L] # z /\ t[h][R] = z
    <3> DEFINE a == decrement(t, z)
               u == Write(t, h, R, a)
    <3>1. ExtremeIs(R, Beyond(L, N, z), a)
      BY <1>1, <1>3, DecrementIs DEF L, R
    <3>2. Beyond(L, N, z) = M
      <4>1. \A e \in N : e = z \/ e < z
        BY <1>4, <1>5, <1>6, <2>3, <2>7
      <4>2. ~(z < z)
        BY <1>62
      <4>3. \A e \in N : e # z <=> Off(L, e, z)
        BY <4>1, <4>2, <1>6
      <4> QED
        BY <4>3 DEF Beyond
    <3>3. ExtremeIs(R, M, a) /\ a \in Int
      BY <3>1, <3>2, <2>2, <1>1 DEF ExtremeIs
    <3>4. EndsWithout(t, z) = u
      BY <1>4, <1>8, <1>61, <2>7 DEF EndsWithout, h
    <3> HIDE DEF a
    <3>5. /\ TypedTree(u, N) /\ SameOn(t, u, N)
          /\ u[h].is_red = t[h].is_red
          /\ u[h].node_count = t[h].node_count
          /\ u[h][R] = a /\ u[h][L] = t[h][L]
      BY SMTT(30), <3>3, <1>1, <1>5, EndWritten DEF h
    <3> HIDE DEF u
    <3>6. ExtremeIs(L, M, t[h][L])
      BY <1>4, <1>5, <2>4, <2>7
    <3>7. u[h].left = t[h][L] /\ u[h].right = a
      BY <3>5 DEF L, R
    <3>8. Ended(t, u, N, z)
      BY <3>3, <3>5, <3>6, <3>7 DEF Ended, h, L, R
    <3> QED
      BY <3>4, <3>8
  <2>8. CASE t[h][L] # z /\ t[h][R] # z
    <3>1. EndsWithout(t, z) = t
      BY <1>4, <1>8, <2>8 DEF EndsWithout, h
    <3>2. ExtremeIs(L, M, t[h][L]) /\ ExtremeIs(R, M, t[h][R])
      BY <1>4, <1>5, <2>4, <2>8
    <3>3. SameOn(t, t, N)
      BY DEF SameOn
    <3>4. Ended(t, t, N, z)
      BY <3>2, <3>3, <1>1, <1>4 DEF Ended, h, L, R
    <3> QED
      BY <3>1, <3>4
  <2> QED
    BY <2>6, <2>7, <2>8
<1> QED
  BY <1>7, <1>8

\* z leaves the tree, and the header counts one element less.
Dropped(t, u, z) ==
    [n \in DOMAIN t \ {z} |->
        IF n = header THEN [u[header] EXCEPT !.node_count = @ - 1] ELSE u[n]]

\* Without the node z the rest is a sound set.
LEMMA DroppedIs ==
    ASSUME NEW t, NEW N, TypedTree(t, N), NEW z \in N, NEW u, HeaderKept(t, u),
           NEW sub, NEW bh, Shape(u, N, N \ {z}, sub), RedBlack(u, N \ {z}, sub, bh),
           t[header].is_red, t[header].node_count = Cardinality(N),
           ExtremeIs("left", N \ {z}, t[header].left), ExtremeIs("right", N \ {z}, t[header].right)
    PROVE  SetOk(Dropped(t, u, z), N \ {z})
<1> DEFINE M == N \ {z}
           r == Dropped(t, u, z)
           h == [u[header] EXCEPT !.node_count = @ - 1]
<1>1. /\ DOMAIN t = N \cup {header} /\ N \subseteq Values /\ header \notin N
      /\ TypedTree(u, N) /\ u \in [N \cup {header} -> TreeNode]
      /\ Linked(u, M, sub) /\ \A n \in M : Counted(u, sub, n)
  BY ValuesAre DEF TypedTree, Shape
<1>2. u[header] \in TreeNode
  BY <1>1
<1>3. h \in TreeNode /\ h.parent = root(u) /\ h.is_red = u[header].is_red
      /\ h.left = u[header].left /\ h.right = u[header].right
         /\ h.node_count = u[header].node_count - 1
  BY <1>2 DEF TreeNode, root
<1>4. r = [n \in M \cup {header} |-> IF n = header THEN h ELSE u[n]]
  <2>1. DOMAIN t \ {z} = M \cup {header}
    BY <1>1
  <2> HIDE DEF M
  <2> QED
    BY <2>1 DEF Dropped
<1> HIDE DEF h, r
<1>5. r[header] = h /\ \A n \in M : r[n] = u[n]
  BY <1>1, <1>4
<1>6. TypedTree(r, M)
  <2>1. \A n \in M : u[n] \in TreeNode
    BY <1>1
  <2> QED
    BY <2>1, <1>1, <1>3, <1>4 DEF TypedTree
<1>7. SameOn(u, r, M)
  BY <1>3, <1>5 DEF SameOn, root
<1> HIDE DEF M
<1>8. Shape(r, M, M, sub) /\ RedBlack(r, M, sub, bh)
  <2>1. M \subseteq M
    OBVIOUS
  <2> QED
    BY <2>1, <1>1, <1>6, <1>7, SameOnIs DEF M
<1>9. Headed(r[header], M)
  <2>1. Cardinality(M) = Cardinality(N) - 1
    <3>1. IsFiniteSet(N)
      <4>1. IsFiniteSet(Values)
        BY SetAssumption, FS_Interval DEF Values
      <4> QED
        BY <4>1, <1>1, FS_Subset
    <3> QED
      BY <3>1, FS_RemoveElement DEF M
  <2> QED
    BY <2>1, <1>3, <1>5 DEF Headed, HeaderKept, M
<1>10. SetOk(r, M)
  BY <1>8, <1>9 DEF SetOk
<1> QED
  BY <1>10 DEF r, M

\* eraseNode leaves a sound set without z.
LEMMA EraseIs ==
    ASSUME NEW tr, NEW N, SetOk(tr, N), NEW z \in N
    PROVE  SetOk(eraseNode(tr, z), N \ {z})
<1> DEFINE t == EndsWithout(tr, z)
           both == t[z].left # null /\ t[z].right # null
           y == IF both THEN Furthest(t, t[z].right, "left") ELSE z
           x == IF t[y].left = null THEN t[y].right ELSE t[y].left
           p == IF both /\ y = t[z].right THEN y ELSE t[y].parent
           v == IF both THEN Exchange(t, z, y, x) ELSE Relink(SetParent(t, x, p), z, x)
           u == Finished(t, v, y, x, p)
<1>1. eraseNode(tr, z) = Dropped(t, u, z)
  BY DEF eraseNode, Dropped, Finished
<1>2. Ended(tr, t, N, z)
  BY EndsIs
<1>3. PICK sub, bh : Shape(tr, N, N, sub) /\ RedBlack(tr, N, sub, bh)
  BY DEF SetOk
<1>4. Headed(tr[header], N)
  BY DEF SetOk
<1> HIDE DEF t
<1>5. TypedTree(t, N) /\ SameOn(tr, t, N)
  BY <1>2 DEF Ended
<1>6. Shape(t, N, N, sub) /\ RedBlack(t, N, sub, bh)
  <2>1. N \subseteq N
    OBVIOUS
  <2>2. Linked(tr, N, sub) /\ \A n \in N : Counted(tr, sub, n)
    BY <1>3 DEF Shape
  <2> QED
    BY <2>1, <2>2, <1>3, <1>5, SameOnIs
<1>7. Linked(t, N, sub) /\ N \subseteq N
  BY <1>6 DEF Shape
<1>8. t[header].is_red /\ t[header].node_count = Cardinality(N)
      /\ ExtremeIs("left", N \ {z}, t[header].left) /\ ExtremeIs("right", N \ {z}, t[header].right)
  BY <1>2, <1>4 DEF Ended, Headed
<1>9. \E s : SpliceSite(t, N, sub, z, y, x, s) /\ Removed(t, v, N, N, z, y, x)
      /\ p = Renamed(t[y].parent, z, y)
  <2>1. CASE both
    <3>1. y = Furthest(t, t[z].right, "left")
      BY <2>1
    <3> HIDE DEF y
    <3>2. /\ SpliceSite(t, N, sub, z, y, t[y].right, "right")
          /\ Exchangeable(t, N, z, y, t[y].right, t[z].left, t[z].right, t[y].parent, t[z].parent)
      BY <2>1, <3>1, <1>5, <1>7, SuccessorIs
    <3>3. x = t[y].right
      BY <3>2 DEF Exchangeable
    <3>4. p = Renamed(t[y].parent, z, y)
      BY <2>1, <3>2 DEF Exchangeable, Renamed
    <3>5. Removed(t, Exchange(t, z, y, t[y].right), N, N, z, y, t[y].right)
      BY <3>2, <1>5, <1>7, ExchangeIs
    <3>6. v = Exchange(t, z, y, x)
      BY <2>1
    <3> HIDE DEF x, p, v
    <3> QED
      BY <3>2, <3>3, <3>4, <3>5, <3>6
  <2>2. CASE ~both
    <3>1. y = z
      BY <2>2
    <3> DEFINE s == IF t[z].left = null THEN "right" ELSE "left"
    <3>2. SpliceSite(t, N, sub, z, z, x, s)
      <4>1. z \in sub[z]
        BY <1>7, Plain
      <4>2. s \in Sides /\ t[z][s] = x /\ t[z][Mirror(s)] = null
        BY <2>2, <3>1 DEF Sides, Mirror
      <4> QED
        BY <4>1, <4>2 DEF SpliceSite
    <3>3. p = t[z].parent /\ p = Renamed(t[z].parent, z, z)
      BY <2>2, <3>1 DEF Renamed
    <3>4. v = Relink(SetParent(t, x, t[z].parent), z, x)
      BY <2>2, <3>3
    <3> HIDE DEF x, p, v, y, s
    <3>5. Removed(t, Relink(SetParent(t, x, t[z].parent), z, x), N, N, z, z, x)
      BY <3>2, <1>5, <1>7, CutIs
    <3> QED
      BY <3>1, <3>2, <3>3, <3>4, <3>5
  <2> QED
    BY <2>1, <2>2
<1> HIDE DEF y, x, p, v
<1>10. PICK s : SpliceSite(t, N, sub, z, y, x, s) /\ Removed(t, v, N, N, z, y, x)
       /\ p = Renamed(t[y].parent, z, y)
  BY <1>9
<1>11. /\ HeaderKept(t, u)
       /\ \E sub2, bh2 : Shape(u, N, N \ {z}, sub2) /\ RedBlack(u, N \ {z}, sub2, bh2)
  BY <1>6, <1>10, FinishedIs
<1> HIDE DEF u
<1>12. SetOk(Dropped(t, u, z), N \ {z})
  BY <1>5, <1>8, <1>11, DroppedIs
<1> QED
  BY <1>1, <1>12

-----------------------------------------------------------------------------
(* Neighbours and queries *)

\* The elements are the nodes.
LEMMA NodesAre ==
    ASSUME NEW t, NEW N, SetOk(t, N)
    PROVE  Nodes(t) = N
<1>1. TypedTree(t, N) /\ header \notin N
  BY SetIs
<1> QED
  BY <1>1 DEF TypedTree, Nodes

\* An empty set, as the constructor and clear leave it.
LEMMA EmptyIs == SetOk(resetHeaderNode, {})
<1> DEFINE t == resetHeaderNode
           sub == [n \in {} |-> {}]
           bh == [n \in {} |-> 0]
<1>1. TypedTree(t, {})
  BY DEF TypedTree, resetHeaderNode, TreeNode, header, null
<1>2. root(t) = null /\ t[header].is_red /\ t[header].node_count = 0
      /\ t[header].left = header /\ t[header].right = header
  BY DEF resetHeaderNode, root
<1> HIDE DEF t
<1>3. Linked(t, {}, sub)
  BY <1>2 DEF Linked, RootFits
<1>4. Shape(t, {}, {}, sub)
  BY <1>1, <1>3 DEF Shape
<1>5. RedBlack(t, {}, sub, bh)
  BY <1>2 DEF RedBlack, Level
<1>6. Headed(t[header], {})
  BY <1>2, FS_EmptySet DEF Headed, ExtremeIs
<1> HIDE DEF sub, bh
<1>7. \E s, b : Shape(t, {}, {}, s) /\ RedBlack(t, {}, s, b)
  BY <1>4, <1>5
<1> QED
  BY <1>7, <1>6 DEF SetOk, t

\* The neighbours of an element and of end().
NeighboursAre(t, N, n) ==
    /\ increment(t, n) = Sorted!Least({e \in N : e > n})
    /\ decrement(t, n) = Sorted!Greatest({e \in N : e < n})
    /\ increment(t, n) \in N \cup {header}
    /\ decrement(t, n) \in N \cup {header}
    /\ {e \in N : e < n} # {} => decrement(t, n) \in N
    /\ increment(t, n) # n

\* ++ and -- go to the neighbours of an element.
LEMMA NextIs ==
    ASSUME NEW t, NEW N, SetOk(t, N), NEW n \in N
    PROVE  NeighboursAre(t, N, n)
<1>1. N \subseteq Int /\ TypedTree(t, N)
  BY SetIs
<1>2. PICK sub, bh : Shape(t, N, N, sub) /\ RedBlack(t, N, sub, bh)
  BY SetIs
<1>3. Linked(t, N, sub) /\ ~t[root(t)].is_red
  BY <1>2 DEF Shape, RedBlack
<1> DEFINE A == Beyond("right", N, n)
           B == Beyond("left", N, n)
<1>4. ExtremeIs("left", A, increment(t, n))
  BY <1>1, <1>3, IncrementIs
<1>5. ExtremeIs("right", B, decrement(t, n))
  BY <1>1, <1>3, DecrementIs
<1>6. A = {e \in N : e > n} /\ B = {e \in N : e < n} /\ A \subseteq N /\ B \subseteq N
  BY <1>1 DEF Beyond, Off
<1> HIDE DEF A, B
<1>7. A \subseteq Int /\ B \subseteq Int
  BY <1>1, <1>6
<1>8. increment(t, n) = Sorted!Least(A) /\ decrement(t, n) = Sorted!Greatest(B)
  BY <1>4, <1>5, <1>7, LeastIs
<1>9. increment(t, n) \in N \cup {header} /\ decrement(t, n) \in N \cup {header}
      /\ (B # {} => decrement(t, n) \in N)
  BY <1>4, <1>5, <1>6 DEF ExtremeIs
<1>10. increment(t, n) # n
  <2>1. n # header /\ ~(n > n) /\ (A = {} => increment(t, n) = header)
    BY <1>1, <1>4, SetIs DEF ExtremeIs
  <2>2. A # {} => increment(t, n) \in A
    BY <1>4 DEF ExtremeIs
  <2> QED
    BY <2>1, <2>2, <1>6
<1> QED
  BY <1>6, <1>8, <1>9, <1>10 DEF NeighboursAre

\* Back from end().
LEMMA LastIs ==
    ASSUME NEW t, NEW N, SetOk(t, N), N # {}
    PROVE  decrement(t, header) = Sorted!Greatest(N) /\ decrement(t, header) \in N
<1>1. Headed(t[header], N) /\ N \subseteq Int
  BY SetIs
<1>2. PICK sub : Linked(t, N, sub)
  BY SetIs DEF Shape
<1>3. t[t[header].parent].parent = header
  BY <1>2 DEF Linked, RootFits, root
<1>4. t[header].is_red /\ ExtremeIs("right", N, t[header].right)
  BY <1>1 DEF Headed
<1>5. decrement(t, header) = t[header].right
  BY <1>3, <1>4 DEF decrement
<1>6. t[header].right = Sorted!Greatest(N) /\ t[header].right \in N
  BY <1>1, <1>4, LeastIs DEF ExtremeIs
<1> QED
  BY <1>5, <1>6

QueriesAre(t, N) ==
    /\ t[header].node_count = Cardinality(N)
    /\ t[header].left = Sorted!Least(N)
    /\ t[header].right = Sorted!Greatest(N)
    /\ \A v \in Int :
        /\ rankNode(t, v) = Cardinality(BelowIn(N, v))
        /\ lowerBoundNode(t, v) = Sorted!Least(AtLeast(N, v))
        /\ upperBoundNode(t, v) = Sorted!Least(AtLeast(N, v + 1))
        /\ findNode(t, v) = IF v \in N THEN v ELSE header
        /\ lowerBoundNode(t, v) \in N \cup {header}
        /\ upperBoundNode(t, v) \in N \cup {header}
    /\ \A r \in 0..MaxValue :
        /\ selectNode(t, r) = Sorted!Least(Ranked(N, r))
        /\ selectNode(t, r) \in N \cup {header}

\* The queries on a sound set answer what the sorted sequence would.
LEMMA AnswersAre ==
    ASSUME NEW t, NEW N, SetOk(t, N)
    PROVE  QueriesAre(t, N)
<1>1. Headed(t[header], N) /\ N \subseteq Int
  BY SetIs
<1>2. PICK sub, bh : Shape(t, N, N, sub) /\ RedBlack(t, N, sub, bh) /\ Searched(t, N, sub)
  BY SetIs
<1>3. Searched(t, N, sub) /\ \A n \in N : Counted(t, sub, n)
  BY <1>2 DEF Shape
<1>4. /\ t[header].node_count = Cardinality(N)
      /\ t[header].left = Sorted!Least(N)
      /\ t[header].right = Sorted!Greatest(N)
  BY <1>1, LeastIs DEF Headed
<1>5. ASSUME NEW v \in Int
      PROVE  /\ rankNode(t, v) = Cardinality(BelowIn(N, v))
             /\ lowerBoundNode(t, v) = Sorted!Least(AtLeast(N, v))
             /\ upperBoundNode(t, v) = Sorted!Least(AtLeast(N, v + 1))
             /\ findNode(t, v) = IF v \in N THEN v ELSE header
             /\ lowerBoundNode(t, v) \in N \cup {header}
             /\ upperBoundNode(t, v) \in N \cup {header}
  <2> DEFINE A == AtLeast(N, v)
             B == AtLeast(N, v + 1)
  <2>1. rankNode(t, v) = Cardinality(BelowIn(N, v))
    BY <1>3, RankIs
  <2>2. ExtremeIs("left", A, lowerBoundNode(t, v))
    BY <1>3, LowerBoundIs
  <2>3. ExtremeIs("left", B, upperBoundNode(t, v))
    BY <1>3, UpperBoundIs
  <2>4. findNode(t, v) = IF v \in N THEN v ELSE header
    BY <1>3, FindIs
  <2>5. A \subseteq N /\ B \subseteq N
    BY DEF AtLeast
  <2> HIDE DEF A, B
  <2>6. A \subseteq Int /\ B \subseteq Int
    BY <2>5, <1>1
  <2>7. lowerBoundNode(t, v) = Sorted!Least(A) /\ upperBoundNode(t, v) = Sorted!Least(B)
    BY <2>2, <2>3, <2>6, LeastIs
  <2>8. lowerBoundNode(t, v) \in N \cup {header} /\ upperBoundNode(t, v) \in N \cup {header}
    BY <2>2, <2>3, <2>5 DEF ExtremeIs
  <2> QED
    BY <2>1, <2>4, <2>7, <2>8 DEF A, B
<1>6. ASSUME NEW r \in 0..MaxValue
      PROVE  /\ selectNode(t, r) = Sorted!Least(Ranked(N, r))
             /\ selectNode(t, r) \in N \cup {header}
  <2> DEFINE A == Ranked(N, r)
  <2>1. ExtremeIs("left", A, selectNode(t, r))
    BY <1>3, SelectIs
  <2>2. A \subseteq N
    BY DEF Ranked
  <2> HIDE DEF A
  <2>3. A \subseteq Int
    BY <2>2, <1>1
  <2>4. selectNode(t, r) = Sorted!Least(A)
    BY <2>1, <2>3, LeastIs
  <2>5. selectNode(t, r) \in N \cup {header}
    BY <2>1, <2>2 DEF ExtremeIs
  <2> QED
    BY <2>4, <2>5 DEF A
<1> QED
  BY <1>4, <1>5, <1>6 DEF QueriesAre

-----------------------------------------------------------------------------
(* The operations *)

\* The tree is a sound set of its own nodes, and the iterator is on one of them or at
\* the end.
SetInv == SetOk(tree, elements) /\ iter \in elements \cup {header}

\* The sets of the queries.
LEMMA ElementsOf ==
    ASSUME elements \subseteq Int
    PROVE  /\ \A v \in Int : /\ Below(v) = BelowIn(elements, v)
                             /\ elements \ Below(v) = AtLeast(elements, v)
                             /\ elements \ Below(v + 1) = AtLeast(elements, v + 1)
           /\ \A r \in Int : {e \in elements : Cardinality(Below(e)) = r} = Ranked(elements, r)
<1> DEFINE N == elements
<1>1. ASSUME NEW v \in Int
      PROVE  /\ Below(v) = BelowIn(N, v)
             /\ N \ Below(v) = AtLeast(N, v)
  <2>1. Below(v) = BelowIn(N, v)
    BY DEF Below, BelowIn
  <2>2. N \subseteq Int /\ Below(v) = {e \in N : e < v}
    BY DEF Below
  <2> HIDE DEF N
  <2>3. N \ {e \in N : e < v} = {e \in N : e >= v}
    <3>1. \A e \in N : ~(e < v) <=> e >= v
      BY <2>2
    <3> QED
      BY <3>1
  <2> QED
    BY <2>1, <2>2, <2>3 DEF AtLeast
<1>2. ASSUME NEW r \in Int PROVE {e \in N : Cardinality(Below(e)) = r} = Ranked(N, r)
  BY <1>1 DEF Ranked
<1>3. ASSUME NEW v \in Int PROVE N \ Below(v + 1) = AtLeast(N, v + 1)
  <2>1. v + 1 \in Int
    OBVIOUS
  <2> QED
    BY <1>1, <2>1
<1> QED
  BY <1>1, <1>2, <1>3

\* QueriesExact in a sound set.
LEMMA InvAnswers ==
    ASSUME SetInv
    PROVE  QueriesExact
<1> DEFINE N == elements
<1>1. SetOk(tree, N) /\ N \subseteq Int /\ Values \subseteq Int
  BY SetIs, ValuesAre DEF SetInv
<1>2. QueriesAre(tree, N)
  BY <1>1, AnswersAre
<1>3. /\ \A v \in Int : /\ Below(v) = BelowIn(N, v)
                        /\ N \ Below(v) = AtLeast(N, v)
                        /\ N \ Below(v + 1) = AtLeast(N, v + 1)
      /\ \A r \in Int : {e \in N : Cardinality(Below(e)) = r} = Ranked(N, r)
  BY <1>1, ElementsOf
<1> HIDE DEF N
<1>4. \A v \in Values :
        /\ rankNode(tree, v) = Cardinality(Below(v))
        /\ lowerBoundNode(tree, v) = Sorted!Least(N \ Below(v))
        /\ upperBoundNode(tree, v) = Sorted!Least(N \ Below(v + 1))
        /\ findNode(tree, v) = IF v \in N THEN v ELSE header
  BY <1>1, <1>2, <1>3 DEF QueriesAre
<1>5. \A r \in 0..MaxValue :
        selectNode(tree, r) = Sorted!Least({e \in N : Cardinality(Below(e)) = r})
  <2> SUFFICES ASSUME NEW r \in 0..MaxValue
               PROVE  selectNode(tree, r) = Sorted!Least({e \in N : Cardinality(Below(e)) = r})
    OBVIOUS
  <2>1. r \in Int
    BY SetAssumption
  <2> QED
    BY <1>2, <1>3, <2>1 DEF QueriesAre
<1>6. \A n \in N : /\ increment(tree, n) = Sorted!Least({e \in N : e > n})
                   /\ decrement(tree, n) = Sorted!Greatest({e \in N : e < n})
  BY <1>1, NextIs DEF NeighboursAre
<1>7. N # {} => decrement(tree, header) = Sorted!Greatest(N)
  BY <1>1, LastIs
<1> QED
  BY <1>2, <1>4, <1>5, <1>6, <1>7 DEF QueriesAre, QueriesExact, N

\* The constructor makes a sound set, the empty one.
LEMMA InitIs ==
    ASSUME SetInit
    PROVE  SetInv /\ Sorted!Init
<1>1. SetOk(tree, {}) /\ iter = header
  BY EmptyIs DEF SetInit
<1>2. elements = {}
  BY <1>1, NodesAre DEF elements
<1> QED
  BY <1>1, <1>2 DEF SetInv, Sorted!Init

\* insert adds the value and moves the iterator to it.
LEMMA InsertStep ==
    ASSUME SetInv, NEW v \in Values, insert(v)
    PROVE  SetInv' /\ Sorted!Insert(v)
<1>1. SetOk(tree', elements \cup {v}) /\ iter' = v
  BY InsertIs DEF SetInv, insert
<1>2. elements' = elements \cup {v}
  BY <1>1, NodesAre DEF elements
<1>3. SetOk(tree', elements')
  BY <1>1, <1>2
<1> QED
  BY <1>1, <1>2, <1>3 DEF SetInv, Sorted!Insert

\* An erased node is one element less.
LEMMA EraseStep ==
    ASSUME SetInv, NEW v \in elements, tree' = eraseNode(tree, v)
    PROVE  SetOk(tree', elements') /\ elements' = elements \ {v} /\ v # header
<1> DEFINE N == elements
<1>1. SetOk(tree, N) /\ header \notin N
  BY SetIs DEF SetInv
<1> HIDE DEF N
<1>2. SetOk(tree', N \ {v})
  BY <1>1, EraseIs DEF N
<1>3. elements' = N \ {v}
  BY <1>2, NodesAre DEF elements
<1> QED
  BY <1>1, <1>2, <1>3 DEF N

\* erase by value.
LEMMA EraseValueStep ==
    ASSUME SetInv, NEW v \in Values, eraseValue(v)
    PROVE  SetInv' /\ Sorted!Erase(v)
<1>1. SetOk(tree, elements) /\ Values \subseteq Int
  BY ValuesAre DEF SetInv
<1>2. v \in elements
  <2>1. QueriesAre(tree, elements)
    BY <1>1, AnswersAre
  <2>2. findNode(tree, v) = IF v \in elements THEN v ELSE header
    BY <1>1, <2>1 DEF QueriesAre
  <2> QED
    BY <2>2 DEF eraseValue
<1>3. SetOk(tree', elements') /\ elements' = elements \ {v}
  BY <1>2, EraseStep DEF eraseValue
<1>4. iter' = (IF iter = v THEN header ELSE iter) /\ iter \in elements \cup {header}
  BY DEF SetInv, eraseValue
<1>5. iter' \in elements' \cup {header}
  BY <1>3, <1>4
<1>6. SetInv'
  BY <1>3, <1>5 DEF SetInv
<1>7. Sorted!Erase(v)
  BY <1>2, <1>3, <1>4 DEF Sorted!Erase
<1> QED
  BY <1>6, <1>7

\* erase through the iterator goes on to the next element.
LEMMA EraseIteratorStep ==
    ASSUME SetInv, eraseIterator
    PROVE  SetInv' /\ iter \in Values /\ Sorted!Erase(iter)
<1> DEFINE z == iter
<1>1. SetOk(tree, elements) /\ z \in elements /\ z # header
  BY DEF SetInv, eraseIterator
<1>2. z \in Values /\ elements \subseteq Int
  BY <1>1, SetIs
<1>3. iter' = increment(tree, z) /\ tree' = eraseNode(tree, z)
  BY DEF eraseIterator
<1> HIDE DEF z
<1>4. SetOk(tree', elements') /\ elements' = elements \ {z}
  BY <1>1, <1>3, EraseStep
<1>5. NeighboursAre(tree, elements, z)
  BY <1>1, NextIs
<1>6. iter' = Sorted!After(z) /\ iter' \in elements \cup {header}
  BY <1>3, <1>5 DEF NeighboursAre, Sorted!After
<1>7. iter' # z
  BY <1>3, <1>5 DEF NeighboursAre
<1>8. SetInv'
  BY <1>4, <1>6, <1>7 DEF SetInv
<1>9. Sorted!Erase(z)
  BY <1>1, <1>4, <1>6 DEF Sorted!Erase, z
<1> QED
  BY <1>2, <1>8, <1>9 DEF z

\* clear.
LEMMA ClearStep ==
    ASSUME SetInv, clearSet
    PROVE  SetInv' /\ Sorted!Clear
<1>1. SetOk(tree', {}) /\ iter' = header
  BY EmptyIs DEF clearSet
<1>2. elements' = {}
  BY <1>1, NodesAre DEF elements
<1>3. SetOk(tree', elements')
  BY <1>1, <1>2
<1> QED
  BY <1>1, <1>2, <1>3 DEF SetInv, Sorted!Clear

\* ++ goes to the next element.
LEMMA AdvanceStep ==
    ASSUME SetInv, advance
    PROVE  SetInv' /\ Sorted!Advance
<1> DEFINE z == iter
<1>1. SetOk(tree, elements) /\ z \in elements /\ z # header
  BY DEF SetInv, advance
<1>2. iter' = increment(tree, z) /\ tree' = tree
  BY DEF advance
<1> HIDE DEF z
<1>3. NeighboursAre(tree, elements, z)
  BY <1>1, NextIs
<1>4. iter' = Sorted!After(z) /\ iter' \in elements \cup {header}
  BY <1>2, <1>3 DEF NeighboursAre, Sorted!After
<1>5. elements' = elements
  BY <1>2 DEF elements, Nodes
<1>6. SetInv'
  BY <1>1, <1>2, <1>4, <1>5 DEF SetInv
<1>7. Sorted!Advance
  BY <1>1, <1>4, <1>5 DEF Sorted!Advance, z
<1> QED
  BY <1>6, <1>7

\* -- goes to the element before, from end() to the last one, from the first to rend().
LEMMA RetreatStep ==
    ASSUME SetInv, retreat
    PROVE  SetInv' /\ Sorted!Retreat
<1> DEFINE N == elements
<1>1. SetOk(tree, N) /\ iter \in N \cup {header} /\ N # {}
  BY DEF SetInv, retreat, elements
<1>2. iter' = decrement(tree, iter) /\ tree' = tree
  BY DEF retreat
<1>3. elements' = N
  BY <1>2 DEF elements, Nodes
<1> HIDE DEF N
<1>5. CASE iter = header
  <2>1. N # {}
    BY <1>1
  <2>2. decrement(tree, header) = Sorted!Greatest(N) /\ decrement(tree, header) \in N
    BY <1>1, <2>1, LastIs
  <2>3. iter' = Sorted!Greatest(N) /\ iter' \in N
    BY <1>2, <1>5, <2>2
  <2>4. SetInv'
    BY <1>1, <1>2, <1>3, <2>3 DEF SetInv
  <2>5. Sorted!Retreat
    BY <1>1, <1>3, <1>5, <2>3 DEF Sorted!Retreat, N
  <2> QED
    BY <2>4, <2>5
<1>6. CASE iter # header
  <2> DEFINE z == iter
  <2>1. z \in N /\ iter' = decrement(tree, z)
    BY <1>1, <1>2, <1>6
  <2> HIDE DEF z
  <2>3. NeighboursAre(tree, N, z)
    BY <1>1, <2>1, NextIs
  <2>4. iter' \in N \cup {header} /\ iter' = Sorted!Before(z)
    BY <2>1, <2>3 DEF NeighboursAre, Sorted!Before, N
  <2>5. SetInv'
    BY <1>1, <1>2, <1>3, <2>4 DEF SetInv
  <2>6. Sorted!Retreat
    BY <1>1, <1>3, <1>6, <2>4 DEF Sorted!Retreat, N, z
  <2> QED
    BY <2>5, <2>6
<1> QED
  BY <1>5, <1>6

\* The queries that set the iterator.
LEMMA SeekStep ==
    ASSUME SetInv, seek
    PROVE  SetInv' /\ Sorted!Seek
<1> DEFINE N == elements
<1>1. SetOk(tree, N) /\ tree' = tree /\ Values \subseteq Int
  BY ValuesAre DEF SetInv, seek
<1>2. elements' = N
  BY <1>1 DEF elements, Nodes
<1>3. QueriesAre(tree, N) /\ Headed(tree[header], N)
  BY <1>1, AnswersAre, SetIs
<1>4. iter' \in N \cup {header}
  <2>1. tree[header].left \in N \cup {header} /\ tree[header].right \in N \cup {header}
    BY <1>3 DEF Headed, ExtremeIs
  <2>2. \A v \in Values : /\ findNode(tree, v) \in N \cup {header}
                          /\ lowerBoundNode(tree, v) \in N \cup {header}
                          /\ upperBoundNode(tree, v) \in N \cup {header}
    BY <1>1, <1>3 DEF QueriesAre
  <2>3. \A r \in 0..MaxValue : selectNode(tree, r) \in N \cup {header}
    BY <1>3 DEF QueriesAre
  <2> HIDE DEF N
  <2> QED
    BY <2>1, <2>2, <2>3 DEF seek, found
<1>5. SetInv'
  BY <1>1, <1>2, <1>4 DEF SetInv
<1> QED
  BY <1>2, <1>4, <1>5 DEF Sorted!Seek

\* Every operation keeps the set sound and is a step of the sorted set.
LEMMA StepIs ==
    ASSUME SetInv, [SetNext]_setVars
    PROVE  SetInv' /\ [Sorted!Next]_(Sorted!vars)
<1>1. ASSUME NEW v \in Values, insert(v) PROVE SetInv' /\ [Sorted!Next]_(Sorted!vars)
  BY <1>1, InsertStep DEF Sorted!Next
<1>2. ASSUME NEW v \in Values, eraseValue(v) PROVE SetInv' /\ [Sorted!Next]_(Sorted!vars)
  BY <1>2, EraseValueStep DEF Sorted!Next
<1>3. CASE eraseIterator
  BY <1>3, EraseIteratorStep DEF Sorted!Next
<1>4. CASE clearSet
  BY <1>4, ClearStep DEF Sorted!Next
<1>5. CASE seek
  BY <1>5, SeekStep DEF Sorted!Next
<1>6. CASE advance
  BY <1>6, AdvanceStep DEF Sorted!Next
<1>7. CASE retreat
  BY <1>7, RetreatStep DEF Sorted!Next
<1>8. CASE UNCHANGED setVars
  <2>1. tree' = tree /\ iter' = iter
    BY <1>8 DEF setVars
  <2>2. elements' = elements
    BY <2>1 DEF elements, Nodes
  <2>3. SetInv'
    BY <2>1, <2>2 DEF SetInv
  <2> QED
    BY <2>1, <2>2, <2>3 DEF Sorted!vars
<1> QED
  BY <1>1, <1>2, <1>3, <1>4, <1>5, <1>6, <1>7, <1>8 DEF SetNext

\* Whatever is inserted, erased and sought, in any order: the tree stays a red-black
\* search tree with parents, counts and ends in agreement, and the iterator on one of
\* its nodes or at end().  This is the inductive invariant of rank_set.h.
THEOREM SetAlwaysSound == SetSpec => []SetInv
<1>1. SetInit => SetInv
  BY InitIs
<1>2. SetInv /\ [SetNext]_setVars => SetInv'
  BY StepIs
<1> QED
  BY <1>1, <1>2, PTL DEF SetSpec

\* Every query (size, begin, end, rank, select, find, lowerBound, upperBound) answers
\* what it would on the sorted sequence of the elements, after any insertions and
\* erasures, and increment and decrement go to the neighbours: the rotations of
\* rank_set.h keep order, counts and ends.
THEOREM QueriesAlwaysExact == SetSpec => []QueriesExact
<1>1. SetInv => QueriesExact
  BY InvAnswers
<1> QED
  BY <1>1, SetAlwaysSound, PTL

\* RankSet implements the sorted set: no rotation or erasure of rank_set.h loses a node,
\* an iterator stays on its element while others come and go, and erase goes on to the
\* next.
THEOREM SetImplementsSortedSet == SetSpec => ImplementsSortedSet
<1>1. SetInit => Sorted!Init
  BY InitIs
<1>2. SetInv /\ [SetNext]_setVars => [Sorted!Next]_(Sorted!vars)
  BY StepIs
<1> QED
  BY <1>1, <1>2, SetAlwaysSound, PTL DEF SetSpec, ImplementsSortedSet, Sorted!Spec

-----------------------------------------------------------------------------
(* Balance *)

\* The heights seen from k levels above the leaves.
HeightLevel(t, k, h) ==
    [n \in Nodes(t) \cup {null} |->
        IF n = null \/ k = 0 THEN 0
        ELSE LET l == h[t[n].left]
                 r == h[t[n].right]
             IN  IF l = -1 \/ l # r THEN -1 ELSE l + (IF t[n].is_red THEN 0 ELSE 1)]

HeightsOf(f, t, m) == f = [k \in 0..m |-> HeightLevel(t, k, f[k - 1])]

\* The recursion of BlackHeight is well defined.
LEMMA HeightsExist ==
    ASSUME NEW t, NEW m \in Nat
    PROVE  \E f : HeightsOf(f, t, m)
<1> DEFINE S == {k \in Nat : \E f : HeightsOf(f, t, k)}
<1>0. \A a, b : HeightLevel(t, 0, a) = HeightLevel(t, 0, b)
  BY DEF HeightLevel
<1>1. 0 \in S
  <2> DEFINE g == [n \in 0..0 |-> HeightLevel(t, 0, 0)]
             h == [n \in 0..0 |-> HeightLevel(t, n, g[n - 1])]
  <2>1. \A n \in 0..0 : g[n] = h[n]
    <3> SUFFICES ASSUME NEW n \in 0..0 PROVE g[n] = h[n]
      OBVIOUS
    <3>1. n = 0
      OBVIOUS
    <3>2. g[n] = HeightLevel(t, 0, 0) /\ h[n] = HeightLevel(t, 0, g[n - 1])
      BY <3>1
    <3> HIDE DEF g, h
    <3> QED
      BY <3>2, <1>0
  <2>2. g = h
    BY <2>1
  <2> HIDE DEF g
  <2>3. HeightsOf(g, t, 0)
    BY <2>2 DEF HeightsOf
  <2> QED
    BY <2>3
<1>2. ASSUME NEW k \in Nat, k \in S PROVE k + 1 \in S
  <2>1. PICK f : HeightsOf(f, t, k)
    BY <1>2
  <2> DEFINE g == [n \in 0..(k + 1) |-> IF n <= k THEN f[n] ELSE HeightLevel(t, n, f[k])]
             h == [n \in 0..(k + 1) |-> HeightLevel(t, n, g[n - 1])]
  <2>2. ASSUME NEW n \in 0..(k + 1) PROVE g[n] = h[n]
    <3>1. CASE n = 0
      <4>1. f[0] = HeightLevel(t, 0, f[0 - 1])
        BY <2>1 DEF HeightsOf
      <4>2. g[n] = f[0] /\ h[n] = HeightLevel(t, 0, g[0 - 1])
        BY <3>1
      <4> HIDE DEF g, h
      <4> QED
        BY <4>1, <4>2, <1>0
    <3>2. CASE n # 0 /\ n <= k
      <4>1. f[n] = HeightLevel(t, n, f[n - 1])
        BY <2>1, <3>2 DEF HeightsOf
      <4>2. g[n - 1] = f[n - 1] /\ g[n] = f[n]
        BY <3>2
      <4>3. h[n] = HeightLevel(t, n, g[n - 1])
        OBVIOUS
      <4> HIDE DEF g, h
      <4> QED
        BY <4>1, <4>2, <4>3
    <3>3. CASE n = k + 1
      <4>1. g[n - 1] = f[k] /\ g[n] = HeightLevel(t, n, f[k])
        BY <3>3
      <4>2. h[n] = HeightLevel(t, n, g[n - 1])
        OBVIOUS
      <4> HIDE DEF g, h
      <4> QED
        BY <4>1, <4>2
    <3> QED
      BY <3>1, <3>2, <3>3
  <2>3. g = h
    BY <2>2
  <2> HIDE DEF g
  <2>4. HeightsOf(g, t, k + 1)
    BY <2>3 DEF HeightsOf
  <2> QED
    BY <2>4
<1> HIDE DEF S
<1>3. m \in S
  BY <1>1, <1>2, Induct
<1> QED
  BY <1>3 DEF S

\* From k levels above the leaves the height is right.
HighEnough(t, N, sub, bh, k, h) ==
    /\ h[null] = 0
    /\ \A n \in N : Cardinality(sub[n]) <= k => h[n] = bh[n]

\* One level further up the heights are right.
LEMMA HeightLevelIs ==
    ASSUME NEW t, NEW N, NEW sub, Searched(t, N, sub), NEW bh \in [N -> Nat], Level(t, N, bh),
           NEW k \in Nat, NEW h, HighEnough(t, N, sub, bh, k, h)
    PROVE  HighEnough(t, N, sub, bh, k + 1, HeightLevel(t, k + 1, h))
<1> DEFINE j == k + 1
           g == HeightLevel(t, j, h)
<1>1. j \in Nat /\ j # 0 /\ j = k + 1
  OBVIOUS
<1> HIDE DEF j
<1>2. Nodes(t) = N /\ null \notin N
  BY SearchedIs
<1>3. g[null] = 0
  BY DEF HeightLevel
<1>4. ASSUME NEW n \in N, Cardinality(sub[n]) <= j PROVE g[n] = bh[n]
  <2> DEFINE l == t[n].left
             r == t[n].right
             c == Cardinality(sub[n])
  <2>1. /\ l \in N \cup {null} /\ Cardinality(Under(sub, l)) < c
        /\ r \in N \cup {null} /\ Cardinality(Under(sub, r)) < c
        /\ c \in Nat /\ \A m \in N : Cardinality(sub[m]) \in Nat
    <3>1. \A s \in Sides : t[n][s] \in N \cup {null} /\ Cardinality(Under(sub, t[n][s])) < c
      BY SearchedIs
    <3>2. \A m \in N : Cardinality(sub[m]) \in Nat
      BY FiniteNodes DEF Searched
    <3> QED
      BY <3>1, <3>2 DEF Sides
  <2>2. bh[n] = H(bh, l) + Black(t, n) /\ bh[n] = H(bh, r) + Black(t, n)
    BY DEF Level, Sides
  <2>3. g[n] = IF h[l] = -1 \/ h[l] # h[r] THEN -1 ELSE h[l] + (IF t[n].is_red THEN 0 ELSE 1)
    BY <1>1, <1>2 DEF HeightLevel
  <2> HIDE DEF l, r, g
  <2>4. ASSUME NEW m \in N \cup {null}, Cardinality(Under(sub, m)) < c
        PROVE h[m] = H(bh, m) /\ H(bh, m) \in Nat
    <3>1. CASE m = null
      BY <3>1 DEF HighEnough, H
    <3>2. CASE m # null
      <4>1. m \in N /\ Cardinality(sub[m]) < c /\ Cardinality(sub[m]) \in Nat
        BY <2>1, <2>4, <3>2 DEF Under
      <4>2. Cardinality(sub[m]) <= k
        BY <4>1, <2>1, <1>1, <1>4
      <4> QED
        BY <4>1, <4>2, <3>2 DEF HighEnough, H
    <3> QED
      BY <3>1, <3>2
  <2>5. h[l] = H(bh, l) /\ h[r] = H(bh, r) /\ H(bh, l) \in Nat /\ H(bh, r) \in Nat
    BY <2>1, <2>4
  <2>6. Black(t, n) = (IF t[n].is_red THEN 0 ELSE 1) /\ Black(t, n) \in {0, 1}
    BY DEF Black
  <2>7. H(bh, l) = H(bh, r)
    BY <2>2, <2>5, <2>6
  <2> QED
    BY <2>2, <2>3, <2>5, <2>6, <2>7
<1> HIDE DEF g
<1>5. HighEnough(t, N, sub, bh, j, g)
  BY <1>3, <1>4 DEF HighEnough
<1> QED
  BY <1>5 DEF g, j

\* In a level tree BlackHeight finds no two paths that differ.
LEMMA BlackHeightIs ==
    ASSUME NEW t, NEW N, NEW sub, Searched(t, N, sub), NEW bh \in [N -> Nat], Level(t, N, bh)
    PROVE  BlackHeight(t) = H(bh, root(t)) /\ BlackHeight(t) # -1
<1> DEFINE f == CHOOSE f : HeightsOf(f, t, MaxValue)
           S == {k \in Nat : k <= MaxValue => HighEnough(t, N, sub, bh, k, f[k])}
<1>1. BlackHeight(t) = f[MaxValue][root(t)]
  BY DEF BlackHeight, HeightsOf, HeightLevel
<1>2. HeightsOf(f, t, MaxValue)
  BY SetAssumption, HeightsExist
<1> HIDE DEF f
<1>3. \A k \in 0..MaxValue : f[k] = HeightLevel(t, k, f[k - 1])
  BY <1>2 DEF HeightsOf
<1>4. 0 \in S
  <2>1. f[0][null] = 0
    <3>1. f[0] = HeightLevel(t, 0, f[0 - 1])
      BY <1>3, SetAssumption
    <3> QED
      BY <3>1 DEF HeightLevel
  <2>2. \A n \in N : ~(Cardinality(sub[n]) <= 0)
    BY FiniteNodes DEF Searched
  <2> QED
    BY <2>1, <2>2 DEF HighEnough
<1>5. ASSUME NEW k \in Nat, k \in S PROVE k + 1 \in S
  <2> SUFFICES ASSUME k + 1 <= MaxValue PROVE HighEnough(t, N, sub, bh, k + 1, f[k + 1])
    OBVIOUS
  <2>1. k <= MaxValue /\ k + 1 \in 0..MaxValue /\ (k + 1) - 1 = k
    BY SetAssumption
  <2>2. f[k + 1] = HeightLevel(t, k + 1, f[k])
    BY <1>3, <2>1
  <2>3. HighEnough(t, N, sub, bh, k, f[k])
    BY <1>5, <2>1
  <2>4. HighEnough(t, N, sub, bh, k + 1, HeightLevel(t, k + 1, f[k]))
    BY <2>3, HeightLevelIs
  <2> QED
    BY <2>2, <2>4
<1> HIDE DEF S
<1>6. MaxValue \in S
  BY <1>4, <1>5, SetAssumption, Induct
<1>7. HighEnough(t, N, sub, bh, MaxValue, f[MaxValue])
  BY <1>6, SetAssumption DEF S
<1> DEFINE top == root(t)
<1>8. top \in N \cup {null} /\ null \notin N /\ \A n \in N : Cardinality(sub[n]) <= MaxValue
  BY SearchedIs, FiniteNodes DEF Searched
<1>9. BlackHeight(t) = f[MaxValue][top]
  BY <1>1
<1> HIDE DEF top
<1>10. f[MaxValue][top] = H(bh, top) /\ H(bh, top) \in Nat
  BY <1>7, <1>8 DEF HighEnough, H
<1> QED
  BY <1>9, <1>10 DEF top

\* Balanced in a sound set.
LEMMA InvBalanced ==
    ASSUME SetInv
    PROVE  Balanced
<1> DEFINE N == elements
<1>1. SetOk(tree, N)
  BY DEF SetInv
<1>2. PICK sub, bh : Shape(tree, N, N, sub) /\ RedBlack(tree, N, sub, bh) /\ Searched(tree, N, sub)
  BY <1>1, SetIs
<1>3. BlackHeight(tree) # -1
  BY <1>2, BlackHeightIs DEF RedBlack
<1>4. Nodes(tree) = N /\ root(tree) \in N \cup {null}
  BY <1>2, SearchedIs
<1> HIDE DEF N
<1>5. ~IsRed(tree, root(tree))
  BY <1>2, <1>4 DEF RedBlack, IsRed
<1>6. ASSUME NEW n \in N, tree[n].is_red
      PROVE  ~IsRed(tree, tree[n].left) /\ ~IsRed(tree, tree[n].right)
  <2>1. PairAt(tree, n, "left", {}, {}) /\ PairAt(tree, n, "right", {}, {})
    BY <1>2 DEF RedBlack, Sides
  <2> QED
    BY <2>1, <1>6 DEF PairAt, IsRed
<1> QED
  BY <1>3, <1>4, <1>5, <1>6 DEF Balanced

\* Insertions and erasures of rank_set.h leave a red-black tree: a black root, no red
\* node with a red child, as many black nodes on every path.
THEOREM AlwaysBalanced == SetSpec => []Balanced
<1>1. SetInv => Balanced
  BY InvBalanced
<1> QED
  BY <1>1, SetAlwaysSound, PTL

-----------------------------------------------------------------------------
(* The copy *)

\* The copies of subtrees seen from k levels above the leaves.
CopyLevel(t, k, c) ==
    [n \in Nodes(t) \cup {null} |->
        IF n = null \/ k = 0 THEN [m \in {} |-> 0]
        ELSE LET l == c[t[n].left]
                 r == c[t[n].right]
                 node(m) == IF m \in DOMAIN l THEN l[m] ELSE r[m]
             IN  [m \in {n} \cup DOMAIN l \cup DOMAIN r |->
                    IF m = n THEN [t[n] EXCEPT !.parent = null]
                    ELSE IF m \in {t[n].left, t[n].right}
                    THEN [node(m) EXCEPT !.parent = n] ELSE node(m)]]

CopiesOf(f, t, m) == f = [k \in 0..m |-> CopyLevel(t, k, f[k - 1])]

\* The recursion of copyNodes is well defined.
LEMMA CopiesExist ==
    ASSUME NEW t, NEW m \in Nat
    PROVE  \E f : CopiesOf(f, t, m)
<1> DEFINE S == {k \in Nat : \E f : CopiesOf(f, t, k)}
<1>0. \A a, b : CopyLevel(t, 0, a) = CopyLevel(t, 0, b)
  BY DEF CopyLevel
<1>1. 0 \in S
  <2> DEFINE g == [n \in 0..0 |-> CopyLevel(t, 0, 0)]
             h == [n \in 0..0 |-> CopyLevel(t, n, g[n - 1])]
  <2>1. \A n \in 0..0 : g[n] = h[n]
    <3> SUFFICES ASSUME NEW n \in 0..0 PROVE g[n] = h[n]
      OBVIOUS
    <3>1. n = 0
      OBVIOUS
    <3>2. g[n] = CopyLevel(t, 0, 0) /\ h[n] = CopyLevel(t, 0, g[n - 1])
      BY <3>1
    <3> HIDE DEF g, h
    <3> QED
      BY <3>2, <1>0
  <2>2. g = h
    BY <2>1
  <2> HIDE DEF g
  <2>3. CopiesOf(g, t, 0)
    BY <2>2 DEF CopiesOf
  <2> QED
    BY <2>3
<1>2. ASSUME NEW k \in Nat, k \in S PROVE k + 1 \in S
  <2>1. PICK f : CopiesOf(f, t, k)
    BY <1>2
  <2> DEFINE g == [n \in 0..(k + 1) |-> IF n <= k THEN f[n] ELSE CopyLevel(t, n, f[k])]
             h == [n \in 0..(k + 1) |-> CopyLevel(t, n, g[n - 1])]
  <2>2. ASSUME NEW n \in 0..(k + 1) PROVE g[n] = h[n]
    <3>1. CASE n = 0
      <4>1. f[0] = CopyLevel(t, 0, f[0 - 1])
        BY <2>1 DEF CopiesOf
      <4>2. g[n] = f[0] /\ h[n] = CopyLevel(t, 0, g[0 - 1])
        BY <3>1
      <4> HIDE DEF g, h
      <4> QED
        BY <4>1, <4>2, <1>0
    <3>2. CASE n # 0 /\ n <= k
      <4>1. f[n] = CopyLevel(t, n, f[n - 1])
        BY <2>1, <3>2 DEF CopiesOf
      <4>2. g[n - 1] = f[n - 1] /\ g[n] = f[n]
        BY <3>2
      <4>3. h[n] = CopyLevel(t, n, g[n - 1])
        OBVIOUS
      <4> HIDE DEF g, h
      <4> QED
        BY <4>1, <4>2, <4>3
    <3>3. CASE n = k + 1
      <4>1. g[n - 1] = f[k] /\ g[n] = CopyLevel(t, n, f[k])
        BY <3>3
      <4>2. h[n] = CopyLevel(t, n, g[n - 1])
        OBVIOUS
      <4> HIDE DEF g, h
      <4> QED
        BY <4>1, <4>2
    <3> QED
      BY <3>1, <3>2, <3>3
  <2>3. g = h
    BY <2>2
  <2> HIDE DEF g
  <2>4. CopiesOf(g, t, k + 1)
    BY <2>3 DEF CopiesOf
  <2> QED
    BY <2>4
<1> HIDE DEF S
<1>3. m \in S
  BY <1>1, <1>2, Induct
<1> QED
  BY <1>3 DEF S

\* The nodes below n as they are, n itself without its parent.
Part(t, sub, n) ==
    [m \in Under(sub, n) |-> IF m = n THEN [t[n] EXCEPT !.parent = null] ELSE t[m]]

CopiedEnough(t, N, sub, k, c) ==
    \A n \in N \cup {null} : Cardinality(Under(sub, n)) <= k => c[n] = Part(t, sub, n)

\* One level further up the copies are right.
LEMMA CopyLevelIs ==
    ASSUME NEW t, NEW N, NEW sub, Searched(t, N, sub),
           NEW k \in Nat, NEW c, CopiedEnough(t, N, sub, k, c)
    PROVE  CopiedEnough(t, N, sub, k + 1, CopyLevel(t, k + 1, c))
<1> DEFINE j == k + 1
           g == CopyLevel(t, j, c)
<1>1. j \in Nat /\ j # 0 /\ j = k + 1
  OBVIOUS
<1> HIDE DEF j
<1>2. Nodes(t) = N /\ null \notin N /\ \A n \in N \cup {null} : Cardinality(Under(sub, n)) \in Nat
  <2>1. Nodes(t) = N /\ null \notin N
    BY SearchedIs
  <2>2. ASSUME NEW n \in N \cup {null} PROVE Cardinality(Under(sub, n)) \in Nat
    <3>1. Cardinality(Under(sub, n)) \in 0..MaxValue
      BY SearchedIs
    <3> HIDE DEF Under
    <3> QED
      BY <3>1, SetAssumption
  <2> QED
    BY <2>1, <2>2
<1>3. g[null] = Part(t, sub, null)
  <2>1. g[null] = [m \in {} |-> 0]
    BY DEF CopyLevel
  <2>2. Part(t, sub, null) = [m \in {} |-> 0]
    BY DEF Part, Under
  <2> QED
    BY <2>1, <2>2
<1>4. ASSUME NEW n \in N, Cardinality(Under(sub, n)) <= j PROVE g[n] = Part(t, sub, n)
  <2> DEFINE l == t[n].left
             r == t[n].right
             L == Under(sub, l)
             R == Under(sub, r)
  <2>1. /\ l \in N \cup {null} /\ Cardinality(L) < Cardinality(sub[n])
        /\ r \in N \cup {null} /\ Cardinality(R) < Cardinality(sub[n])
        /\ sub[n] = {n} \cup L \cup R
        /\ (\A e \in L : e < n) /\ (\A e \in R : n < e)
        /\ sub[n] \subseteq N /\ N \subseteq Int
    <3>1. /\ sub[n] = {n} \cup L \cup R
          /\ (\A e \in L : e < n) /\ (\A e \in R : n < e)
          /\ l \in N \cup {null} /\ r \in N \cup {null} /\ sub[n] \subseteq N
          /\ Cardinality(L) < Cardinality(sub[n]) /\ Cardinality(R) < Cardinality(sub[n])
      BY SubtreeIs
    <3>2. N \subseteq Int
      BY SearchedIs
    <3> QED
      BY <3>1, <3>2
  <2> HIDE DEF L, R
  <2>2. L \cap R = {} /\ n \notin L /\ n \notin R /\ sub[n] = Under(sub, n)
    <3>1. \A e \in L : e \in Int /\ ~(n < e) /\ e # n
      <4>1. L \subseteq Int /\ n \in Int
        BY <2>1
      <4>2. \A e \in L : e < n
        BY <2>1
      <4> QED
        BY <4>1, <4>2
    <3>2. \A e \in R : e # n
      BY <2>1
    <3>3. n # null
      BY <1>2
    <3> QED
      BY <2>1, <3>1, <3>2, <3>3 DEF Under
  <2>3. /\ l # null => l \in L /\ t[l].parent = n
        /\ r # null => r \in R /\ t[r].parent = n
    <3>1. \A s \in Sides : t[n][s] # null => t[n][s] \in sub[t[n][s]] /\ t[t[n][s]].parent = n
      BY KidIs DEF Searched
    <3> QED
      BY <3>1 DEF Sides, Under, L, R
  <2>4. Cardinality(L) <= k /\ Cardinality(R) <= k
    <3>1. Cardinality(L) \in Nat /\ Cardinality(R) \in Nat /\ Cardinality(sub[n]) \in Nat
          /\ Cardinality(sub[n]) <= j
      BY <1>2, <1>4, <2>1, <2>2 DEF L, R
    <3> QED
      BY <3>1, <2>1, <1>1
  <2>5. c[l] = Part(t, sub, l) /\ c[r] = Part(t, sub, r)
    BY <2>1, <2>4 DEF CopiedEnough, L, R
  <2> DEFINE node(m) == IF m \in DOMAIN c[l] THEN c[l][m] ELSE c[r][m]
  <2>6. g[n] = [m \in {n} \cup DOMAIN c[l] \cup DOMAIN c[r] |->
                    IF m = n THEN [t[n] EXCEPT !.parent = null]
                    ELSE IF m \in {l, r}
                    THEN [node(m) EXCEPT !.parent = n] ELSE node(m)]
    BY <1>1, <1>2 DEF CopyLevel
  <2>7. DOMAIN c[l] = L /\ DOMAIN c[r] = R
    BY <2>5 DEF Part, L, R
  <2>8. \A m \in L : c[l][m] = IF m = l THEN [t[l] EXCEPT !.parent = null] ELSE t[m]
    BY <2>5 DEF Part, L, R
  <2>9. \A m \in R : c[r][m] = IF m = r THEN [t[r] EXCEPT !.parent = null] ELSE t[m]
    BY <2>5 DEF Part, L, R
  <2>10. \A m \in N : t[m] \in TreeNode
    BY DEF Searched, TypedTree
  <2>11. null \notin L /\ null \notin R /\ L \subseteq N /\ R \subseteq N
    BY <1>2, <2>1
  <2> HIDE DEF l, r, L, R
  <2>12. ASSUME NEW m \in sub[n], m # n
         PROVE  (IF m \in {l, r} THEN [node(m) EXCEPT !.parent = n] ELSE node(m)) = t[m]
    <3>1. m \in N /\ t[m] \in TreeNode /\ (m \in L \/ m \in R) /\ m # null
      BY <2>1, <2>10, <2>12, <1>2
    <3>2. CASE m = l
      <4>1. m \in L /\ t[m].parent = n
        BY <2>3, <3>1, <3>2
      <4>2. node(m) = [t[m] EXCEPT !.parent = null]
        BY <2>7, <2>8, <3>2, <4>1
      <4>3. [[t[m] EXCEPT !.parent = null] EXCEPT !.parent = n] = t[m]
        BY <3>1, <4>1 DEF TreeNode
      <4> HIDE DEF node
      <4> QED
        BY <3>2, <4>2, <4>3
    <3>3. CASE m = r
      <4>1. m \in R /\ t[m].parent = n /\ m \notin L
        BY <2>2, <2>3, <3>1, <3>3
      <4>2. node(m) = [t[m] EXCEPT !.parent = null]
        BY <2>7, <2>9, <3>3, <4>1
      <4>3. [[t[m] EXCEPT !.parent = null] EXCEPT !.parent = n] = t[m]
        BY <3>1, <4>1 DEF TreeNode
      <4> HIDE DEF node
      <4> QED
        BY <3>3, <4>2, <4>3
    <3>4. CASE m # l /\ m # r
      <4>1. node(m) = t[m]
        BY <2>2, <2>7, <2>8, <2>9, <3>1, <3>4
      <4> HIDE DEF node
      <4> QED
        BY <3>4, <4>1
    <3> QED
      BY <3>2, <3>3, <3>4
  <2> DEFINE a == [m \in sub[n] |-> IF m = n THEN [t[n] EXCEPT !.parent = null]
                                    ELSE IF m \in {l, r}
                                    THEN [node(m) EXCEPT !.parent = n] ELSE node(m)]
             b == [m \in sub[n] |-> IF m = n THEN [t[n] EXCEPT !.parent = null] ELSE t[m]]
  <2>13. g[n] = a
    BY <2>1, <2>6, <2>7
  <2>14. Part(t, sub, n) = b
    BY <2>2 DEF Part
  <2>15. \A m \in sub[n] : a[m] = b[m]
    <3> SUFFICES ASSUME NEW m \in sub[n] PROVE a[m] = b[m]
      OBVIOUS
    <3>1. CASE m = n
      BY <3>1
    <3>2. CASE m # n
      BY <3>2, <2>12
    <3> QED
      BY <3>1, <3>2
  <2>16. a = b
    BY <2>15
  <2> QED
    BY <2>13, <2>14, <2>16
<1> HIDE DEF g
<1>5. CopiedEnough(t, N, sub, j, g)
  BY <1>3, <1>4 DEF CopiedEnough
<1> QED
  BY <1>5 DEF g, j

\* copyNodes copies every node, the root without its parent.
LEMMA CopyNodesIs ==
    ASSUME NEW t, NEW N, NEW sub, Searched(t, N, sub)
    PROVE  copyNodes(t, MaxValue) = Part(t, sub, root(t))
<1> DEFINE f == CHOOSE f : CopiesOf(f, t, MaxValue)
           S == {k \in Nat : k <= MaxValue => CopiedEnough(t, N, sub, k, f[k])}
<1>1. copyNodes(t, MaxValue) = f[MaxValue][root(t)]
  BY DEF copyNodes, CopiesOf, CopyLevel
<1>2. CopiesOf(f, t, MaxValue)
  BY SetAssumption, CopiesExist
<1> HIDE DEF f
<1>3. \A k \in 0..MaxValue : f[k] = CopyLevel(t, k, f[k - 1])
  BY <1>2 DEF CopiesOf
<1>4. 0 \in S
  <2>1. f[0][null] = [m \in {} |-> 0]
    <3>1. f[0] = CopyLevel(t, 0, f[0 - 1])
      BY <1>3, SetAssumption
    <3> QED
      BY <3>1 DEF CopyLevel
  <2>2. Part(t, sub, null) = [m \in {} |-> 0]
    BY DEF Part, Under
  <2>3. \A n \in N : ~(Cardinality(Under(sub, n)) <= 0)
    <3>1. \A n \in N : Cardinality(sub[n]) \in Nat /\ Cardinality(sub[n]) # 0
      BY FiniteNodes DEF Searched
    <3>2. null \notin N
      BY SearchedIs
    <3> QED
      BY <3>1, <3>2 DEF Under
  <2> QED
    BY <2>1, <2>2, <2>3 DEF CopiedEnough
<1>5. ASSUME NEW k \in Nat, k \in S PROVE k + 1 \in S
  <2> SUFFICES ASSUME k + 1 <= MaxValue PROVE CopiedEnough(t, N, sub, k + 1, f[k + 1])
    OBVIOUS
  <2>1. k <= MaxValue /\ k + 1 \in 0..MaxValue /\ (k + 1) - 1 = k
    BY SetAssumption
  <2>2. f[k + 1] = CopyLevel(t, k + 1, f[k])
    BY <1>3, <2>1
  <2>3. CopiedEnough(t, N, sub, k, f[k])
    BY <1>5, <2>1
  <2>4. CopiedEnough(t, N, sub, k + 1, CopyLevel(t, k + 1, f[k]))
    BY <2>3, CopyLevelIs
  <2> QED
    BY <2>2, <2>4
<1> HIDE DEF S
<1>6. MaxValue \in S
  BY <1>4, <1>5, SetAssumption, Induct
<1>7. CopiedEnough(t, N, sub, MaxValue, f[MaxValue])
  BY <1>6, SetAssumption DEF S
<1> DEFINE top == root(t)
<1>8. top \in N \cup {null} /\ Cardinality(Under(sub, top)) <= MaxValue
  <2>1. top \in N \cup {null}
    BY SearchedIs
  <2> HIDE DEF top
  <2>2. Cardinality(Under(sub, top)) \in 0..MaxValue
    BY <2>1, SearchedIs
  <2> HIDE DEF Under
  <2> QED
    BY <2>1, <2>2, SetAssumption
<1> HIDE DEF top
<1>9. f[MaxValue][top] = Part(t, sub, top)
  BY <1>7, <1>8 DEF CopiedEnough
<1> QED
  BY <1>1, <1>9 DEF top

\* The way to one side reads nothing but the links down.
LEMMA FurthestSame ==
    ASSUME NEW t, NEW u, NEW N, Nodes(t) = N, Nodes(u) = N, NEW side,
           \A m \in N : u[m][side] = t[m][side], NEW n
    PROVE  Furthest(u, n, side) = Furthest(t, n, side)
<1> DEFINE a == [m \in {m \in Nodes(t) : t[m][side] # null} |-> t[m][side]]
           b == [m \in {m \in Nodes(u) : u[m][side] # null} |-> u[m][side]]
<1>1. a = b
  OBVIOUS
<1>2. Furthest(t, n, side) = Walk(a, n)
  BY DEF Furthest
<1>3. Furthest(u, n, side) = Walk(b, n)
  BY DEF Furthest
<1> HIDE DEF a, b
<1> QED
  BY <1>1, <1>2, <1>3

\* The ends are where the ways to the sides end.
LEMMA EndsAre ==
    ASSUME NEW t, NEW N, SetOk(t, N), root(t) # null, NEW side \in Sides
    PROVE  Furthest(t, root(t), side) = t[header][side]
<1>1. Headed(t[header], N) /\ N \subseteq Int /\ TypedTree(t, N)
  BY SetIs
<1>2. PICK sub : Shape(t, N, N, sub)
  BY SetIs
<1> DEFINE top == root(t)
           a == Furthest(t, top, side)
           b == t[header][side]
<1>3. Linked(t, N, sub) /\ top \in N /\ sub[top] = N
  BY <1>2 DEF Shape, Linked, RootFits
<1> HIDE DEF top
<1>4. ExtremeIs(side, N, a)
  <2>1. ExtremeIs(side, sub[top], a)
    BY <1>1, <1>3, FurthestIs
  <2> QED
    BY <2>1, <1>3
<1>5. ExtremeIs(side, N, b)
  BY <1>1 DEF Headed, Sides
<1> HIDE DEF a, b
<1>6. a \in N /\ b \in N /\ (a = b \/ Off(side, a, b)) /\ (a = b \/ Off(side, b, a))
  BY <1>3, <1>4, <1>5 DEF ExtremeIs
<1>7. a = b
  BY <1>1, <1>6, OffIs
<1> QED
  BY <1>7 DEF a, b, top

\* A record by its fields.
Rec(c, p, l, r, n) == [is_red |-> c, parent |-> p, left |-> l, right |-> r, node_count |-> n]

\* Writes to such a record.
LEMMA RecIs ==
    /\ \A c, p, l, r, n, q :
        /\ [Rec(c, p, l, r, n) EXCEPT !.parent = q] = Rec(c, q, l, r, n)
        /\ [Rec(c, p, l, r, n) EXCEPT !.left = q] = Rec(c, p, q, r, n)
        /\ [Rec(c, p, l, r, n) EXCEPT !.right = q] = Rec(c, p, l, q, n)
        /\ [Rec(c, p, l, r, n) EXCEPT !.node_count = q] = Rec(c, p, l, r, q)
    /\ \A e \in TreeNode : e = Rec(e.is_red, e.parent, e.left, e.right, e.node_count)
BY DEF Rec, TreeNode

\* A copy of a sound set is the same tree.
LEMMA CopyIs ==
    ASSUME NEW t, NEW N, SetOk(t, N)
    PROVE  Copy(t) = t
<1>1. Headed(t[header], N) /\ N \subseteq Int /\ TypedTree(t, N) /\ header \notin N /\ null \notin N
      /\ null # header
  BY SetIs
<1>2. PICK sub : Linked(t, N, sub) /\ Searched(t, N, sub)
  BY SetIs DEF Searched
<1> DEFINE top == root(t)
           h == [resetHeaderNode[header] EXCEPT !.parent = top, !.node_count = t[header].node_count]
           nodes == copyNodes(t, MaxValue)
           copied == UnderHeader(h, nodes)
           red == TRUE
<1>3. nodes = Part(t, sub, top)
  BY <1>2, CopyNodesIs
<1>4. t \in [N \cup {header} -> TreeNode] /\ DOMAIN t = N \cup {header} /\ t[header] \in TreeNode
  BY <1>1 DEF TypedTree
<1>5. /\ top \in N \cup {null} /\ Under(sub, top) = N
      /\ top = null <=> N = {}
      /\ top # null => t[top].parent = header
  <2>1. top \in N \cup {null} /\ Under(sub, top) = N
    <3>1. root(t) \in N \cup {null}
      BY <1>2, SearchedIs
    <3>2. Under(sub, root(t)) = N
      <4> HIDE DEF root
      <4> QED
        BY <1>2 DEF Linked, RootFits, Under
    <3> QED
      BY <3>1, <3>2
  <2>2. (top = null => N = {}) /\ (top # null => t[top].parent = header)
    BY <1>2 DEF Linked, RootFits
  <2> QED
    BY <2>1, <2>2, <1>1
<1>6. h = Rec(red, top, header, header, t[header].node_count)
  <2> DEFINE h0 == resetHeaderNode[header]
             h1 == [h0 EXCEPT !.parent = top]
             q == t[header].node_count
  <2>1. h0 = Rec(red, null, header, header, 0)
    BY DEF resetHeaderNode, Rec
  <2>2. h = [h1 EXCEPT !.node_count = q]
    OBVIOUS
  <2> HIDE DEF h0, top, q, h, red
  <2>3. h1 = Rec(red, top, header, header, 0)
    BY <2>1, RecIs
  <2> HIDE DEF h1
  <2>4. h = Rec(red, top, header, header, q)
    BY <2>2, <2>3, RecIs
  <2> QED
    BY <2>4 DEF q
<1>7. t[header].is_red = red /\ t[header].parent = top
  BY <1>1, <1>4 DEF Headed, root, TreeNode
<1>8. /\ Copy(t) = IF top = null THEN copied
                   ELSE [copied EXCEPT ![top].parent = header,
                                       ![header].left = Furthest(copied, top, "left"),
                                       ![header].right = Furthest(copied, top, "right")]
  BY DEF Copy
<1> HIDE DEF h, nodes, top, red
<1>9. /\ DOMAIN copied = {header} \cup N
      /\ copied[header] = h
      /\ \A m \in N : copied[m] = IF m = top THEN [t[m] EXCEPT !.parent = null] ELSE t[m]
  <2>1. DOMAIN nodes = N
        /\ \A m \in N : nodes[m] = IF m = top THEN [t[top] EXCEPT !.parent = null] ELSE t[m]
    BY <1>3, <1>5 DEF Part
  <2> QED
    BY <2>1, <1>1 DEF UnderHeader
<1>10. copied = [m \in {header} \cup N |-> copied[m]]
  <2>1. copied = [n \in {header} \cup DOMAIN nodes |-> copied[n]]
    BY DEF UnderHeader
  <2>2. DOMAIN nodes = N
    BY <1>3, <1>5 DEF Part
  <2> QED
    BY <2>1, <2>2
<1> HIDE DEF copied
<1>11. CASE top = null
  <2>1. N = {}
    BY <1>5, <1>11
  <2>2. t[header].left = header /\ t[header].right = header
    BY <2>1, <1>1 DEF Headed, ExtremeIs
  <2>3. t[header] = h
    BY <2>2, <1>4, <1>6, <1>7, <1>11, RecIs
  <2>4. t = [m \in {header} \cup N |-> t[m]]
    BY <1>4
  <2>5. \A m \in {header} \cup N : t[m] = copied[m]
    BY <2>1, <2>3, <1>9
  <2>6. t = copied
    BY <2>4, <2>5, <1>10
  <2> QED
    BY <2>6, <1>8, <1>11
<1>12. CASE top # null
  <2> DEFINE l == t[header].left
             r == t[header].right
  <2>1. Nodes(copied) = N /\ Nodes(t) = N
    BY <1>1, <1>4, <1>9 DEF Nodes
  <2>2. ASSUME NEW m \in N, NEW s \in Sides PROVE copied[m][s] = t[m][s]
    <3>1. t[m] \in TreeNode
      BY <1>4
    <3>2. [t[m] EXCEPT !.parent = null].left = t[m].left
          /\ [t[m] EXCEPT !.parent = null].right = t[m].right
      BY <3>1 DEF TreeNode
    <3>3. [t[m] EXCEPT !.parent = null][s] = t[m][s]
      BY <3>2 DEF Sides
    <3> QED
      BY <3>3, <1>9
  <2>3. \A s \in Sides : Furthest(copied, top, s) = Furthest(t, top, s)
    BY <2>1, <2>2, FurthestSame
  <2>4. \A s \in Sides : Furthest(t, top, s) = t[header][s]
    BY <1>12, EndsAre DEF top
  <2>5. Furthest(copied, top, "left") = l /\ Furthest(copied, top, "right") = r
    BY <2>3, <2>4 DEF Sides
  <2> HIDE DEF l, r
  <2> DEFINE a == [copied EXCEPT ![top].parent = header]
             b == [a EXCEPT ![header].left = l]
             c == [b EXCEPT ![header].right = r]
  <2>6. Copy(t) = c
    BY <1>8, <1>12, <2>5
  <2>7. top \in N /\ top # header
    BY <1>1, <1>5, <1>12
  <2>8. /\ a = [m \in {header} \cup N |-> a[m]]
        /\ a[header] = h
        /\ \A m \in N : a[m] = t[m]
    <3>1. a = [m \in {header} \cup N |-> a[m]] /\ a[header] = h
      BY <1>9, <1>10, <2>7
    <3>2. \A m \in N : m # top => a[m] = t[m]
      BY <1>9, <1>10
    <3>3. a[top] = [copied[top] EXCEPT !.parent = header]
      BY <1>9, <1>10, <2>7
    <3>4. copied[top] = [t[top] EXCEPT !.parent = null]
      BY <1>9, <2>7
    <3>5. [[t[top] EXCEPT !.parent = null] EXCEPT !.parent = header] = t[top]
      <4>1. t[top] \in TreeNode /\ t[top].parent = header
        BY <1>4, <1>5, <2>7
      <4> QED
        BY <4>1 DEF TreeNode
    <3> HIDE DEF a
    <3> QED
      BY <3>1, <3>2, <3>3, <3>4, <3>5
  <2> HIDE DEF a
  <2>9. /\ b = [m \in {header} \cup N |-> b[m]]
        /\ b[header] = [h EXCEPT !.left = l]
        /\ \A m \in N : b[m] = t[m]
    BY <1>1, <2>8
  <2> HIDE DEF b
  <2>10. /\ c = [m \in {header} \cup N |-> c[m]]
         /\ c[header] = [b[header] EXCEPT !.right = r]
         /\ \A m \in N : c[m] = t[m]
    BY <1>1, <2>9
  <2> HIDE DEF c
  <2>11. t[header] = [[h EXCEPT !.left = l] EXCEPT !.right = r]
    <3> DEFINE h1 == [h EXCEPT !.left = l]
               h2 == [h1 EXCEPT !.right = r]
               end == t[header]
               q == end.node_count
    <3>1. end = Rec(red, top, l, r, q)
      <4>1. end \in TreeNode /\ end.is_red = red /\ end.parent = top /\ end.left = l
            /\ end.right = r
        BY <1>4, <1>7 DEF TreeNode, l, r
      <4>2. end = Rec(end.is_red, end.parent, end.left, end.right, end.node_count)
        BY <4>1, RecIs
      <4> HIDE DEF end
      <4> QED
        BY <4>1, <4>2
    <3>2. h = Rec(red, top, header, header, q)
      BY <1>6
    <3> HIDE DEF q, end
    <3>3. h1 = Rec(red, top, l, header, q)
      BY <3>2, RecIs
    <3> HIDE DEF h1
    <3>4. h2 = Rec(red, top, l, r, q)
      BY <3>3, RecIs
    <3> QED
      BY <3>1, <3>4 DEF end, h1
  <2>12. \A m \in {header} \cup N : c[m] = t[m]
    BY <2>9, <2>10, <2>11
  <2>13. t = [m \in {header} \cup N |-> t[m]]
    BY <1>4
  <2>14. c = t
    BY <2>10, <2>12, <2>13
  <2> QED
    BY <2>6, <2>14
<1> QED
  BY <1>11, <1>12

\* The copy constructor of rank_set.h makes the same tree, parents and ends included,
\* whatever was done to the set before.
THEOREM CopyAlwaysEqual == SetSpec => []CopyIsEqual
<1>1. SetInv => CopyIsEqual
  BY CopyIs DEF SetInv, CopyIsEqual
<1> QED
  BY <1>1, SetAlwaysSound, PTL
=============================================================================
