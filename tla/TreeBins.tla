------------------------------ MODULE TreeBins ------------------------------
(***************************************************************************)
(* The bins of large free chunks of malloc.c: tries keyed on the bits of   *)
(* the chunk's size, insert_large_chunk, unlink_large_chunk, and the       *)
(* searches of tmalloc_large and tmalloc_small.                            *)
(*                                                                         *)
(* A chunk is its address.  Chunks of one size form a ring, of which one   *)
(* chunk is in the tree; the others have no parent.                        *)
(***************************************************************************)
EXTENDS Integers, FiniteSets, TLC

CONSTANTS
  Chunk,         \* addresses, positive numbers
  Size           \* sizes of large chunks

NTREEBINS == 32
TREEBIN_SHIFT == 8
MIN_LARGE_SIZE == 2^TREEBIN_SHIFT
Nil == 0                              \* the null pointer
Bin == -1                             \* the parent of a root points into treebins

TreeBinsAssumption ==
  Chunk \subseteq Nat \ {Nil} /\ \A s \in Size : s \in Nat /\ s >= MIN_LARGE_SIZE

Index == 0..(NTREEBINS - 1)
Bit(s, b) == IF b > 30 THEN 0 ELSE (s \div 2^b) % 2

(* compute_tree_index.                                                     *)
TreeIndex(s) ==
  LET x == s \div 2^TREEBIN_SHIFT
      k == CHOOSE k \in 0..15 : 2^k <= x /\ x < 2^(k + 1)
  IN  IF x = 0 THEN 0
      ELSE IF x > 65535 THEN NTREEBINS - 1
      ELSE 2 * k + Bit(s, k + TREEBIN_SHIFT - 1)

(* The bit that tells the children of the root apart; a root holds a size  *)
(* too, and so does every other node.                                      *)
TopBit(i) == IF i = NTREEBINS - 1 THEN 31 ELSE (i \div 2) + TREEBIN_SHIFT - 2
MinSize(i) ==
  2^((i \div 2) + TREEBIN_SHIFT) + (i % 2) * 2^((i \div 2) + TREEBIN_SHIFT - 1)

VARIABLE tree       \* [root: from bins to chunks, node: what chunks hold]

Empty == [root |-> [i \in Index |-> Nil], node |-> <<>>]

(* The node reached when the bits of s above b have been looked at.        *)
Path(t, i, s) ==
  LET at[b \in 0..31] ==
        IF b >= TopBit(i) THEN t.root[i]
        ELSE IF at[b + 1] = Nil THEN Nil
        ELSE t.node[at[b + 1]].child[Bit(s, b + 1) + 1]
  IN  [b \in 0..TopBit(i) |-> at[b]]

Lone(x, s, parent) ==
  [size |-> s, index |-> TreeIndex(s), child |-> <<Nil, Nil>>, parent |-> parent,
   fd |-> x, bk |-> x]

(* insert_large_chunk.                                                     *)
InsertAt(t, x, s) ==
  LET i == TreeIndex(s)
      path == Path(t, i, s)
      same == {T \in {path[b] : b \in DOMAIN path} \ {Nil} : t.node[T].size = s}
      b == CHOOSE b \in DOMAIN path : path[b] # Nil /\ (b = 0 \/ path[b - 1] = Nil)
      T == CHOOSE T \in same : TRUE
  IN  IF t.root[i] = Nil
      THEN [root |-> [t.root EXCEPT ![i] = x], node |-> (x :> Lone(x, s, Bin)) @@ t.node]
      ELSE IF same = {}
      THEN [t EXCEPT !.node = (x :> Lone(x, s, path[b]))
                                @@ [@ EXCEPT ![path[b]].child[Bit(s, b) + 1] = x]]
      ELSE LET F == t.node[T].fd
               new == [Lone(x, s, Nil) EXCEPT !.fd = F, !.bk = T]
           IN  [t EXCEPT !.node = (x :> new) @@ [@ EXCEPT ![F].bk = x, ![T].fd = x]]

(* The rightmost descendant of a node, as the slot that points to it.      *)
LastSlot(t, x) ==
  LET down[y \in DOMAIN t.node] ==
        LET c == IF t.node[y].child[2] # Nil THEN 2 ELSE 1
            z == t.node[y].child[c]
        IN  IF t.node[z].child = <<Nil, Nil>> THEN <<y, c>> ELSE down[z]
  IN  down[x]

(* unlink_large_chunk: a chunk of the ring takes x's place, or else the    *)
(* rightmost leaf below it, or none.                                       *)
UnlinkFrom(t, x) ==
  LET n == t.node[x]
      ring == n.bk # x
      slot == LastSlot(t, x)
      R == IF ring THEN n.bk
           ELSE IF n.child = <<Nil, Nil>> THEN Nil
           ELSE t.node[slot[1]].child[slot[2]]
      cut == IF ring THEN [t.node EXCEPT ![n.fd].bk = R, ![R].fd = n.fd]
             ELSE IF R # Nil THEN [t.node EXCEPT ![slot[1]].child[slot[2]] = Nil]
             ELSE t.node
      child == cut[x].child
      heir == [cut[R] EXCEPT !.parent = n.parent,
                 !.child = [c \in 1..2 |-> IF child[c] # Nil THEN child[c] ELSE @[c]]]
      moved == [y \in DOMAIN cut |->
                  IF y = R THEN heir
                  ELSE IF R # Nil /\ y \in {child[1], child[2]} THEN [cut[y] EXCEPT !.parent = R]
                  ELSE IF y = n.parent
                  THEN [cut[y] EXCEPT !.child = [c \in 1..2 |-> IF @[c] = x THEN R ELSE @[c]]]
                  ELSE cut[y]]
  IN  IF x \notin DOMAIN t.node THEN t
      ELSE [root |-> IF t.root[n.index] = x THEN [t.root EXCEPT ![n.index] = R] ELSE t.root,
            node |-> [y \in DOMAIN cut \ {x} |-> IF n.parent = Nil THEN cut[y] ELSE moved[y]]]

(* The nodes on the way down from x along leftmost_child.                  *)
Leftmost(t, x) ==
  LET down[y \in DOMAIN t.node \cup {Nil}] ==
        IF y = Nil THEN {}
        ELSE LET child == t.node[y].child
             IN  {y} \cup down[IF child[1] # Nil THEN child[1] ELSE child[2]]
  IN  down[x]

Smallest(t, S) ==
  IF S = {} THEN Nil ELSE CHOOSE x \in S : \A y \in S : t.node[x].size <= t.node[y].size

NonEmpty(t) == {i \in Index : t.root[i] # Nil}
FirstRoot(t, I) ==
  IF I = {} THEN Nil ELSE t.root[CHOOSE i \in I : \A j \in I : i <= j]

(* tmalloc_large's choice: the chunks of the bin that agree with nb's bits *)
(* first, then the leftmost ones of the deepest right subtree not taken,   *)
(* then those of the next bin.                                             *)
LargeFit(t, nb) ==
  LET i == TreeIndex(nb)
      path == Path(t, i, nb)
      fits == {x \in {path[b] : b \in DOMAIN path} \ {Nil} : t.node[x].size >= nb}
      exact == {x \in fits : t.node[x].size = nb}
      untaken == {b \in DOMAIN path : /\ path[b] # Nil /\ t.node[path[b]].child[2] # Nil
                                      /\ Bit(nb, b) = 0}
      rst == IF untaken = {} THEN Nil
             ELSE t.node[path[CHOOSE b \in untaken : \A c \in untaken : b <= c]].child[2]
      start == IF rst = Nil /\ fits = {}
               THEN FirstRoot(t, {j \in NonEmpty(t) : j > i}) ELSE rst
  IN  IF exact # {} THEN Smallest(t, exact) ELSE Smallest(t, fits \cup Leftmost(t, start))

(* tmalloc_small's choice.                                                 *)
SmallFit(t) == Smallest(t, Leftmost(t, FirstRoot(t, NonEmpty(t))))
-----------------------------------------------------------------------------
(* A large chunk is freed or allocated.  Which unused address it has makes *)
(* no difference: the least one is taken.                                  *)
Init == tree = Empty

Insert(s) ==
  LET unused == Chunk \ DOMAIN tree.node
  IN  /\ unused # {}
      /\ tree' = InsertAt(tree, CHOOSE x \in unused : \A y \in unused : x <= y, s)

Unlink == \E x \in DOMAIN tree.node : tree' = UnlinkFrom(tree, x)

Next == (\E s \in Size : Insert(s)) \/ Unlink
vars == tree
Spec == Init /\ [][Next]_vars
-----------------------------------------------------------------------------
Sizes(t) == {t.node[x].size : x \in DOMAIN t.node}

(* do_check_tree, for every chunk: rings are closed and of one size, one   *)
(* chunk of each is in the tree, parents and children agree, and a chunk   *)
(* is where the bits of its size lead.                                     *)
WellFormed(t) ==
  /\ \A x \in DOMAIN t.node :
       LET n == t.node[x]
           path == Path(t, n.index, n.size)
       IN  /\ n.index = TreeIndex(n.size) /\ n.size >= MinSize(n.index)
           /\ t.node[n.fd].bk = x /\ t.node[n.bk].fd = x
           /\ t.node[n.fd].size = n.size
           /\ Cardinality({y \in DOMAIN t.node : t.node[y].size = n.size
                                                 /\ t.node[y].parent # Nil}) = 1
           /\ n.parent = Nil => n.child = <<Nil, Nil>>
           /\ n.parent # Nil => x \in {path[b] : b \in DOMAIN path}
           /\ n.parent = Bin <=> t.root[n.index] = x
           /\ n.parent \notin {Nil, Bin} => \E c \in 1..2 : t.node[n.parent].child[c] = x
           /\ \A c \in 1..2 : n.child[c] # Nil => t.node[n.child[c]].parent = x
  /\ \A i \in NonEmpty(t) : t.root[i] \in DOMAIN t.node

(* The searches find the best fit: the least size that is large enough.    *)
Fits(t, S, x) ==
  IF S = {} THEN x = Nil
  ELSE x # Nil /\ t.node[x].size \in S /\ \A s \in S : t.node[x].size <= s
BestFit ==
  /\ WellFormed(tree)
  /\ Fits(tree, Sizes(tree), SmallFit(tree))
  /\ \A nb \in Size : Fits(tree, {s \in Sizes(tree) : s >= nb}, LargeFit(tree, nb))
=============================================================================
