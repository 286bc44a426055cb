--------------------------- MODULE PathTrieProofs ----------------------------
(***************************************************************************)
(* Proofs about PathTrie, for every set of lines, separators and hash.     *)
(*                                                                         *)
(* The tree is described without recursion, as that of Trie is.  The path  *)
(* to a line's node is the sequence of its elements; with the null pointer *)
(* after it, it is a word.  Every link of the tree has a region: the words *)
(* that a search for them follows the link for, which is a prefix and a set*)
(* of symbols that may come after it.  The regions of the links that lead  *)
(* nowhere have no word in common, and no word of a node.                  *)
(*                                                                         *)
(* What relates paths to lines is how a line is cut: in one way only, so   *)
(* that one line has one path, whatever was interned in the meantime.      *)
(***************************************************************************)
EXTENDS PathTrie, NumberLemmas, SequenceTheorems

Elem == 0..MaxElems
Words == Seq(Elem)
Kid == {"lo", "hi", "eq"}

Region == [pre : Words, syms : SUBSET Elem]

Whole == [pre |-> <<>>, syms |-> Elem]

\* w is in the region.
In(r, w) == /\ Len(r.pre) < Len(w)
            /\ \A j \in 1..Len(r.pre) : w[j] = r.pre[j]
            /\ w[Len(r.pre) + 1] \in r.syms

\* The side of c on which a search goes on that compares c with the symbol e.
SideOf(e, c) == IF e = c THEN "eq" ELSE IF PtrLt(e, c) THEN "lo" ELSE "hi"

\* The region of a link of a node with the symbol c that is in the region r.
Part(r, c, l) == IF l = "eq" THEN [pre |-> Append(r.pre, c), syms |-> Elem]
                 ELSE [pre |-> r.pre, syms |-> {e \in r.syms : SideOf(e, c) = l}]

LEMMA PartType ==
  ASSUME NEW r \in Region, NEW c \in Elem, NEW l \in Kid
  PROVE  Part(r, c, l) \in Region
<1>1. r.pre \in Words /\ r.syms \in SUBSET Elem
  BY DEF Region
<1>2. Append(r.pre, c) \in Words
  BY <1>1, AppendProperties DEF Words
<1>3. {e \in r.syms : SideOf(e, c) = l} \in SUBSET Elem
  BY <1>1
<1>. QED
  BY <1>1, <1>2, <1>3 DEF Part, Region

\* What a region's prefix and that of its "eq" part are.
LEMMA PrefixIs ==
  ASSUME NEW r \in Region, NEW c \in Elem
  PROVE  /\ Len(r.pre) \in Nat
         /\ Append(r.pre, c) \in Words
         /\ Len(Append(r.pre, c)) = Len(r.pre) + 1
         /\ \A j \in 1..Len(r.pre) : Append(r.pre, c)[j] = r.pre[j]
         /\ Append(r.pre, c)[Len(r.pre) + 1] = c
<1>1. r.pre \in Words
  BY DEF Region
<1>. QED
  BY <1>1, AppendProperties, LenProperties DEF Words

\* The symbols of a word.
LEMMA SymbolsOf ==
  ASSUME NEW w \in Words
  PROVE  Len(w) \in Nat /\ \A j \in 1..Len(w) : w[j] \in Elem
<1>1. Len(w) \in Nat
  BY LenProperties DEF Words
<1>2. ASSUME NEW j \in 1..Len(w) PROVE w[j] \in Elem
  BY ElementOfSeq DEF Words
<1>. QED
  BY <1>1, <1>2

\* A word in the region of a node is in one of its parts, or is the node's own.
LEMMA PartOf ==
  ASSUME NEW r \in Region, NEW c \in Elem, NEW w \in Words, In(r, w)
  PROVE  LET l == SideOf(w[Len(r.pre) + 1], c)
         IN  /\ l \in Kid
             /\ l # "eq" \/ Len(w) > Len(r.pre) + 1 => In(Part(r, c, l), w)
             /\ l = "eq" /\ Len(w) = Len(r.pre) + 1 => w = Append(r.pre, c)
<1> DEFINE d == Len(r.pre)
           p == Append(r.pre, c)
           l == SideOf(w[d + 1], c)
<1>1. /\ d \in Nat /\ p \in Words /\ Len(p) = d + 1
      /\ \A j \in 1..d : p[j] = r.pre[j]
      /\ p[d + 1] = c
  BY PrefixIs
<1>2. /\ d < Len(w)
      /\ \A j \in 1..d : w[j] = r.pre[j]
      /\ w[d + 1] \in r.syms
  BY DEF In
<1>3. l \in Kid
  BY DEF SideOf, Kid
<1>4. l # "eq" => In(Part(r, c, l), w)
  BY <1>2 DEF Part, In
<1>5. Part(r, c, "eq") = [pre |-> p, syms |-> Elem]
  BY DEF Part
<1>6. Len(w) \in Nat /\ \A j \in 1..Len(w) : w[j] \in Elem
  BY SymbolsOf
<1>7. ASSUME w[d + 1] = c PROVE \A j \in 1..(d + 1) : w[j] = p[j]
  <2>1. ASSUME NEW j \in 1..(d + 1) PROVE w[j] = p[j]
    <3> HIDE DEF p, d, l
    <3>1. j = d + 1 \/ j \in 1..d
      BY <1>1
    <3>2. \A k \in 1..d : r.pre[k] = w[k]
      BY <1>2 DEF d
    <3>3. \A k \in 1..d : p[k] = w[k]
      BY <3>2, <1>1 DEF d
    <3>. QED
      BY <3>1, <3>3, <1>1, <1>7
  <2>. QED
    BY <2>1
<1>10. l = "eq" => w[d + 1] = c
  BY DEF SideOf
<1> HIDE DEF p, d, l
<1>8. ASSUME w[d + 1] = c, Len(w) > d + 1 PROVE In(Part(r, c, "eq"), w)
  <2>1. d + 2 \in 1..Len(w)
    BY <1>1, <1>6, <1>8
  <2>2. w[d + 2] \in Elem
    BY <2>1, <1>6
  <2>3. Len(p) < Len(w) /\ Len(p) + 1 = d + 2
    BY <1>1, <1>8
  <2>4. \A j \in 1..Len(p) : w[j] = p[j]
    BY <1>1, <1>7, <1>8
  <2>. QED
    BY <1>5, <2>2, <2>3, <2>4 DEF In
<1>9. ASSUME w[d + 1] = c, Len(w) = d + 1 PROVE w = p
  <2>1. Len(w) = Len(p) /\ \A j \in 1..Len(w) : w[j] = p[j]
    BY <1>1, <1>7, <1>9
  <2>. QED
    BY <2>1, <1>1, SeqEqual DEF Words
<1>11. l # "eq" \/ Len(w) > d + 1 => In(Part(r, c, l), w)
  BY <1>4, <1>8, <1>10
<1>12. l = "eq" /\ Len(w) = d + 1 => w = p
  BY <1>9, <1>10
<1>. QED
  BY <1>3, <1>11, <1>12, Zenon DEF p, d, l

\* And the other way round: the parts are of the region, the word of the node is
\* in none of them, and they have no word in common.
LEMMA PartWithin ==
  ASSUME NEW r \in Region, NEW c \in Elem, NEW l \in Kid, NEW w \in Words,
         c \in r.syms, In(Part(r, c, l), w)
  PROVE  /\ In(r, w)
         /\ l = SideOf(w[Len(r.pre) + 1], c)
         /\ l = "eq" => Len(w) > Len(r.pre) + 1
<1> DEFINE d == Len(r.pre)
           p == Append(r.pre, c)
<1>1. /\ d \in Nat /\ p \in Words /\ Len(p) = d + 1
      /\ \A j \in 1..d : p[j] = r.pre[j]
      /\ p[d + 1] = c
  BY PrefixIs
<1>2. Len(w) \in Nat
  BY SymbolsOf
<1>3. CASE l # "eq"
  <2>1. Part(r, c, l).pre = r.pre /\ Part(r, c, l).syms = {e \in r.syms : SideOf(e, c) = l}
    BY <1>3 DEF Part
  <2>. QED
    BY <1>3, <2>1 DEF In
<1>4. CASE l = "eq"
  <2>1. Part(r, c, l) = [pre |-> p, syms |-> Elem]
    BY <1>4 DEF Part
  <2>2. Len(p) < Len(w) /\ \A j \in 1..Len(p) : w[j] = p[j]
    BY <2>1 DEF In
  <2>3. \A j \in 1..d : p[j] = r.pre[j]
    BY <1>1
  <2> HIDE DEF p, d
  <2>4. d + 1 < Len(w) /\ w[d + 1] = c /\ d + 1 \in 1..Len(w)
    BY <2>2, <1>1, <1>2
  <2>5. \A j \in 1..d : w[j] = r.pre[j]
    BY <2>2, <2>3, <1>1
  <2>6. d < Len(w)
    BY <2>4, <1>1, <1>2
  <2>. QED
    BY <1>4, <2>4, <2>5, <2>6 DEF In, d, SideOf
<1>. QED
  BY <1>3, <1>4

LEMMA OwnWord ==
  ASSUME NEW r \in Region, NEW c \in Elem, c \in r.syms
  PROVE  /\ In(r, Append(r.pre, c))
         /\ \A l \in Kid : ~In(Part(r, c, l), Append(r.pre, c))
<1>1. /\ Len(r.pre) \in Nat /\ Append(r.pre, c) \in Words
      /\ Len(Append(r.pre, c)) = Len(r.pre) + 1
      /\ \A j \in 1..Len(r.pre) : Append(r.pre, c)[j] = r.pre[j]
      /\ Append(r.pre, c)[Len(r.pre) + 1] = c
  BY PrefixIs
<1>2. In(r, Append(r.pre, c))
  BY <1>1 DEF In
<1>3. ASSUME NEW l \in Kid, In(Part(r, c, l), Append(r.pre, c)) PROVE FALSE
  <2>1. /\ l = SideOf(Append(r.pre, c)[Len(r.pre) + 1], c)
        /\ l = "eq" => Len(Append(r.pre, c)) > Len(r.pre) + 1
    BY <1>1, <1>3, PartWithin
  <2>2. l = "eq"
    BY <2>1, <1>1 DEF SideOf
  <2>. QED
    BY <2>1, <2>2, <1>1
<1>. QED
  BY <1>2, <1>3

WordOf(sy, g, n) == Append(g[n].pre, sy[n])

At(sy, g, n, l) == Part(g[n], sy[n], l)

(***************************************************************************)
(* The nodes 1..N, with the symbols sy and the links lk, are a tree; g     *)
(* are their regions.                                                      *)
(***************************************************************************)
TreeTypes(N, sy, lk, g) ==
  /\ N \in Nat
  /\ sy \in [1..N -> Elem]
  /\ lk \in [1..N -> [Kid -> Nat]]
  /\ g \in [1..N -> Region]
  /\ \A n \in 1..N : g[n].pre \in Seq(1..MaxElems)
  /\ \A n \in 1..N : sy[n] = Null => lk[n]["eq"] = Null

TreeLinks(N, sy, lk, g) ==
  /\ N > 0 => g[1] = Whole
  /\ \A n \in 1..N : sy[n] \in g[n].syms
  /\ \A n \in 1..N, l \in Kid : lk[n][l] # Null =>
       /\ lk[n][l] \in 1..N /\ lk[n][l] > n
       /\ g[lk[n][l]] = At(sy, g, n, l)

\* No word of a node is in the region of a free link.
FreeOfNodes(N, sy, lk, g) ==
  \A n \in 1..N, l \in Kid, m \in 1..N :
    lk[n][l] = Null => ~In(At(sy, g, n, l), WordOf(sy, g, m))

\* No word is in the regions of two free links.
FreeApart(N, sy, lk, g) ==
  \A n1 \in 1..N, l1 \in Kid, n2 \in 1..N, l2 \in Kid, w \in Words :
    /\ lk[n1][l1] = Null /\ lk[n2][l2] = Null
    /\ In(At(sy, g, n1, l1), w) /\ In(At(sy, g, n2, l2), w)
    => n1 = n2 /\ l1 = l2

WordsDiffer(N, sy, g) ==
  \A n, m \in 1..N : WordOf(sy, g, n) = WordOf(sy, g, m) => n = m

Tree(N, sy, lk, g) == /\ TreeTypes(N, sy, lk, g)
                      /\ TreeLinks(N, sy, lk, g)
                      /\ WordsDiffer(N, sy, g)
                      /\ FreeOfNodes(N, sy, lk, g)
                      /\ FreeApart(N, sy, lk, g)

\* A tree with one node more, at the link l of node i.
Added(N, f, x) == [n \in 1..(N + 1) |-> IF n = N + 1 THEN x ELSE f[n]]

NoKids == [l \in Kid |-> Null]

Linked(N, lk, i, l) ==
  Added(N, [n \in 1..N |-> IF n = i THEN [k \in Kid |-> IF k = l THEN N + 1 ELSE lk[n][k]]
                                    ELSE lk[n]], NoKids)

LEMMA WordType ==
  ASSUME NEW N, NEW sy, NEW lk, NEW g, TreeTypes(N, sy, lk, g), NEW n \in 1..N
  PROVE  WordOf(sy, g, n) \in Words /\ g[n] \in Region /\ sy[n] \in Elem
<1>1. g[n] \in Region /\ sy[n] \in Elem
  BY DEF TreeTypes
<1>. QED
  BY <1>1, PrefixIs DEF WordOf

LEMMA FirstNode ==
  ASSUME NEW c \in Elem
  PROVE  Tree(1, Added(0, <<>>, c), Added(0, <<>>, NoKids), Added(0, <<>>, Whole))
<1> DEFINE sy == Added(0, <<>>, c)
           lk == Added(0, <<>>, NoKids)
           g == Added(0, <<>>, Whole)
<1>1. /\ sy = [n \in 1..1 |-> c]
      /\ lk = [n \in 1..1 |-> NoKids]
      /\ g = [n \in 1..1 |-> Whole]
  BY DEF Added
<1>2. <<>> \in Words /\ <<>> \in Seq(1..MaxElems) /\ Len(<<>>) = 0
  BY EmptySeq DEF Words
<1>3. Whole \in Region /\ Whole.pre = <<>> /\ Whole.syms = Elem
  BY <1>2 DEF Whole, Region
<1>5. c \in Whole.syms
  BY <1>3
<1> HIDE DEF sy, lk, g
<1>6. \A l \in Kid : lk[1][l] = Null
  BY <1>1 DEF NoKids
<1>7. TreeTypes(1, sy, lk, g)
  <2>1. NoKids \in [Kid -> Nat]
    BY DEF NoKids, Null
  <2>2. "eq" \in Kid
    BY DEF Kid
  <2>3. sy \in [1..1 -> Elem] /\ lk \in [1..1 -> [Kid -> Nat]] /\ g \in [1..1 -> Region]
    BY <1>1, <1>3, <2>1
  <2>4. \A n \in 1..1 : n = 1
    OBVIOUS
  <2>5. \A n \in 1..1 : g[n].pre \in Seq(1..MaxElems)
    BY <1>1, <1>2, <1>3
  <2>6. \A n \in 1..1 : sy[n] = Null => lk[n]["eq"] = Null
    BY <1>6, <2>2, <2>4
  <2>. QED
    BY <2>3, <2>5, <2>6 DEF TreeTypes
<1>8. TreeLinks(1, sy, lk, g)
  BY <1>1, <1>5, <1>6 DEF TreeLinks
<1>11. WordsDiffer(1, sy, g)
  BY DEF WordsDiffer
<1>9. FreeOfNodes(1, sy, lk, g)
  BY <1>1, <1>3, <1>5, OwnWord DEF FreeOfNodes, WordOf, At
<1>10. FreeApart(1, sy, lk, g)
  <2> SUFFICES ASSUME NEW l1 \in Kid, NEW l2 \in Kid, NEW v \in Words,
                      In(Part(Whole, c, l1), v), In(Part(Whole, c, l2), v)
               PROVE  l1 = l2
    BY <1>1 DEF FreeApart, At
  <2>. QED
    BY <1>3, <1>5, PartWithin
<1>. QED
  BY <1>7, <1>8, <1>9, <1>10, <1>11 DEF Tree, sy, lk, g

\* The regions of the links of a node are of the node's region.
LEMMA LinkRegion ==
  ASSUME NEW N, NEW sy, NEW lk, NEW g, TreeTypes(N, sy, lk, g), TreeLinks(N, sy, lk, g),
         NEW n \in 1..N, NEW l \in Kid
  PROVE  At(sy, g, n, l) \in Region
BY WordType, PartType DEF At

\* A search that ends at a free link leaves a tree when it adds the next node of
\* its word there.
LEMMA NodeAdded ==
  ASSUME NEW N, NEW sy, NEW lk, NEW g, Tree(N, sy, lk, g),
         NEW i \in 1..N, NEW l \in Kid, lk[i][l] = Null, l = "eq" => sy[i] # Null,
         NEW c \in At(sy, g, i, l).syms
  PROVE  Tree(N + 1, Added(N, sy, c), Linked(N, lk, i, l),
              Added(N, g, At(sy, g, i, l)))
<1> DEFINE r == At(sy, g, i, l)
           sy2 == Added(N, sy, c)
           lk2 == Linked(N, lk, i, l)
           g2 == Added(N, g, r)
<1>1. /\ TreeTypes(N, sy, lk, g) /\ TreeLinks(N, sy, lk, g) /\ WordsDiffer(N, sy, g)
      /\ FreeOfNodes(N, sy, lk, g) /\ FreeApart(N, sy, lk, g)
  BY DEF Tree
<1>2. N \in Nat /\ N > 0
  BY <1>1 DEF TreeTypes
<1>3. r \in Region
  BY <1>1, LinkRegion
<1>4. c \in Elem
  BY <1>3 DEF Region
<1>5. c \in r.syms
  OBVIOUS
<1>6. r.pre \in Seq(1..MaxElems)
  <2>1. g[i].pre \in Seq(1..MaxElems) /\ sy[i] \in Elem
    BY <1>1 DEF TreeTypes
  <2>2. CASE l = "eq"
    <3>1. r.pre = Append(g[i].pre, sy[i])
      BY <2>2 DEF At, Part
    <3>2. sy[i] \in 1..MaxElems
      BY <2>1, <2>2, LinesAssumption DEF Elem, Null
    <3>. QED
      BY <2>1, <3>1, <3>2, AppendProperties
  <2>3. CASE l # "eq"
    BY <2>1, <2>3 DEF At, Part, Kid
  <2>. QED
    BY <2>2, <2>3
<1> HIDE DEF r
<1>7. /\ \A n \in 1..N : sy2[n] = sy[n] /\ g2[n] = g[n]
      /\ sy2[N + 1] = c /\ g2[N + 1] = r
      /\ \A n \in 1..N, k \in Kid :
           lk2[n][k] = IF n = i /\ k = l THEN N + 1 ELSE lk[n][k]
      /\ \A k \in Kid : lk2[N + 1][k] = Null
  <2>1. \A n \in 1..N : n \in 1..(N + 1) /\ n # N + 1
    BY <1>2
  <2>2. N + 1 \in 1..(N + 1)
    BY <1>2
  <2>3. \A n \in 1..N : sy2[n] = sy[n] /\ g2[n] = g[n]
    BY <2>1 DEF Added
  <2>4. sy2[N + 1] = c /\ g2[N + 1] = r
    BY <2>2 DEF Added
  <2>5. \A n \in 1..N, k \in Kid : lk2[n][k] = IF n = i /\ k = l THEN N + 1 ELSE lk[n][k]
    BY <2>1 DEF Added, Linked
  <2>6. \A k \in Kid : lk2[N + 1][k] = Null
    BY <2>2 DEF Added, Linked, NoKids
  <2>. QED
    BY <2>3, <2>4, <2>5, <2>6
<1>8. \A n \in 1..(N + 1) : n \in 1..N \/ n = N + 1
  BY <1>2
<1>9. TreeTypes(N + 1, sy2, lk2, g2)
  <2>1. NoKids \in [Kid -> Nat]
    BY DEF NoKids, Null
  <2>2. sy2 \in [1..(N + 1) -> Elem] /\ g2 \in [1..(N + 1) -> Region]
    <3>1. \A n \in 1..N : sy[n] \in Elem /\ g[n] \in Region
      BY <1>1, WordType
    <3>. QED
      BY <1>3, <1>4, <1>8, <3>1 DEF Added
  <2>3. lk2 \in [1..(N + 1) -> [Kid -> Nat]]
    <3>1. lk \in [1..N -> [Kid -> Nat]]
      BY <1>1 DEF TreeTypes
    <3> DEFINE f == [n \in 1..N |-> IF n = i THEN [k \in Kid |-> IF k = l THEN N + 1 ELSE lk[n][k]]
                                             ELSE lk[n]]
    <3>2. f \in [1..N -> [Kid -> Nat]]
      BY <1>2, <3>1
    <3>3. lk2 = [n \in 1..(N + 1) |-> IF n = N + 1 THEN NoKids ELSE f[n]]
      BY DEF Linked, Added
    <3> HIDE DEF f, lk2
    <3>. QED
      BY <1>8, <2>1, <3>2, <3>3
  <2>4. \A n \in 1..(N + 1) : g2[n].pre \in Seq(1..MaxElems)
    <3>1. \A n \in 1..N : g[n].pre \in Seq(1..MaxElems)
      BY <1>1 DEF TreeTypes
    <3>. QED
      BY <1>6, <1>7, <1>8, <3>1
  <2>5. \A n \in 1..(N + 1) : sy2[n] = Null => lk2[n]["eq"] = Null
    <3>1. \A n \in 1..N : sy[n] = Null => lk[n]["eq"] = Null
      BY <1>1 DEF TreeTypes
    <3>2. "eq" \in Kid
      BY DEF Kid
    <3> HIDE DEF sy2, lk2, g2
    <3>. QED
      BY <1>7, <1>8, <3>1, <3>2
  <2>. QED
    BY <1>2, <2>2, <2>3, <2>4, <2>5 DEF TreeTypes
<1> HIDE DEF sy2, lk2, g2
<1>10. \A n \in 1..N, k \in Kid : At(sy2, g2, n, k) = At(sy, g, n, k)
  BY <1>7 DEF At
<1>11. \A k \in Kid : At(sy2, g2, N + 1, k) = Part(r, c, k)
  BY <1>7 DEF At
<1>12. \A n \in 1..N : WordOf(sy2, g2, n) = WordOf(sy, g, n)
  BY <1>7 DEF WordOf
<1>13. WordOf(sy2, g2, N + 1) = Append(r.pre, c)
  BY <1>7 DEF WordOf
<1>14. Append(r.pre, c) \in Words
  BY <1>3, <1>4, PrefixIs
<1>15. TreeLinks(N + 1, sy2, lk2, g2)
  <2>1. N + 1 > 0 => g2[1] = Whole
    BY <1>1, <1>2, <1>7 DEF TreeLinks
  <2>2. \A n \in 1..(N + 1) : sy2[n] \in g2[n].syms
    BY <1>1, <1>5, <1>7, <1>8 DEF TreeLinks
  <2>3. ASSUME NEW n \in 1..(N + 1), NEW k \in Kid, lk2[n][k] # Null
        PROVE  /\ lk2[n][k] \in 1..(N + 1) /\ lk2[n][k] > n
               /\ g2[lk2[n][k]] = At(sy2, g2, n, k)
    <3>1. n \in 1..N
      BY <1>7, <1>8, <2>3
    <3>2. CASE n = i /\ k = l
      <4>1. lk2[n][k] = N + 1
        BY <1>7, <3>1, <3>2
      <4>2. N + 1 \in 1..(N + 1) /\ N + 1 > n
        BY <1>2, <3>1
      <4>3. g2[N + 1] = At(sy2, g2, n, k)
        BY <1>7, <1>10, <3>1, <3>2 DEF r
      <4>. QED
        BY <4>1, <4>2, <4>3
    <3>3. CASE ~(n = i /\ k = l)
      <4>1. lk2[n][k] = lk[n][k]
        BY <1>7, <3>1, <3>3
      <4>2. /\ lk[n][k] \in 1..N /\ lk[n][k] > n
            /\ g[lk[n][k]] = At(sy, g, n, k)
        BY <1>1, <2>3, <3>1, <4>1 DEF TreeLinks
      <4>3. lk[n][k] \in 1..(N + 1)
        BY <1>2, <4>2
      <4>. QED
        BY <1>7, <1>10, <3>1, <4>1, <4>2, <4>3
    <3>. QED
      BY <3>2, <3>3
  <2>. QED
    BY <2>1, <2>2, <2>3 DEF TreeLinks
<1>16. ASSUME NEW n \in 1..N, NEW k \in Kid, lk2[n][k] = Null
       PROVE  lk[n][k] = Null /\ ~(n = i /\ k = l)
  BY <1>2, <1>7, <1>16 DEF Null
<1>17. FreeOfNodes(N + 1, sy2, lk2, g2)
  <2> SUFFICES ASSUME NEW n \in 1..(N + 1), NEW k \in Kid, NEW m \in 1..(N + 1),
                      lk2[n][k] = Null,
                      In(At(sy2, g2, n, k), WordOf(sy2, g2, m))
               PROVE  FALSE
    BY DEF FreeOfNodes
  <2>1. CASE n \in 1..N /\ m \in 1..N
    BY <1>1, <1>10, <1>12, <1>16, <2>1 DEF FreeOfNodes
  <2>2. CASE n \in 1..N /\ m = N + 1
    <3>1. In(At(sy, g, n, k), Append(r.pre, c))
      BY <1>10, <1>13, <2>2
    <3>2. In(At(sy, g, i, l), Append(r.pre, c))
      BY <1>3, <1>4, <1>5, OwnWord DEF r
    <3>. QED
      BY <1>1, <1>14, <1>16, <2>2, <3>1, <3>2 DEF FreeApart
  <2>3. CASE n = N + 1 /\ m \in 1..N
    <3>1. In(Part(r, c, k), WordOf(sy, g, m)) /\ WordOf(sy, g, m) \in Words
      BY <1>1, <1>11, <1>12, <2>3, WordType
    <3>2. In(At(sy, g, i, l), WordOf(sy, g, m))
      BY <1>3, <1>4, <1>5, <3>1, PartWithin DEF r
    <3>. QED
      BY <1>1, <2>3, <3>2 DEF FreeOfNodes
  <2>4. CASE n = N + 1 /\ m = N + 1
    BY <1>3, <1>4, <1>5, <1>11, <1>13, <2>4, OwnWord
  <2>. QED
    BY <1>8, <2>1, <2>2, <2>3, <2>4
<1>19. WordsDiffer(N + 1, sy2, g2)
  <2>1. ASSUME NEW n \in 1..N, WordOf(sy2, g2, n) = WordOf(sy2, g2, N + 1) PROVE FALSE
    <3>1. In(At(sy, g, i, l), WordOf(sy, g, n))
      BY <1>3, <1>4, <1>5, <1>12, <1>13, <2>1, OwnWord DEF r
    <3>. QED
      BY <1>1, <3>1 DEF FreeOfNodes
  <2>2. \A n, m \in 1..N : WordOf(sy2, g2, n) = WordOf(sy2, g2, m) => n = m
    BY <1>1, <1>12 DEF WordsDiffer
  <2>. QED
    BY <1>8, <2>1, <2>2 DEF WordsDiffer
<1>18. FreeApart(N + 1, sy2, lk2, g2)
  <2>1. ASSUME NEW n \in 1..N, NEW k \in Kid, NEW k2 \in Kid, NEW v \in Words,
               lk2[n][k] = Null, In(At(sy2, g2, n, k), v), In(At(sy2, g2, N + 1, k2), v)
        PROVE  FALSE
    <3>1. In(At(sy, g, i, l), v)
      BY <1>3, <1>4, <1>5, <1>11, <2>1, PartWithin DEF r
    <3>2. In(At(sy, g, n, k), v)
      BY <1>10, <2>1
    <3>. QED
      BY <1>1, <1>16, <2>1, <3>1, <3>2 DEF FreeApart
  <2>2. ASSUME NEW k \in Kid, NEW k2 \in Kid, NEW v \in Words,
               In(At(sy2, g2, N + 1, k), v), In(At(sy2, g2, N + 1, k2), v)
        PROVE  k = k2
    BY <1>3, <1>4, <1>5, <1>11, <2>2, PartWithin
  <2>3. ASSUME NEW n \in 1..N, NEW k \in Kid, NEW n2 \in 1..N, NEW k2 \in Kid, NEW v \in Words,
               lk2[n][k] = Null, lk2[n2][k2] = Null,
               In(At(sy2, g2, n, k), v), In(At(sy2, g2, n2, k2), v)
        PROVE  n = n2 /\ k = k2
    BY <1>1, <1>10, <1>16, <2>3 DEF FreeApart
  <2> SUFFICES ASSUME NEW n \in 1..(N + 1), NEW k \in Kid, NEW n2 \in 1..(N + 1), NEW k2 \in Kid,
                      NEW v \in Words, lk2[n][k] = Null, lk2[n2][k2] = Null,
                      In(At(sy2, g2, n, k), v), In(At(sy2, g2, n2, k2), v)
               PROVE  n = n2 /\ k = k2
    BY DEF FreeApart
  <2>4. n \in 1..N \/ n = N + 1
    BY <1>8
  <2>5. n2 \in 1..N \/ n2 = N + 1
    BY <1>8
  <2>. QED
    BY <2>1, <2>2, <2>3, <2>4, <2>5
<1>. QED
  BY <1>9, <1>15, <1>17, <1>18, <1>19 DEF Tree, sy2, lk2, g2, r
-----------------------------------------------------------------------------
(***************************************************************************)
(* How a line is cut.  The path p cuts the text t, with u left, when its   *)
(* symbols are those of the first elements of t; f has what is left after  *)
(* each of them.                                                           *)
(***************************************************************************)
CutBy(E, p, t, f) ==
  /\ f \in [0..Len(p) -> Seq(Chars)] /\ f[0] = t
  /\ \A j \in 1..Len(p) : /\ f[j - 1] # <<>> /\ p[j] \in DOMAIN E
                          /\ E[p[j]] = First(f[j - 1])
                          /\ f[j] = AfterFirst(f[j - 1])

Cuts(E, p, t, u) == \E f : CutBy(E, p, t, f) /\ f[Len(p)] = u

\* A text that is not empty is its first element and what is after it.
LEMMA FirstAndRest ==
  ASSUME NEW s \in Seq(Chars), s # <<>>
  PROVE  /\ First(s) \in Seq(Chars) /\ First(s) # <<>>
         /\ AfterFirst(s) \in Seq(Chars)
         /\ s = First(s) \o AfterFirst(s)
<1> DEFINE n == SplitLen(s)
           C == {i \in DOMAIN s : s[i] \in Seps}
<1>1. Len(s) \in Nat /\ Len(s) > 0 /\ DOMAIN s = 1..Len(s)
  BY EmptySeq, LenProperties
<1>2. n \in 1..Len(s)
  <2>1. CASE C = {}
    BY <1>1, <2>1 DEF SplitLen
  <2>2. CASE C # {}
    <3>1. C \in SUBSET Nat
      BY <1>1
    <3> HIDE DEF C
    <3>2. \E i \in C : \A j \in C : i <= j
      BY <2>2, <3>1, LeastElement
    <3>3. n = CHOOSE i \in C : \A j \in C : i <= j
      BY <2>2 DEF SplitLen, C
    <3> HIDE DEF n
    <3>4. n \in C
      BY <3>2, <3>3
    <3>. QED
      BY <1>1, <3>4 DEF C
  <2>. QED
    BY <2>1, <2>2
<1> HIDE DEF n, C
<1>3. \A i \in 1..Len(s) : s[i] \in Chars
  BY ElementOfSeq
<1>4. \A i \in 1..n : s[i] \in Chars
  BY <1>1, <1>2, <1>3
<1>5. \A i \in (n + 1)..Len(s) : s[i] \in Chars
  BY <1>1, <1>2, <1>3
<1>6. SubSeq(s, 1, n) \in Seq(Chars) /\ Len(SubSeq(s, 1, n)) = n
  <2>1. 1 \in Int /\ n \in Int /\ 1 <= n /\ n - 1 + 1 = n
    BY <1>1, <1>2
  <2>. QED
    BY <1>4, <2>1, SubSeqProperties
<1>7. SubSeq(s, n + 1, Len(s)) \in Seq(Chars)
  <2>1. n + 1 \in Int /\ Len(s) \in Int
    BY <1>1, <1>2
  <2>. QED
    BY <1>5, <2>1, SubSeqProperties
<1>8. SubSeq(s, 1, n) \o SubSeq(s, n + 1, Len(s)) = s
  <2>1. 1 \in 1..(Len(s) + 1) /\ n \in (1 - 1)..Len(s) /\ Len(s) \in n..Len(s)
    BY <1>1, <1>2
  <2>2. SubSeq(s, 1, n) \o SubSeq(s, n + 1, Len(s)) = SubSeq(s, 1, Len(s))
    BY <2>1, ConcatAdjacentSubSeq
  <2>. QED
    BY <2>2, SubSeqFull
<1>9. SubSeq(s, 1, n) # <<>>
  <2>1. n # 0 /\ Len(<<>>) = 0
    BY <1>2, EmptySeq
  <2>. QED
    BY <1>6, <2>1
<1>. QED
  BY <1>6, <1>7, <1>8, <1>9 DEF First, AfterFirst, n

LEMMA CutsNothing ==
  ASSUME NEW E, NEW t \in Seq(Chars)
  PROVE  Cuts(E, <<>>, t, t) /\ \A u : Cuts(E, <<>>, t, u) => u = t
<1>1. Len(<<>>) = 0 /\ 1..0 = {}
  BY EmptySeq
<1>2. CutBy(E, <<>>, t, [j \in 0..0 |-> t])
  BY <1>1 DEF CutBy
<1>. QED
  BY <1>1, <1>2 DEF Cuts, CutBy

Agree(p, q, f, h) == \A j \in 0..Len(p) : j <= Len(q) => f[j] = h[j]

\* What is left is the same whichever path it is that cuts the text.
LEMMA CutsAgree ==
  ASSUME NEW E, NEW D, NEW p \in Words, NEW q \in Words, NEW t, NEW f, NEW h,
         CutBy(E, p, t, f), CutBy(D, q, t, h)
  PROVE  Agree(p, q, f, h)
<1> DEFINE T == {j \in 0..Len(p) : j <= Len(q) /\ f[j] # h[j]}
<1>1. Len(p) \in Nat /\ Len(q) \in Nat
  BY SymbolsOf
<1> SUFFICES ASSUME T # {} PROVE FALSE
  BY DEF Agree
<1>2. PICK j \in T : \A k \in T : j <= k
  <2>1. T \in SUBSET Nat
    BY <1>1
  <2> HIDE DEF T
  <2>. QED
    BY <2>1, LeastElement
<1>3. j \in 0..Len(p) /\ j <= Len(q) /\ f[j] # h[j]
  OBVIOUS
<1>4. j # 0
  BY <1>3 DEF CutBy
<1>5. j - 1 \in 0..Len(p) /\ j - 1 <= Len(q) /\ j \in 1..Len(p) /\ j \in 1..Len(q) /\ ~(j <= j - 1)
  BY <1>1, <1>3, <1>4
<1>6. f[j - 1] = h[j - 1]
  BY <1>2, <1>5
<1>7. f[j] = AfterFirst(f[j - 1]) /\ h[j] = AfterFirst(h[j - 1])
  BY <1>5 DEF CutBy
<1>. QED
  BY <1>3, <1>6, <1>7

LEMMA CutsOnce ==
  ASSUME NEW E, NEW D, NEW p \in Words, NEW t, NEW u, NEW v, Cuts(E, p, t, u), Cuts(D, p, t, v)
  PROVE  u = v
<1>1. PICK f : CutBy(E, p, t, f) /\ f[Len(p)] = u
  BY DEF Cuts
<1>2. PICK h : CutBy(D, p, t, h) /\ h[Len(p)] = v
  BY DEF Cuts
<1>3. Len(p) \in 0..Len(p) /\ Len(p) <= Len(p)
  BY SymbolsOf
<1>4. Agree(p, p, f, h)
  BY <1>1, <1>2, CutsAgree, Zenon
<1>. QED
  BY <1>1, <1>2, <1>3, <1>4 DEF Agree

LEMMA CutsType ==
  ASSUME NEW E, NEW p \in Words, NEW t, NEW u, Cuts(E, p, t, u)
  PROVE  t \in Seq(Chars) /\ u \in Seq(Chars)
<1>1. PICK f : CutBy(E, p, t, f) /\ f[Len(p)] = u
  BY DEF Cuts
<1>2. 0 \in 0..Len(p) /\ Len(p) \in 0..Len(p)
  BY SymbolsOf
<1>. QED
  BY <1>1, <1>2 DEF CutBy

\* One element more is cut.
LEMMA CutsMore ==
  ASSUME NEW E, NEW p \in Words, NEW t, NEW u, Cuts(E, p, t, u), u # <<>>,
         NEW e \in Elem, e \in DOMAIN E, E[e] = First(u)
  PROVE  Cuts(E, Append(p, e), t, AfterFirst(u))
<1> DEFINE q == Append(p, e)
<1>1. PICK f : CutBy(E, p, t, f) /\ f[Len(p)] = u
  BY DEF Cuts
<1>2. /\ Len(p) \in Nat /\ Len(q) = Len(p) + 1
      /\ \A j \in 1..Len(p) : q[j] = p[j]
      /\ q[Len(p) + 1] = e
  BY SymbolsOf, AppendProperties DEF Words
<1> DEFINE n == Len(p)
           h == [j \in 0..(n + 1) |-> IF j = n + 1 THEN AfterFirst(u) ELSE f[j]]
<1>3. u \in Seq(Chars) /\ AfterFirst(u) \in Seq(Chars)
  BY CutsType, FirstAndRest
<1>4. f \in [0..n -> Seq(Chars)] /\ f[0] = t
  BY <1>1 DEF CutBy
<1>5. \A j \in 0..n : h[j] = f[j]
  BY <1>2
<1>6. h[n + 1] = AfterFirst(u)
  BY <1>2
<1>7. h \in [0..(n + 1) -> Seq(Chars)]
  BY <1>2, <1>3, <1>4
<1> HIDE DEF h, q
<1>8. ASSUME NEW j \in 1..(n + 1)
      PROVE  /\ h[j - 1] # <<>> /\ q[j] \in DOMAIN E
             /\ E[q[j]] = First(h[j - 1]) /\ h[j] = AfterFirst(h[j - 1])
  <2>1. CASE j = n + 1
    <3>1. j - 1 = n /\ n \in 0..n
      BY <1>2, <2>1
    <3>2. h[j - 1] = u
      BY <1>1, <1>5, <3>1
    <3>. QED
      BY <1>2, <1>6, <2>1, <3>2
  <2>2. CASE j # n + 1
    <3>1. j \in 1..n /\ j - 1 \in 0..n /\ j \in 0..n
      BY <1>2, <2>2
    <3>2. h[j - 1] = f[j - 1] /\ h[j] = f[j] /\ q[j] = p[j]
      BY <1>2, <1>5, <3>1
    <3>. QED
      BY <1>1, <3>1, <3>2 DEF CutBy
  <2>. QED
    BY <2>1, <2>2
<1>9. h[0] = t
  BY <1>2, <1>4, <1>5
<1>10. CutBy(E, q, t, h)
  BY <1>2, <1>7, <1>8, <1>9 DEF CutBy
<1>. QED
  BY <1>2, <1>6, <1>10 DEF Cuts, q

\* The beginning of a path cuts the beginning of the text.
CutShort(E, p, q, t, v, u) ==
  /\ Cuts(E, p, t, u)
  /\ Len(p) = Len(q) => u = v
  /\ Len(p) < Len(q) => /\ u # <<>> /\ q[Len(p) + 1] \in DOMAIN E
                        /\ E[q[Len(p) + 1]] = First(u)

LEMMA CutsLess ==
  ASSUME NEW E, NEW q \in Words, NEW t, NEW v, Cuts(E, q, t, v),
         NEW p \in Words, Len(p) <= Len(q), \A j \in 1..Len(p) : q[j] = p[j]
  PROVE  \E u : CutShort(E, p, q, t, v, u)
<1>1. PICK f : CutBy(E, q, t, f) /\ f[Len(q)] = v
  BY DEF Cuts
<1>2. Len(p) \in Nat /\ Len(q) \in Nat
  BY SymbolsOf
<1> DEFINE h == [j \in 0..Len(p) |-> f[j]]
           u == f[Len(p)]
<1>3. \A j \in 0..Len(p) : j \in 0..Len(q)
  BY <1>2
<1>4. h \in [0..Len(p) -> Seq(Chars)] /\ h[0] = t
  BY <1>1, <1>2, <1>3 DEF CutBy
<1>5. ASSUME NEW j \in 1..Len(p)
      PROVE  /\ h[j - 1] # <<>> /\ p[j] \in DOMAIN E
             /\ E[p[j]] = First(h[j - 1]) /\ h[j] = AfterFirst(h[j - 1])
  <2>1. j \in 1..Len(q) /\ j - 1 \in 0..Len(p) /\ j \in 0..Len(p)
    BY <1>2
  <2>2. h[j - 1] = f[j - 1] /\ h[j] = f[j] /\ q[j] = p[j]
    BY <2>1
  <2> HIDE DEF h
  <2>. QED
    BY <1>1, <2>1, <2>2 DEF CutBy
<1>6. h[Len(p)] = u
  BY <1>2
<1> HIDE DEF h
<1>7. Cuts(E, p, t, u)
  BY <1>4, <1>5, <1>6 DEF CutBy, Cuts
<1>8. ASSUME Len(p) < Len(q)
      PROVE  u # <<>> /\ q[Len(p) + 1] \in DOMAIN E /\ E[q[Len(p) + 1]] = First(u)
  <2>1. Len(p) + 1 \in 1..Len(q) /\ (Len(p) + 1) - 1 = Len(p)
    BY <1>2, <1>8
  <2>. QED
    BY <1>1, <2>1 DEF CutBy
<1>9. Len(p) = Len(q) => u = v
  BY <1>1
<1>. QED
  BY <1>7, <1>8, <1>9 DEF CutShort

\* Elements that are interned later change nothing.
Grown(E, D) == \A i \in DOMAIN E : i \in DOMAIN D /\ D[i] = E[i]

LEMMA CutsGrow ==
  ASSUME NEW E, NEW D, NEW p, NEW t, NEW u, Cuts(E, p, t, u), Grown(E, D)
  PROVE  Cuts(D, p, t, u)
BY DEF Cuts, CutBy, Grown

Distinct(E) == \A i, j \in DOMAIN E : E[i] = E[j] => i = j

\* A text is cut in one way.
LEMMA CutsSame ==
  ASSUME NEW E, Distinct(E), NEW p \in Words, NEW q \in Words, NEW t,
         Cuts(E, p, t, <<>>), Cuts(E, q, t, <<>>)
  PROVE  p = q
<1>1. PICK f : CutBy(E, p, t, f) /\ f[Len(p)] = <<>>
  BY DEF Cuts
<1>2. PICK h : CutBy(E, q, t, h) /\ h[Len(q)] = <<>>
  BY DEF Cuts
<1>3. Len(p) \in Nat /\ Len(q) \in Nat
  BY SymbolsOf
<1>10. Agree(p, q, f, h)
  BY <1>1, <1>2, CutsAgree, Zenon
<1>4. \A j \in 0..Len(p) : j <= Len(q) => f[j] = h[j]
  BY <1>10 DEF Agree
<1>5. ~(Len(p) < Len(q))
  <2> SUFFICES ASSUME Len(p) < Len(q) PROVE FALSE
    OBVIOUS
  <2>1. Len(p) + 1 \in 1..Len(q) /\ (Len(p) + 1) - 1 = Len(p) /\ Len(p) \in 0..Len(p)
        /\ Len(p) <= Len(q)
    BY <1>3
  <2>2. h[Len(p)] # <<>>
    BY <1>2, <2>1 DEF CutBy
  <2>. QED
    BY <1>1, <1>4, <2>1, <2>2
<1>6. ~(Len(q) < Len(p))
  <2> SUFFICES ASSUME Len(q) < Len(p) PROVE FALSE
    OBVIOUS
  <2>1. Len(q) + 1 \in 1..Len(p) /\ (Len(q) + 1) - 1 = Len(q) /\ Len(q) \in 0..Len(p)
        /\ Len(q) <= Len(q)
    BY <1>3
  <2>2. f[Len(q)] # <<>>
    BY <1>1, <2>1 DEF CutBy
  <2>. QED
    BY <1>2, <1>4, <2>1, <2>2
<1>7. Len(p) = Len(q)
  BY <1>3, <1>5, <1>6
<1>8. ASSUME NEW j \in 1..Len(p) PROVE p[j] = q[j]
  <2>1. j - 1 \in 0..Len(p) /\ j - 1 <= Len(q) /\ j \in 1..Len(q)
    BY <1>3, <1>7
  <2>2. f[j - 1] = h[j - 1]
    BY <1>4, <2>1
  <2>3. p[j] \in DOMAIN E /\ q[j] \in DOMAIN E /\ E[p[j]] = E[q[j]]
    BY <1>1, <1>2, <2>1, <2>2 DEF CutBy
  <2>. QED
    BY <2>3 DEF Distinct
<1>. QED
  BY <1>7, <1>8, SeqEqual DEF Words

\* A path cuts one text.
LEMMA CutsBack ==
  ASSUME NEW E, NEW p \in Words, NEW t, NEW v, NEW u, Cuts(E, p, t, u), Cuts(E, p, v, u)
  PROVE  t = v
<1>1. PICK f : CutBy(E, p, t, f) /\ f[Len(p)] = u
  BY DEF Cuts
<1>2. PICK h : CutBy(E, p, v, h) /\ h[Len(p)] = u
  BY DEF Cuts
<1>3. Len(p) \in Nat
  BY SymbolsOf
<1> DEFINE T == {k \in 0..Len(p) : f[Len(p) - k] # h[Len(p) - k]}
<1>4. CASE T = {}
  <2>1. Len(p) \in 0..Len(p) /\ Len(p) - Len(p) = 0
    BY <1>3
  <2>2. f[Len(p) - Len(p)] = h[Len(p) - Len(p)]
    BY <1>4, <2>1
  <2>. QED
    BY <1>1, <1>2, <2>1, <2>2 DEF CutBy
<1>5. CASE T # {}
  <2>1. PICK k \in T : \A m \in T : k <= m
    <3>1. T \in SUBSET Nat
      BY <1>3
    <3> HIDE DEF T
    <3>. QED
      BY <1>5, <3>1, LeastElement
  <2> DEFINE j == Len(p) - k
  <2>2. k \in 0..Len(p) /\ f[j] # h[j]
    OBVIOUS
  <2>3. k # 0
    <3>1. Len(p) - 0 = Len(p)
      BY <1>3
    <3>. QED
      BY <1>1, <1>2, <2>2, <3>1
  <2>4. /\ j + 1 \in 1..Len(p) /\ (j + 1) - 1 = j /\ k - 1 \in 0..Len(p)
        /\ Len(p) - (k - 1) = j + 1 /\ ~(k <= k - 1) /\ j \in 0..Len(p)
    BY <1>3, <2>2, <2>3
  <2>5. f[j + 1] = h[j + 1]
    BY <2>1, <2>4
  <2> HIDE DEF j, T
  <2>6. /\ f[j] # <<>> /\ E[p[j + 1]] = First(f[j]) /\ f[j + 1] = AfterFirst(f[j])
        /\ f[j] \in Seq(Chars)
    BY <1>1, <2>4 DEF CutBy
  <2>7. /\ h[j] # <<>> /\ E[p[j + 1]] = First(h[j]) /\ h[j + 1] = AfterFirst(h[j])
        /\ h[j] \in Seq(Chars)
    BY <1>2, <2>4 DEF CutBy
  <2>8. f[j] = First(f[j]) \o AfterFirst(f[j]) /\ h[j] = First(h[j]) \o AfterFirst(h[j])
    BY <2>6, <2>7, FirstAndRest
  <2>. QED
    BY <2>2, <2>5, <2>6, <2>7, <2>8
<1>. QED
  BY <1>4, <1>5
-----------------------------------------------------------------------------
(***************************************************************************)
(* The lines of a tree, without recursion: of the nodes at which a line    *)
(* ends, those below node i are the ones whose words are in its region.    *)
(***************************************************************************)
Ends(N, sy) == {n \in 1..N : sy[n] = Null}

Below(N, sy, g, r) == {n \in Ends(N, sy) : In(r, WordOf(sy, g, n))}

\* The path of a node is its word without the last symbol.
LEMMA WordAndPath ==
  ASSUME NEW N, NEW sy, NEW lk, NEW g, TreeTypes(N, sy, lk, g), NEW n \in 1..N
  PROVE  /\ g[n].pre \in Words /\ Len(g[n].pre) \in Nat
         /\ WordOf(sy, g, n) \in Words
         /\ Len(WordOf(sy, g, n)) = Len(g[n].pre) + 1
         /\ \A j \in 1..Len(g[n].pre) : WordOf(sy, g, n)[j] = g[n].pre[j]
         /\ WordOf(sy, g, n)[Len(g[n].pre) + 1] = sy[n]
<1>1. g[n] \in Region /\ sy[n] \in Elem /\ g[n].pre \in Words
  BY WordType DEF TreeTypes, Region
<1>. QED
  BY <1>1, PrefixIs DEF WordOf

LEMMA FreeIsEmpty ==
  ASSUME NEW N, NEW sy, NEW lk, NEW g, Tree(N, sy, lk, g), NEW i \in 1..N, NEW l \in Kid,
         lk[i][l] = Null
  PROVE  Below(N, sy, g, At(sy, g, i, l)) = {}
BY DEF Tree, FreeOfNodes, Below, Ends

\* The ends below a node: those below its links, or the node itself.
LEMMA BelowNode ==
  ASSUME NEW N, NEW sy, NEW lk, NEW g, Tree(N, sy, lk, g), NEW i \in 1..N
  PROVE  Below(N, sy, g, g[i]) =
           Below(N, sy, g, At(sy, g, i, "lo")) \cup Below(N, sy, g, At(sy, g, i, "hi"))
           \cup (IF sy[i] = Null THEN {i} ELSE Below(N, sy, g, At(sy, g, i, "eq")))
<1>1. /\ TreeTypes(N, sy, lk, g) /\ TreeLinks(N, sy, lk, g)
      /\ WordsDiffer(N, sy, g) /\ FreeOfNodes(N, sy, lk, g)
  BY DEF Tree
<1>2. g[i] \in Region /\ sy[i] \in Elem /\ sy[i] \in g[i].syms
  BY <1>1, WordType DEF TreeLinks
<1>3. \A l \in Kid : At(sy, g, i, l) = Part(g[i], sy[i], l)
  BY DEF At
<1>4. "lo" \in Kid /\ "hi" \in Kid /\ "eq" \in Kid
  BY DEF Kid
<1>5. ASSUME NEW l \in Kid, NEW n \in Below(N, sy, g, At(sy, g, i, l))
      PROVE  n \in Below(N, sy, g, g[i])
  <2>1. n \in Ends(N, sy) /\ In(Part(g[i], sy[i], l), WordOf(sy, g, n))
    BY <1>3 DEF Below
  <2>2. WordOf(sy, g, n) \in Words
    BY <1>1, <2>1, WordType DEF Ends
  <2>. QED
    BY <1>2, <2>1, <2>2, PartWithin DEF Below
<1>6. sy[i] = Null => i \in Below(N, sy, g, g[i])
  BY <1>2, OwnWord DEF Below, Ends, WordOf
<1>7. ASSUME NEW n \in Below(N, sy, g, g[i])
      PROVE  \/ n \in Below(N, sy, g, At(sy, g, i, "lo"))
             \/ n \in Below(N, sy, g, At(sy, g, i, "hi"))
             \/ sy[i] = Null /\ n = i
             \/ sy[i] # Null /\ n \in Below(N, sy, g, At(sy, g, i, "eq"))
  <2> DEFINE w == WordOf(sy, g, n)
             d == Len(g[i].pre)
             l == SideOf(w[d + 1], sy[i])
  <2>1. n \in 1..N /\ sy[n] = Null /\ In(g[i], w)
    BY DEF Below, Ends
  <2>2. w \in Words /\ Len(w) \in Nat /\ d \in Nat
    BY <1>1, <1>2, <2>1, WordType, SymbolsOf, PrefixIs
  <2>3. d < Len(w)
    BY <2>1 DEF In
  <2>4. /\ l \in Kid
        /\ l # "eq" \/ Len(w) > d + 1 => In(Part(g[i], sy[i], l), w)
        /\ l = "eq" /\ Len(w) = d + 1 => w = Append(g[i].pre, sy[i])
    <3> HIDE DEF w
    <3>. QED
      BY <1>2, <2>1, <2>2, PartOf
  <2> HIDE DEF w, d, l
  <2>5. CASE l # "eq"
    <3>1. n \in Below(N, sy, g, At(sy, g, i, l))
      BY <1>3, <2>1, <2>4, <2>5 DEF Below, Ends, w
    <3>2. l = "lo" \/ l = "hi"
      BY <2>4, <2>5 DEF Kid
    <3>. QED
      BY <3>1, <3>2
  <2>6. CASE l = "eq" /\ Len(w) > d + 1
    <3>1. In(At(sy, g, i, "eq"), w)
      BY <1>3, <1>4, <2>4, <2>6
    <3>2. sy[i] # Null
      <4>1. lk[i]["eq"] = Null => ~In(At(sy, g, i, "eq"), w)
        BY <1>1, <1>4, <2>1 DEF FreeOfNodes, w
      <4>. QED
        BY <1>1, <3>1, <4>1 DEF TreeTypes
    <3>. QED
      BY <2>1, <3>1, <3>2 DEF Below, Ends, w
  <2>7. CASE l = "eq" /\ Len(w) = d + 1
    <3>1. WordOf(sy, g, n) = WordOf(sy, g, i)
      BY <2>4, <2>7 DEF WordOf, w
    <3>2. n = i
      BY <1>1, <2>1, <3>1 DEF WordsDiffer
    <3>. QED
      BY <2>1, <3>2
  <2>8. Len(w) > d + 1 \/ Len(w) = d + 1
    BY <2>2, <2>3
  <2>. QED
    BY <2>5, <2>6, <2>7, <2>8
<1>. QED
  BY <1>4, <1>5, <1>6, <1>7

\* s has the line of each of these nodes.
HasLines(N, sy, g, E, s) == \A m \in Ends(N, sy) : Cuts(E, g[m].pre, s[m], <<>>)

\* What is left of the lines below a link when its prefix is cut off.
TextsBelow(N, sy, g, E, s, r) ==
  {u \in Seq(Chars) : \E m \in Below(N, sy, g, r) : Cuts(E, r.pre, s[m], u)}

TextsAt(N, sy, g, E, s, i) == IF i = Null THEN {} ELSE TextsBelow(N, sy, g, E, s, g[i])

\* Below the link "eq" of node i the next element is that of i.
CutHere(g, E, s, i, c, m, u) ==
  /\ u \in Seq(Chars)
  /\ Cuts(E, g[i].pre, s[m], u) /\ Cuts(E, Append(g[i].pre, c), s[m], AfterFirst(u))
  /\ u = E[c] \o AfterFirst(u)

LEMMA CutBelow ==
  ASSUME NEW N, NEW sy, NEW lk, NEW g, Tree(N, sy, lk, g), NEW E, NEW s,
         HasLines(N, sy, g, E, s), NEW i \in 1..N, NEW m \in Below(N, sy, g, At(sy, g, i, "eq"))
  PROVE  \E u : CutHere(g, E, s, i, sy[i], m, u)
<1> DEFINE p == g[i].pre
           q == g[m].pre
           c == sy[i]
           w == WordOf(sy, g, m)
<1>1. TreeTypes(N, sy, lk, g)
  BY DEF Tree
<1>2. m \in Ends(N, sy) /\ m \in 1..N /\ In(At(sy, g, i, "eq"), w)
  BY DEF Below, Ends
<1>3. /\ g[i] \in Region /\ c \in Elem /\ p \in Words /\ Len(p) \in Nat
  BY <1>1, WordType, WordAndPath
<1>4. At(sy, g, i, "eq").pre = Append(p, c)
  BY DEF At, Part
<1>5. /\ q \in Words /\ Len(q) \in Nat /\ Len(w) = Len(q) + 1
      /\ \A j \in 1..Len(q) : w[j] = q[j]
  BY <1>1, <1>2, WordAndPath
<1>6. /\ Append(p, c) \in Words /\ Len(Append(p, c)) = Len(p) + 1
      /\ \A j \in 1..Len(p) : Append(p, c)[j] = p[j]
      /\ Append(p, c)[Len(p) + 1] = c
  BY <1>3, PrefixIs
<1>7. /\ Len(Append(p, c)) < Len(w)
      /\ \A j \in 1..Len(Append(p, c)) : w[j] = Append(p, c)[j]
  BY <1>2, <1>4 DEF In
<1>8. Cuts(E, q, s[m], <<>>)
  BY <1>2 DEF HasLines
<1> HIDE DEF p, q, c, w
<1>9. Len(p) < Len(q) /\ Len(p) <= Len(q)
  BY <1>3, <1>5, <1>6, <1>7
<1>10. ASSUME NEW j \in 1..(Len(p) + 1) PROVE q[j] = Append(p, c)[j]
  <2>1. j \in 1..Len(q)
    BY <1>3, <1>5, <1>9
  <2>. QED
    BY <1>5, <1>6, <1>7, <2>1
<1>11. \A j \in 1..Len(p) : q[j] = p[j]
  <2>1. \A j \in 1..Len(p) : j \in 1..(Len(p) + 1)
    BY <1>3
  <2>. QED
    BY <1>6, <1>10, <2>1
<1>12. q[Len(p) + 1] = c
  <2>1. Len(p) + 1 \in 1..(Len(p) + 1)
    BY <1>3
  <2>. QED
    BY <1>6, <1>10, <2>1
<1>18. PICK u : CutShort(E, p, q, s[m], <<>>, u)
  BY <1>3, <1>5, <1>8, <1>9, <1>11, CutsLess
<1>13. Cuts(E, p, s[m], u) /\ u # <<>> /\ c \in DOMAIN E /\ E[c] = First(u)
  BY <1>9, <1>12, <1>18 DEF CutShort
<1>14. Cuts(E, Append(p, c), s[m], AfterFirst(u))
  BY <1>3, <1>13, CutsMore
<1>15. u \in Seq(Chars)
  BY <1>3, <1>13, CutsType
<1>16. u = E[c] \o AfterFirst(u)
  BY <1>13, <1>15, FirstAndRest
<1>17. CutHere(g, E, s, i, c, m, u)
  BY <1>13, <1>14, <1>15, <1>16 DEF CutHere, p
<1>. QED
  BY <1>17 DEF c
-----------------------------------------------------------------------------
\* The equation that Texts solves.
Equation(sy, lk, E, f, i) ==
  IF i = Null THEN {}
  ELSE f[lk[i]["lo"]] \cup f[lk[i]["hi"]] \cup
       (IF sy[i] = Null THEN {<<>>} ELSE {E[sy[i]] \o t : t \in f[lk[i]["eq"]]})

TextsOnLinks(N, sy, g, E, s, i) ==
  TextsBelow(N, sy, g, E, s, At(sy, g, i, "lo")) \cup TextsBelow(N, sy, g, E, s, At(sy, g, i, "hi"))
  \cup (IF sy[i] = Null THEN {<<>>}
        ELSE {E[sy[i]] \o t : t \in TextsBelow(N, sy, g, E, s, At(sy, g, i, "eq"))})

LEMMA TextsOfNode ==
  ASSUME NEW N, NEW sy, NEW lk, NEW g, Tree(N, sy, lk, g), NEW E, NEW s,
         HasLines(N, sy, g, E, s), NEW i \in 1..N
  PROVE  TextsBelow(N, sy, g, E, s, g[i]) = TextsOnLinks(N, sy, g, E, s, i)
<1> DEFINE p == g[i].pre
           lo == At(sy, g, i, "lo")
           hi == At(sy, g, i, "hi")
           eq == At(sy, g, i, "eq")
           all == Below(N, sy, g, g[i])
           T(r) == TextsBelow(N, sy, g, E, s, r)
           X == {E[sy[i]] \o t : t \in T(eq)}
<1>1. TreeTypes(N, sy, lk, g)
  BY DEF Tree
<1>2. p \in Words /\ sy[i] \in Elem /\ Append(p, sy[i]) \in Words
  BY <1>1, WordAndPath, WordType, PrefixIs
<1>3. lo.pre = p /\ hi.pre = p /\ eq.pre = Append(p, sy[i])
  BY DEF At, Part
<1>4. all = Below(N, sy, g, lo) \cup Below(N, sy, g, hi)
            \cup (IF sy[i] = Null THEN {i} ELSE Below(N, sy, g, eq))
  BY BelowNode
<1>5. /\ T(g[i]) = {u \in Seq(Chars) : \E m \in all : Cuts(E, p, s[m], u)}
      /\ T(lo) = {u \in Seq(Chars) : \E m \in Below(N, sy, g, lo) : Cuts(E, p, s[m], u)}
      /\ T(hi) = {u \in Seq(Chars) : \E m \in Below(N, sy, g, hi) : Cuts(E, p, s[m], u)}
  BY <1>3 DEF TextsBelow
<1>6. T(eq) = {u \in Seq(Chars) : \E m \in Below(N, sy, g, eq) : Cuts(E, Append(p, sy[i]), s[m], u)}
  BY <1>3 DEF TextsBelow
<1>7. CASE sy[i] = Null
  <2>1. Cuts(E, p, s[i], <<>>)
    BY <1>7 DEF HasLines, Ends
  <2>2. \A u : Cuts(E, p, s[i], u) => u = <<>>
    BY <1>2, <2>1, CutsOnce
  <2>3. <<>> \in Seq(Chars)
    BY EmptySeq
  <2> HIDE DEF p, lo, hi, eq, all, T
  <2>4. T(g[i]) = T(lo) \cup T(hi) \cup {<<>>}
    BY <1>4, <1>5, <1>7, <2>1, <2>2, <2>3
  <2>. QED
    BY <1>7, <2>4 DEF T, lo, hi, eq, TextsOnLinks
<1>8. CASE sy[i] # Null
  <2>1. ASSUME NEW m \in Below(N, sy, g, eq) PROVE \E u : CutHere(g, E, s, i, sy[i], m, u)
    BY <2>1, CutBelow
  <2>2. ASSUME NEW u \in Seq(Chars), NEW m \in Below(N, sy, g, eq), Cuts(E, p, s[m], u)
        PROVE  u \in X
    <3>1. PICK v : CutHere(g, E, s, i, sy[i], m, v)
      BY <2>1
    <3>2. /\ Cuts(E, p, s[m], v) /\ Cuts(E, Append(p, sy[i]), s[m], AfterFirst(v))
          /\ v = E[sy[i]] \o AfterFirst(v)
      BY <3>1 DEF CutHere
    <3>3. v = u
      BY <1>2, <2>2, <3>2, CutsOnce
    <3>4. AfterFirst(v) \in Seq(Chars)
      BY <1>2, <3>2, CutsType
    <3> HIDE DEF T, eq
    <3>5. AfterFirst(v) \in T(eq)
      BY <1>6, <3>2, <3>4
    <3>. QED
      BY <3>2, <3>3, <3>5
  <2>3. ASSUME NEW x \in X
        PROVE  x \in Seq(Chars) /\ \E m \in Below(N, sy, g, eq) : Cuts(E, p, s[m], x)
    <3> HIDE DEF T, eq
    <3>1. PICK t \in T(eq) : x = E[sy[i]] \o t
      OBVIOUS
    <3>2. PICK m \in Below(N, sy, g, eq) : Cuts(E, Append(p, sy[i]), s[m], t)
      BY <1>6
    <3>3. PICK v : CutHere(g, E, s, i, sy[i], m, v)
      BY <2>1
    <3>4. /\ Cuts(E, p, s[m], v) /\ Cuts(E, Append(p, sy[i]), s[m], AfterFirst(v))
          /\ v = E[sy[i]] \o AfterFirst(v) /\ v \in Seq(Chars)
      BY <3>3 DEF CutHere
    <3>5. t = AfterFirst(v)
      BY <1>2, <3>2, <3>4, CutsOnce
    <3>. QED
      BY <3>1, <3>4, <3>5
  <2> HIDE DEF p, lo, hi, eq, all, T, X
  <2>4. T(g[i]) = T(lo) \cup T(hi) \cup X
    BY <1>4, <1>5, <1>8, <2>2, <2>3
  <2>. QED
    BY <1>8, <2>4 DEF T, lo, hi, eq, X, TextsOnLinks
<1>. QED
  BY <1>7, <1>8

LEMMA Solution ==
  ASSUME NEW N, NEW sy, NEW lk, NEW g, Tree(N, sy, lk, g), NEW E, NEW s,
         HasLines(N, sy, g, E, s), NEW F,
         \A i \in 0..N : F[i] = TextsAt(N, sy, g, E, s, i)
  PROVE  \A i \in 0..N : F[i] = Equation(sy, lk, E, F, i)
<1>1. TreeTypes(N, sy, lk, g) /\ TreeLinks(N, sy, lk, g) /\ N \in Nat
  BY DEF Tree, TreeTypes
<1> SUFFICES ASSUME NEW i \in 0..N PROVE F[i] = Equation(sy, lk, E, F, i)
  OBVIOUS
<1>2. CASE i = Null
  BY <1>2 DEF Equation, TextsAt
<1>3. CASE i # Null
  <2>1. i \in 1..N
    BY <1>1, <1>3 DEF Null
  <2>2. ASSUME NEW l \in Kid
        PROVE  F[lk[i][l]] = TextsBelow(N, sy, g, E, s, At(sy, g, i, l))
    <3>1. CASE lk[i][l] = Null
      <4>1. TextsBelow(N, sy, g, E, s, At(sy, g, i, l)) = {}
        BY <2>1, <3>1, FreeIsEmpty DEF TextsBelow
      <4>2. Null \in 0..N
        BY <1>1 DEF Null
      <4>. QED
        BY <3>1, <4>1, <4>2 DEF TextsAt
    <3>2. CASE lk[i][l] # Null
      <4>1. lk[i][l] \in 1..N /\ g[lk[i][l]] = At(sy, g, i, l)
        BY <1>1, <2>1, <3>2 DEF TreeLinks
      <4>2. lk[i][l] \in 0..N
        BY <1>1, <4>1
      <4>. QED
        BY <3>2, <4>1, <4>2 DEF TextsAt
    <3>. QED
      BY <3>1, <3>2
  <2>3. "lo" \in Kid /\ "hi" \in Kid /\ "eq" \in Kid
    BY DEF Kid
  <2>4. F[i] = TextsBelow(N, sy, g, E, s, g[i])
    BY <1>3 DEF TextsAt
  <2>5. F[i] = TextsOnLinks(N, sy, g, E, s, i)
    BY <2>1, <2>4, TextsOfNode
  <2>. QED
    BY <1>3, <2>2, <2>3, <2>5 DEF Equation, TextsOnLinks
<1>. QED
  BY <1>2, <1>3

Solves(N, sy, lk, E, f) == \A i \in 0..N : f[i] = Equation(sy, lk, E, f, i)

LEMMA OneSolution ==
  ASSUME NEW N, NEW sy, NEW lk, NEW g, Tree(N, sy, lk, g), NEW E, NEW f, NEW h,
         Solves(N, sy, lk, E, f), Solves(N, sy, lk, E, h)
  PROVE  \A i \in 0..N : f[i] = h[i]
<1>1. TreeTypes(N, sy, lk, g) /\ TreeLinks(N, sy, lk, g) /\ N \in Nat
  BY DEF Tree, TreeTypes
<1>0. /\ \A i \in 0..N : f[i] = Equation(sy, lk, E, f, i)
      /\ \A i \in 0..N : h[i] = Equation(sy, lk, E, h, i)
  BY DEF Solves
<1> DEFINE T == {k \in 0..N : f[N - k] # h[N - k]}
<1> SUFFICES ASSUME T # {} PROVE FALSE
  <2>1. ASSUME NEW i \in 0..N PROVE N - i \in 0..N /\ N - (N - i) = i
    BY <1>1
  <2>. QED
    BY <2>1
<1>2. PICK k \in T : \A x \in T : k <= x
  <2>1. T \in SUBSET Nat
    OBVIOUS
  <2> HIDE DEF T
  <2>. QED
    BY <2>1, LeastElement
<1> DEFINE i == N - k
<1>3. k \in 0..N /\ i \in 0..N /\ f[i] # h[i]
  BY <1>1
<1>4. \A j \in 0..N : j > i => f[j] = h[j]
  <2> SUFFICES ASSUME NEW j \in 0..N, j > i, f[j] # h[j] PROVE FALSE
    OBVIOUS
  <2>1. N - j \in 0..N /\ N - (N - j) = j /\ N - j < k
    BY <1>1, <1>3
  <2>2. N - j \in T
    BY <2>1
  <2> HIDE DEF T, i
  <2>. QED
    BY <1>2, <1>3, <2>1, <2>2
<1> HIDE DEF T, i
<1>10. f[0] = {} /\ h[0] = {}
  <2>1. 0 \in 0..N
    BY <1>1
  <2>. QED
    BY <1>0, <2>1 DEF Equation, Null
<1>5. i # 0
  BY <1>3, <1>10
<1>6. i \in 1..N
  BY <1>1, <1>3, <1>5
<1>7. ASSUME NEW l \in Kid PROVE f[lk[i][l]] = h[lk[i][l]]
  <2>1. CASE lk[i][l] = Null
    BY <1>10, <2>1 DEF Null
  <2>2. CASE lk[i][l] # Null
    <3>1. lk[i][l] \in 1..N /\ lk[i][l] > i
      BY <1>1, <1>6, <2>2 DEF TreeLinks
    <3>. QED
      BY <1>1, <1>4, <3>1
  <2>. QED
    BY <2>1, <2>2
<1>8. "lo" \in Kid /\ "hi" \in Kid /\ "eq" \in Kid
  BY DEF Kid
<1>9. Equation(sy, lk, E, f, i) = Equation(sy, lk, E, h, i)
  BY <1>7, <1>8 DEF Equation
<1>. QED
  BY <1>0, <1>3, <1>9
-----------------------------------------------------------------------------
(***************************************************************************)
(* The nodes in memory.  The first N of them are linked; one that was just *)
(* allocated is not yet.  The union of a node at which a line ends is not a*)
(* link.                                                                   *)
(***************************************************************************)
Node == [elem : Nat, lo : Nat, hi : Nat, eq : Nat]

Syms(N) == [n \in 1..N |-> mem[n].elem]

LinkTo(n, l) == CASE l = "lo" -> n.lo
                  [] l = "hi" -> n.hi
                  [] l = "eq" -> IF n.elem = Null THEN Null ELSE n.eq

Links(N) == [n \in 1..N |-> [l \in Kid |-> LinkTo(mem[n], l)]]

Bare(n) == n.lo = Null /\ n.hi = Null /\ n.eq = Null

MemTree(N, g, s) ==
  /\ mem \in Seq(Node) /\ N \in 0..Len(mem)
  /\ \A n \in 1..Len(mem) : n > N => Bare(mem[n])
  /\ Tree(N, Syms(N), Links(N), g)
  /\ HasLines(N, Syms(N), g, elems, s)
  /\ \A m \in Ends(N, Syms(N)) : s[m] \in Lines

Rooted(N) == root = IF N = 0 THEN Null ELSE 1

LinesOf(N, s) == {s[m] : m \in Ends(N, Syms(N))}

LEMMA MemFacts ==
  ASSUME mem \in Seq(Node)
  PROVE  /\ Len(mem) \in Nat /\ DOMAIN mem = 1..Len(mem)
         /\ \A n \in 1..Len(mem) : mem[n] \in Node
BY LenProperties, ElementOfSeq

LEMMA TextsAre ==
  ASSUME NEW N, NEW g, NEW s, MemTree(N, g, s), NEW i \in 0..N
  PROVE  Texts(i) = TextsAt(N, Syms(N), g, elems, s, i)
<1> DEFINE sy == Syms(N)
           lk == Links(N)
           A(k) == TextsAt(N, sy, g, elems, s, k)
           Q(f, k) == IF k = Null THEN {}
                      ELSE f[mem[k].lo] \cup f[mem[k].hi] \cup
                           (IF mem[k].elem = Null THEN {<<>>}
                            ELSE {elems[mem[k].elem] \o t : t \in f[mem[k].eq]})
           C == CHOOSE f : f = [k \in Offsets |-> Q(f, k)]
           F == [k \in Offsets |-> IF k \in 0..N THEN A(k)
                                   ELSE IF mem[k].elem = Null THEN {<<>>} ELSE {}]
<1>1. /\ Len(mem) \in Nat /\ N \in 0..Len(mem) /\ Offsets = 0..Len(mem)
      /\ \A n \in 1..Len(mem) : n > N => Bare(mem[n])
      /\ Tree(N, sy, lk, g) /\ HasLines(N, sy, g, elems, s)
  BY MemFacts DEF MemTree, Offsets
<1>2. Texts(i) = C[i]
  BY DEF Texts
<1>3. ASSUME NEW f, NEW k \in 0..N PROVE Q(f, k) = Equation(sy, lk, elems, f, k)
  <2>1. CASE k = Null
    BY <2>1 DEF Equation
  <2>2. CASE k # Null
    <3>1. k \in 1..N
      BY <1>1, <2>2 DEF Null
    <3>2. sy[k] = mem[k].elem
      BY <3>1 DEF Syms
    <3>3. /\ lk[k]["lo"] = mem[k].lo /\ lk[k]["hi"] = mem[k].hi
          /\ mem[k].elem # Null => lk[k]["eq"] = mem[k].eq
      BY <3>1 DEF Links, LinkTo, Kid
    <3> HIDE DEF sy, lk
    <3>. QED
      BY <2>2, <3>2, <3>3 DEF Equation
  <2>. QED
    BY <2>1, <2>2
<1>4. \A k \in 0..N : F[k] = A(k)
  <2>1. \A k \in 0..N : k \in Offsets
    BY <1>1
  <2> HIDE DEF A
  <2>. QED
    BY <2>1
<1>5. \A k \in Offsets : k \notin 0..N => F[k] = IF mem[k].elem = Null THEN {<<>>} ELSE {}
  OBVIOUS
<1> HIDE DEF Q, sy, lk
<1>6. \A k \in 0..N : F[k] = Equation(sy, lk, elems, F, k)
  <2> HIDE DEF F
  <2>1. \A k \in 0..N : F[k] = TextsAt(N, sy, g, elems, s, k)
    BY <1>4
  <2>. QED
    BY <1>1, <2>1, Solution
<1>7. F = [k \in Offsets |-> Q(F, k)]
  <2> DEFINE D == [k \in Offsets |-> Q(F, k)]
  <2>1. \A k \in 0..N : F[k] = Q(F, k)
    BY <1>3, <1>6
  <2>2. ASSUME NEW k \in Offsets, k \notin 0..N PROVE F[k] = Q(F, k)
    <3>1. k \in 1..Len(mem) /\ k > N /\ k # Null /\ Null \in 0..N
      BY <1>1, <2>2 DEF Null
    <3>2. mem[k].lo = Null /\ mem[k].hi = Null /\ mem[k].eq = Null
      BY <1>1, <3>1 DEF Bare
    <3>3. F[Null] = {}
      BY <1>4, <3>1 DEF TextsAt
    <3> HIDE DEF F
    <3>4. Q(F, k) = IF mem[k].elem = Null THEN {<<>>} ELSE {}
      BY <3>1, <3>2, <3>3 DEF Q
    <3>. QED
      BY <1>5, <2>2, <3>4
  <2>3. \A k \in Offsets : F[k] = D[k]
    BY <2>1, <2>2
  <2>. QED
    BY <2>3
<1>8. C = [k \in Offsets |-> Q(C, k)]
  <2> HIDE DEF F
  <2>. QED
    BY <1>7, Zenon DEF Q
<1> HIDE DEF C
<1>9. \A k \in 0..N : C[k] = Equation(sy, lk, elems, C, k)
  <2> DEFINE D == [k \in Offsets |-> Q(C, k)]
  <2>1. \A k \in 0..N : k \in Offsets
    BY <1>1
  <2>2. \A k \in 0..N : D[k] = Q(C, k)
    BY <2>1
  <2>3. C = D
    BY <1>8
  <2> HIDE DEF D
  <2>. QED
    BY <1>3, <2>2, <2>3
<1>10. \A k \in 0..N : C[k] = F[k]
  <2> HIDE DEF F
  <2>1. Solves(N, sy, lk, elems, C) /\ Solves(N, sy, lk, elems, F)
    BY <1>6, <1>9 DEF Solves
  <2>2. Tree(N, sy, lk, g)
    BY <1>1
  <2>. QED
    BY <2>1, <2>2, OneSolution
<1>. QED
  BY <1>2, <1>4, <1>10 DEF sy

\* The lines stored are those of the nodes at which one ends.
LEMMA AllInWhole ==
  ASSUME NEW N, NEW sy, NEW lk, NEW g, TreeTypes(N, sy, lk, g)
  PROVE  Below(N, sy, g, Whole) = Ends(N, sy)
<1>1. Whole.pre = <<>> /\ Len(Whole.pre) = 0 /\ Whole.syms = Elem
  BY EmptySeq DEF Whole
<1>2. ASSUME NEW n \in 1..N PROVE In(Whole, WordOf(sy, g, n))
  <2> DEFINE w == WordOf(sy, g, n)
  <2>1. w \in Words /\ Len(w) \in Nat /\ Len(w) > 0
    <3>1. Len(g[n].pre) \in Nat /\ w \in Words /\ Len(w) = Len(g[n].pre) + 1
      BY WordAndPath
    <3>. QED
      BY <3>1
  <2> HIDE DEF w
  <2>2. 1 \in 1..Len(w)
    BY <2>1
  <2>3. w[1] \in Elem
    BY <2>1, <2>2, SymbolsOf
  <2>4. 0 + 1 = 1 /\ 1..0 = {}
    OBVIOUS
  <2>. QED
    BY <1>1, <2>1, <2>3, <2>4 DEF In, w
<1>. QED
  BY <1>2 DEF Below, Ends

StoredRight == \A N, g, s : MemTree(N, g, s) /\ Rooted(N) => Stored = LinesOf(N, s)

LEMMA StoredIs == StoredRight
<1> SUFFICES ASSUME NEW N, NEW g, NEW s, MemTree(N, g, s), Rooted(N)
             PROVE  Stored = LinesOf(N, s)
  BY DEF StoredRight
<1> DEFINE sy == Syms(N)
<1>1. /\ N \in Nat /\ TreeTypes(N, sy, Links(N), g) /\ TreeLinks(N, sy, Links(N), g)
      /\ HasLines(N, sy, g, elems, s)
  BY DEF MemTree, Tree, TreeTypes
<1>2. root \in 0..N
  BY <1>1 DEF Rooted, Null
<1>3. Stored = TextsAt(N, sy, g, elems, s, root)
  BY <1>2, TextsAre DEF Stored
<1>4. CASE N = 0
  BY <1>3, <1>4, SMT DEF Rooted, Null, TextsAt, LinesOf, Ends
<1>5. CASE N # 0
  <2>1. root = 1 /\ g[1] = Whole /\ root # Null
    BY <1>1, <1>5 DEF Rooted, TreeLinks, Null
  <2>2. Whole.pre = <<>>
    BY DEF Whole
  <2>4. Below(N, sy, g, Whole) = Ends(N, sy)
    BY <1>1, AllInWhole
  <2>5. ASSUME NEW m \in Ends(N, sy)
        PROVE  s[m] \in Seq(Chars) /\ \A u : Cuts(elems, <<>>, s[m], u) <=> u = s[m]
    <3>1. Cuts(elems, g[m].pre, s[m], <<>>) /\ g[m].pre \in Words
      BY <1>1, WordAndPath DEF HasLines, Ends
    <3>2. s[m] \in Seq(Chars)
      BY <3>1, CutsType
    <3>. QED
      BY <3>2, CutsNothing
  <2>6. Stored = {u \in Seq(Chars) : \E m \in Ends(N, sy) : Cuts(elems, <<>>, s[m], u)}
    BY <1>3, <2>1, <2>2, <2>4 DEF TextsAt, TextsBelow
  <2>. QED
    BY <2>5, <2>6 DEF LinesOf
<1>. QED
  BY <1>4, <1>5
-----------------------------------------------------------------------------
(***************************************************************************)
(* The invariant: the nodes are a tree, and a search has gone the way of   *)
(* its line, as far as the line is cut.                                    *)
(***************************************************************************)
\* A node that was allocated is linked at the next step.
Size == IF pc = "store" THEN Len(mem) - 1 ELSE Len(mem)

Link == [link : {"self"} \cup Kid, base : Nat, self : Nat]

PtrOK == /\ ptr \in Link
         /\ ptr.link # "self" => /\ ptr.base \in 1..Size
                                 /\ ptr.link = "eq" => mem[ptr.base].elem # Null

\* Where the link leads.
Target == IF ptr.link = "self" THEN root ELSE mem[ptr.base][ptr.link]

Reached(N, g) == IF ptr.link = "self" THEN Whole ELSE At(Syms(N), g, ptr.base, ptr.link)

\* The element at hand comes after p in the line.
ComesNext(p) == IF elem = Null THEN rest = <<>> /\ Cuts(elems, p, line, <<>>)
                ELSE Cuts(elems, Append(p, elem), line, rest)

OnWay(N, g) ==
  /\ line \in Lines
  /\ IF next THEN Reached(N, g).syms = Elem /\ Cuts(elems, Reached(N, g).pre, line, rest)
     ELSE elem \in Reached(N, g).syms /\ ComesNext(Reached(N, g).pre)

\* A lookup of a line that is stored is on the way to its node m.
Nearing(N, g, m) ==
  /\ cur \in 1..N /\ In(g[cur], WordOf(Syms(N), g, m))
  /\ IF next THEN Cuts(elems, g[cur].pre, line, rest)
     ELSE /\ elem = WordOf(Syms(N), g, m)[Len(g[cur].pre) + 1]
          /\ elem # Null => Cuts(elems, Append(g[cur].pre, elem), line, rest)

Finding(N, g, s) == /\ line \in Lines
                    /\ \A m \in Ends(N, Syms(N)) : s[m] = line => Nearing(N, g, m)

TreeWith(N, g, s) == /\ N = Size /\ Rooted(N) /\ MemTree(N, g, s)
                     /\ pc \in {"walk", "grow", "store"} => OnWay(N, g)
                     /\ pc = "lookup" => Finding(N, g, s)

TreeOK == \E N, g, s : TreeWith(N, g, s)

\* The node whose value is to be set: that of the line, new.
PutOK == /\ Valid(ptr) /\ Target \in 1..Len(mem)
         /\ mem[Target].elem = Null /\ mem[Target].eq = Null

Frame == [node : 1..Len(mem), at : {"lo", "self", "pop", "hi"}]

PathInv == /\ TypeOK
           /\ frames \in Seq(Frame)
           /\ Distinct(elems)
           /\ PtrOK
           /\ pc = "store" => Len(mem) > 0 /\ mem[Len(mem)] = NewNode(elem) /\ ~next
           /\ pc \in {"grow", "store"} => Target = Null
           /\ pc = "put" => PutOK
           /\ TreeOK

\* What the addresses come to: a link that is dereferenced is where it was.
LEMMA DerefIs ==
  ASSUME NEW p \in Link, addr \in {1, 2}
  PROVE  /\ Deref(p) \in Link /\ Valid(Deref(p))
         /\ Deref(p).link = p.link /\ Deref(p).base = p.base
         /\ Load(Deref(p)) = IF p.link = "self" THEN root ELSE mem[p.base][p.link]
<1>1. CASE p.link = "self"
  <2>1. Deref(p) = p
    BY <1>1 DEF Deref
  <2>. QED
    BY <1>1, <2>1 DEF Valid, Load
<1>2. CASE p.link # "self"
  <2> DEFINE q == [p EXCEPT !.self = addr]
  <2>1. q \in Link /\ q.link = p.link /\ q.base = p.base /\ q.self = addr
    BY DEF Link
  <2>2. Deref(p) = q
    BY <1>2 DEF Deref
  <2> HIDE DEF q
  <2>. QED
    BY <1>2, <2>1, <2>2 DEF Valid, Load
<1>. QED
  BY <1>1, <1>2

LEMMA HereIs ==
  ASSUME PtrOK, addr \in {1, 2}
  PROVE  /\ Here = Target
         /\ Deref(ptr) \in Link /\ Valid(Deref(ptr))
         /\ Deref(ptr).link = ptr.link /\ Deref(ptr).base = ptr.base
BY DerefIs DEF Here, Target, PtrOK

\* The element set gives a string its pointer, the same each time.
Interns(E, D, t, e) == /\ D \in Seq(Seq(Chars)) /\ Len(D) <= MaxElems /\ Len(E) <= Len(D)
                       /\ Distinct(D)
                       /\ Grown(E, D)
                       /\ e \in 0..Len(D)
                       /\ e # Null => D[e] = t /\ e \in DOMAIN D

LEMMA InternedIs ==
  ASSUME elems \in Seq(Seq(Chars)), NEW t, Distinct(elems)
  PROVE  /\ Interned(t) \in 0..Len(elems)
         /\ Interned(t) # Null => Interned(t) \in DOMAIN elems /\ elems[Interned(t)] = t
         /\ \A i \in DOMAIN elems : elems[i] = t => Interned(t) = i
         /\ Interned(t) = Null => \A i \in DOMAIN elems : elems[i] # t
<1>1. Len(elems) \in Nat /\ DOMAIN elems = 1..Len(elems)
  BY LenProperties
<1>2. CASE \E i \in DOMAIN elems : elems[i] = t
  <2> DEFINE e == CHOOSE i \in DOMAIN elems : elems[i] = t
  <2>1. e \in DOMAIN elems /\ elems[e] = t
    BY <1>2
  <2>2. Interned(t) = e
    BY <1>2 DEF Interned
  <2> HIDE DEF e
  <2>3. e # Null /\ e \in 0..Len(elems)
    BY <1>1, <2>1 DEF Null
  <2>. QED
    BY <2>1, <2>2, <2>3 DEF Distinct
<1>3. CASE ~ \E i \in DOMAIN elems : elems[i] = t
  BY <1>1, <1>3 DEF Interned, Null
<1>. QED
  BY <1>2, <1>3

LEMMA PutElemIs ==
  ASSUME elems \in Seq(Seq(Chars)), Len(elems) <= MaxElems, Distinct(elems),
         rest \in Seq(Chars), PutElem
  PROVE  /\ rest' \in Seq(Chars)
         /\ Interns(elems, elems', First(rest), elem')
         /\ rest = <<>> => elem' = Null /\ rest' = <<>>
         /\ rest # <<>> => elem' # Null /\ rest' = AfterFirst(rest)
<1> DEFINE t == First(rest)
           D == Append(elems, t)
<1>1. Len(elems) \in Nat /\ DOMAIN elems = 1..Len(elems) /\ MaxElems \in Nat
  BY LenProperties, LinesAssumption
<1>2. CASE rest = <<>>
  <2>1. elem' = Null /\ elems' = elems /\ rest' = rest
    BY <1>2 DEF PutElem
  <2>. QED
    BY <1>1, <1>2, <2>1 DEF Interns, Null, Grown
<1>3. CASE rest # <<>>
  <2>1. t \in Seq(Chars) /\ AfterFirst(rest) \in Seq(Chars)
    BY <1>3, FirstAndRest
  <2>2. rest' = AfterFirst(rest)
    BY <1>3 DEF PutElem
  <2> HIDE DEF t
  <2>3. CASE Interned(t) # Null
    <3>1. elem' = Interned(t) /\ elems' = elems
      BY <1>3, <2>3 DEF PutElem, t
    <3>2. Interned(t) \in 0..Len(elems) /\ Interned(t) \in DOMAIN elems /\ elems[Interned(t)] = t
      BY <2>3, InternedIs
    <3>. QED
      BY <1>1, <1>3, <2>1, <2>2, <2>3, <3>1, <3>2 DEF Interns, Grown, t
  <2>4. CASE Interned(t) = Null
    <3>1. elem' = Len(elems) + 1 /\ elems' = D /\ Len(elems) < MaxElems
      BY <1>3, <2>4 DEF PutElem, t
    <3>2. /\ D \in Seq(Seq(Chars)) /\ Len(D) = Len(elems) + 1
          /\ \A i \in 1..Len(elems) : D[i] = elems[i]
          /\ D[Len(elems) + 1] = t
      BY <2>1, AppendProperties
    <3>3. DOMAIN D = 1..(Len(elems) + 1)
      BY <3>2, LenProperties
    <3>4. \A i \in DOMAIN elems : elems[i] # t
      BY <2>4, InternedIs
    <3> HIDE DEF D
    <3>5. Distinct(D)
      <4> SUFFICES ASSUME NEW i \in DOMAIN D, NEW j \in DOMAIN D, D[i] = D[j] PROVE i = j
        BY DEF Distinct
      <4>1. i \in 1..Len(elems) \/ i = Len(elems) + 1
        BY <1>1, <3>3
      <4>2. j \in 1..Len(elems) \/ j = Len(elems) + 1
        BY <1>1, <3>3
      <4>. QED
        BY <1>1, <3>2, <3>4, <4>1, <4>2 DEF Distinct
    <3>6. Len(elems) + 1 # Null /\ Len(elems) + 1 \in 0..Len(D) /\ Len(elems) + 1 \in DOMAIN D
          /\ Len(D) <= MaxElems /\ Len(elems) <= Len(D)
      BY <1>1, <3>1, <3>2, <3>3 DEF Null
    <3>7. \A i \in DOMAIN elems : i \in DOMAIN D /\ D[i] = elems[i]
      BY <1>1, <3>2, <3>3
    <3>8. Interns(elems, D, t, Len(elems) + 1)
      BY <3>2, <3>5, <3>6, <3>7 DEF Interns, Grown
    <3>. QED
      BY <1>3, <2>1, <2>2, <3>1, <3>6, <3>8 DEF t
  <2>. QED
    BY <2>3, <2>4
<1>. QED
  BY <1>2, <1>3
-----------------------------------------------------------------------------
(***************************************************************************)
(* What a search finds.                                                    *)
(***************************************************************************)
LEMMA TreeIs ==
  ASSUME NEW N, NEW g, NEW s, MemTree(N, g, s)
  PROVE  /\ Len(mem) \in Nat /\ N \in Nat /\ N <= Len(mem) /\ DOMAIN mem = 1..Len(mem)
         /\ \A n \in 1..Len(mem) : mem[n] \in Node
         /\ Tree(N, Syms(N), Links(N), g)
         /\ TreeTypes(N, Syms(N), Links(N), g) /\ TreeLinks(N, Syms(N), Links(N), g)
         /\ \A n \in 1..N : n \in 1..Len(mem) /\ Syms(N)[n] = mem[n].elem
BY MemFacts DEF MemTree, Tree, TreeTypes, Syms

\* A link of a node, in memory and in the tree.
LEMMA LinkIs ==
  ASSUME NEW N, NEW n \in 1..N, NEW l \in Kid, l = "eq" => mem[n].elem # Null
  PROVE  Links(N)[n][l] = mem[n][l]
<1>1. Links(N)[n][l] = LinkTo(mem[n], l)
  BY DEF Links
<1>. QED
  BY <1>1 DEF LinkTo, Kid

LEMMA PtrBase ==
  ASSUME PtrOK, NEW N, N = Size, ptr.link # "self"
  PROVE  /\ ptr.base \in 1..N /\ ptr.link \in Kid
         /\ ptr.link = "eq" => mem[ptr.base].elem # Null
         /\ Target = Links(N)[ptr.base][ptr.link]
<1>1. /\ ptr.base \in 1..N /\ ptr.link \in Kid
      /\ ptr.link = "eq" => mem[ptr.base].elem # Null
  BY DEF PtrOK, Link
<1>2. Links(N)[ptr.base][ptr.link] = mem[ptr.base][ptr.link]
  BY <1>1, LinkIs
<1>. QED
  BY <1>1, <1>2 DEF Target

LEMMA ReachedIs ==
  ASSUME PtrOK, NEW N, NEW g, NEW s, N = Size, MemTree(N, g, s)
  PROVE  Reached(N, g) \in Region
<1>1. CASE ptr.link = "self"
  <2>1. Whole \in Region
    BY EmptySeq DEF Whole, Region, Words
  <2>. QED
    BY <1>1, <2>1 DEF Reached
<1>2. CASE ptr.link # "self"
  BY <1>2, PtrBase, TreeIs, LinkRegion DEF Reached
<1>. QED
  BY <1>1, <1>2

\* The node a search has come to.
LEMMA TargetIs ==
  ASSUME PtrOK, NEW N, NEW g, NEW s, N = Size, Rooted(N), MemTree(N, g, s), Target # Null
  PROVE  Target \in 1..N /\ g[Target] = Reached(N, g) /\ Syms(N)[Target] = mem[Target].elem
<1>1. Target \in 1..N /\ g[Target] = Reached(N, g)
  <2>1. CASE ptr.link = "self"
    <3>1. N # 0 /\ Target = 1
      BY <2>1 DEF Target, Rooted
    <3>2. N \in Nat /\ TreeLinks(N, Syms(N), Links(N), g)
      BY TreeIs
    <3>3. N > 0 /\ 1 \in 1..N
      BY <3>1, <3>2
    <3>4. g[1] = Whole
      BY <3>2, <3>3 DEF TreeLinks
    <3>. QED
      BY <2>1, <3>1, <3>3, <3>4 DEF Reached
  <2>2. CASE ptr.link # "self"
    <3>1. /\ ptr.base \in 1..N /\ ptr.link \in Kid
          /\ Target = Links(N)[ptr.base][ptr.link]
      BY <2>2, PtrBase
    <3>2. TreeLinks(N, Syms(N), Links(N), g)
      BY TreeIs
    <3>. QED
      BY <2>2, <3>1, <3>2 DEF TreeLinks, Reached
  <2>. QED
    BY <2>1, <2>2
<1>. QED
  BY <1>1 DEF Syms

\* An insert that ends at a link that leads nowhere has a new line.
LEMMA LineIsNew ==
  ASSUME PathInv, NEW N, NEW g, NEW s, TreeWith(N, g, s), pc = "store", elem = Null
  PROVE  line \notin LinesOf(N, s)
<1> DEFINE sy == Syms(N)
           r == Reached(N, g)
<1>1. /\ PtrOK /\ Target = Null /\ ~next /\ Distinct(elems)
      /\ N = Size /\ MemTree(N, g, s) /\ Rooted(N) /\ OnWay(N, g)
  BY DEF PathInv, TreeWith
<1>2. r \in Region
  BY <1>1, ReachedIs
<1>3. elem \in r.syms /\ Cuts(elems, r.pre, line, <<>>)
  BY <1>1 DEF OnWay, ComesNext
<1>4. /\ N \in Nat /\ Tree(N, sy, Links(N), g) /\ TreeTypes(N, sy, Links(N), g)
      /\ HasLines(N, sy, g, elems, s)
  BY <1>1, TreeIs DEF MemTree
<1> SUFFICES ASSUME NEW m \in Ends(N, sy), s[m] = line PROVE FALSE
  BY DEF LinesOf
<1>5. m \in 1..N /\ sy[m] = Null /\ Cuts(elems, g[m].pre, line, <<>>)
  BY <1>4 DEF HasLines, Ends
<1>6. g[m].pre \in Words /\ r.pre \in Words
  BY <1>2, <1>4, <1>5, WordAndPath DEF Region
<1>7. g[m].pre = r.pre
  BY <1>1, <1>3, <1>5, <1>6, CutsSame
<1>8. WordOf(sy, g, m) = Append(r.pre, elem)
  BY <1>5, <1>7 DEF WordOf
<1>9. In(r, WordOf(sy, g, m))
  <2>1. elem \in Elem
    BY <1>2, <1>3 DEF Region
  <2> HIDE DEF r
  <2>. QED
    BY <1>2, <1>3, <1>8, <2>1, OwnWord
<1>10. CASE ptr.link = "self"
  BY <1>1, <1>4, <1>5, <1>10 DEF Target, Rooted, Null
<1>11. CASE ptr.link # "self"
  <2>1. ptr.base \in 1..N /\ ptr.link \in Kid /\ Links(N)[ptr.base][ptr.link] = Null
    BY <1>1, <1>11, PtrBase
  <2>2. In(At(sy, g, ptr.base, ptr.link), WordOf(sy, g, m))
    BY <1>9, <1>11 DEF Reached
  <2>. QED
    BY <1>4, <1>5, <2>1, <2>2 DEF Tree, FreeOfNodes
<1>. QED
  BY <1>10, <1>11

\* An insert that ends at a node with no element has found its line there.
LEMMA LineIsThere ==
  ASSUME PathInv, NEW N, NEW g, NEW s, TreeWith(N, g, s), pc = "walk", Target # Null, ~next,
         elem = Null, mem[Target].elem = Null
  PROVE  line \in LinesOf(N, s)
<1> DEFINE sy == Syms(N)
           r == Reached(N, g)
<1>1. /\ PtrOK /\ N = Size /\ MemTree(N, g, s) /\ Rooted(N) /\ OnWay(N, g)
  BY DEF PathInv, TreeWith
<1>2. Target \in 1..N /\ g[Target] = r /\ sy[Target] = Null
  BY <1>1, TargetIs
<1>3. Cuts(elems, r.pre, line, <<>>)
  BY <1>1 DEF OnWay, ComesNext
<1>4. Target \in Ends(N, sy)
  BY <1>2 DEF Ends
<1>5. Cuts(elems, r.pre, s[Target], <<>>)
  BY <1>1, <1>2, <1>4 DEF MemTree, HasLines
<1>6. r.pre \in Words
  BY <1>1, ReachedIs DEF Region
<1>7. s[Target] = line
  BY <1>3, <1>5, <1>6, CutsBack
<1>. QED
  BY <1>4, <1>7 DEF LinesOf

\* What is stored, by the invariant.
LEMMA StoredOf ==
  ASSUME NEW N, NEW g, NEW s, TreeWith(N, g, s)
  PROVE  Stored = LinesOf(N, s)
BY StoredIs DEF StoredRight, TreeWith

\* A lookup that ends at a link that leads nowhere has a line that is not stored.
LEMMA LookupMisses ==
  ASSUME PathInv, pc = "lookup", cur = Null
  PROVE  line \notin Stored
<1>1. PICK N, g, s : TreeWith(N, g, s)
  BY DEF PathInv, TreeOK
<1>2. Finding(N, g, s)
  BY <1>1 DEF TreeWith
<1>3. ASSUME NEW m \in Ends(N, Syms(N)), s[m] = line PROVE FALSE
  BY <1>2, <1>3 DEF Finding, Nearing, Null
<1>4. Stored = LinesOf(N, s)
  BY <1>1, StoredOf
<1>. QED
  BY <1>3, <1>4 DEF LinesOf
-----------------------------------------------------------------------------
(***************************************************************************)
(* The invariant holds at first, and after each step.                      *)
(***************************************************************************)
LEMMA PathInit == Init => PathInv
<1> SUFFICES ASSUME Init PROVE PathInv
  OBVIOUS
<1>1. /\ elems = <<>> /\ mem = <<>> /\ addr = 1 /\ root = Null /\ pc = "idle"
      /\ line = NoLine /\ rest = <<>> /\ elem = Null /\ next = TRUE /\ ptr = RootPtr2
      /\ cur = Null /\ inserts = 0 /\ ret = NoResult /\ frames = <<>> /\ path = <<>>
      /\ out = <<>>
  BY DEF Init
<1>2. Len(mem) = 0 /\ Len(elems) = 0 /\ DOMAIN mem = {} /\ DOMAIN elems = {} /\ DOMAIN frames = {}
  BY <1>1, EmptySeq
<1>3. MaxElems \in Nat /\ MaxInserts \in Nat
  BY LinesAssumption
<1>4. TypeOK
  <2>1. /\ elems \in Seq(Seq(Chars)) /\ rest \in Seq(Chars) /\ path \in Seq(1..Len(elems))
        /\ out \in Seq(Seq(Chars))
    BY <1>1, EmptySeq
  <2>2. ret \in [found : BOOLEAN, node : Lines \cup {NoLine}]
    BY <1>1 DEF NoResult
  <2>3. ptr.link = "self"
    BY <1>1 DEF RootPtr2
  <2>. QED
    BY <1>1, <1>2, <1>3, <2>1, <2>2, <2>3 DEF TypeOK, Offsets, Null
<1>5. PtrOK
  BY <1>1 DEF PtrOK, RootPtr2, Link, Null
<1>6. TreeOK
  <2> DEFINE g == [n \in {} |-> Whole]
  <2>1. 1..0 = {} /\ 0 = Size
    BY <1>1, <1>2 DEF Size
  <2>2. /\ Syms(0) = [n \in {} |-> mem[n].elem]
        /\ Links(0) = [n \in {} |-> [l \in Kid |-> LinkTo(mem[n], l)]]
    BY <2>1 DEF Syms, Links
  <2>3. Ends(0, Syms(0)) = {}
    BY <2>1 DEF Ends
  <2>4. TreeTypes(0, Syms(0), Links(0), g)
    <3>1. Syms(0) \in [{} -> Elem] /\ Links(0) \in [{} -> [Kid -> Nat]] /\ g \in [{} -> Region]
      BY <2>2
    <3>. QED
      BY <2>1, <3>1 DEF TreeTypes
  <2>5. TreeLinks(0, Syms(0), Links(0), g) /\ WordsDiffer(0, Syms(0), g)
    BY <2>1 DEF TreeLinks, WordsDiffer
  <2>6. FreeOfNodes(0, Syms(0), Links(0), g) /\ FreeApart(0, Syms(0), Links(0), g)
    BY <2>1 DEF FreeOfNodes, FreeApart
  <2>7. mem \in Seq(Node)
    BY <1>1, EmptySeq
  <2>8. HasLines(0, Syms(0), g, elems, g)
    BY <2>3 DEF HasLines
  <2> HIDE DEF g
  <2>9. Tree(0, Syms(0), Links(0), g)
    BY <2>4, <2>5, <2>6 DEF Tree
  <2>10. MemTree(0, g, g)
    <3>1. 0 \in 0..Len(mem) /\ 1..Len(mem) = {}
      BY <1>2, <2>1
    <3>. QED
      BY <2>3, <2>7, <2>8, <2>9, <3>1 DEF MemTree
  <2>11. Rooted(0)
    BY <1>1 DEF Rooted
  <2>12. TreeWith(0, g, g)
    BY <1>1, <2>1, <2>10, <2>11 DEF TreeWith
  <2>. QED
    BY <2>12 DEF TreeOK
<1>7. Distinct(elems)
  BY <1>2 DEF Distinct
<1>8. frames \in Seq(Frame)
  BY <1>1, EmptySeq
<1>. QED
  BY <1>1, <1>4, <1>5, <1>6, <1>7, <1>8 DEF PathInv

\* The tree when nothing of it changes; the element set may grow.
LEMMA SameTree ==
  ASSUME NEW N, NEW g, NEW s, MemTree(N, g, s), mem' = mem, Grown(elems, elems')
  PROVE  /\ MemTree(N, g, s)'
         /\ Syms(N)' = Syms(N) /\ Links(N)' = Links(N)
<1>1. Syms(N)' = Syms(N) /\ Links(N)' = Links(N)
  BY DEF Syms, Links
<1>2. HasLines(N, Syms(N), g, elems, s) => HasLines(N, Syms(N), g, elems', s)
  BY CutsGrow DEF HasLines
<1>. QED
  BY <1>1, <1>2 DEF MemTree

\* A step that leaves the tree and the elements alone, and no search is under way
\* after it.
LEMMA StepQuiet ==
  ASSUME PathInv, pc # "store", pc' \notin {"store", "walk", "grow", "lookup", "put"},
         UNCHANGED <<elems, mem, addr, root>>, TypeOK', (frames \in Seq(Frame))',
         ptr' = ptr \/ ptr' = RootPtr2
  PROVE  PathInv'
<1>1. PICK N, g, s : TreeWith(N, g, s)
  BY DEF PathInv, TreeOK
<1>2. N = Size /\ Rooted(N) /\ MemTree(N, g, s)
  BY <1>1 DEF TreeWith
<1>3. Size' = Size
  BY DEF Size
<1>4. Grown(elems, elems')
  BY DEF Grown
<1>5. MemTree(N, g, s)' /\ Rooted(N)'
  BY <1>2, <1>4, SameTree DEF Rooted
<1>6. TreeWith(N, g, s)'
  BY <1>2, <1>3, <1>5 DEF TreeWith
<1>7. TreeOK'
  BY <1>6 DEF TreeOK
<1>8. PtrOK'
  <2>1. CASE ptr' = ptr
    BY <1>3, <2>1 DEF PathInv, PtrOK
  <2>2. CASE ptr' = RootPtr2
    BY <2>2 DEF PtrOK, RootPtr2, Link, Null
  <2>. QED
    BY <2>1, <2>2
<1>9. Distinct(elems)'
  BY DEF PathInv
<1>. QED
  BY <1>7, <1>8, <1>9 DEF PathInv

LEMMA StepReturn ==
  ASSUME PathInv, WalkFound \/ LookupFound \/ LookupNotFound
  PROVE  PathInv'
<1>1. /\ Return /\ UNCHANGED <<elems, mem, addr, root, inserts, printer>> /\ pc \in {"walk", "lookup"}
      /\ ret' = ret \/ (ret' = [found |-> TRUE, node |-> line])
  BY DEF WalkFound, LookupFound, LookupNotFound
<1>2. TypeOK /\ frames \in Seq(Frame)
  BY DEF PathInv
<1>3. TypeOK'
  <2>1. rest' \in Seq(Chars)
    BY <1>1, EmptySeq DEF Return
  <2>2. ret' \in [found : BOOLEAN, node : Lines \cup {NoLine}]
    <3>1. line \in Lines \cup {NoLine}
      BY <1>2 DEF TypeOK
    <3>3. ret \in [found : BOOLEAN, node : Lines \cup {NoLine}]
      BY <1>2, Zenon DEF TypeOK
    <3>2. ret' = ret \/ ret' = [found |-> TRUE, node |-> line]
      BY <1>1
    <3>4. [found |-> TRUE, node |-> line] \in [found : BOOLEAN, node : Lines \cup {NoLine}]
      BY <3>1
    <3>. QED
      BY <3>2, <3>3, <3>4
  <2>3. ptr'.link = "self"
    BY <1>1 DEF Return, RootPtr2
  <2>4. pc' = "idle" /\ line' = NoLine /\ elem' = 0 /\ next' = TRUE /\ cur' = 0
    BY <1>1 DEF Return, Null
  <2>5. 0 \in 0..Len(elems) /\ 0 \in Offsets
    BY <1>2, LenProperties DEF TypeOK, Offsets
  <2>. QED
    BY <1>1, <1>2, <2>1, <2>2, <2>3, <2>4, <2>5 DEF TypeOK, Offsets, printer
<1>4. (frames \in Seq(Frame))'
  BY <1>1, <1>2 DEF Frame, printer
<1>. QED
  BY <1>1, <1>3, <1>4, StepQuiet DEF Return

LEMMA StepNoMemory == ASSUME PathInv, NoMemory PROVE PathInv'
<1>1. /\ UNCHANGED <<elems, mem, addr, root, locals, inserts, ret, printer>>
      /\ pc \in {"walk", "grow"} /\ pc' = "nomem"
  BY DEF NoMemory
<1>2. TypeOK /\ frames \in Seq(Frame)
  BY DEF PathInv
<1>3. TypeOK'
  BY <1>1, <1>2 DEF TypeOK, Offsets, printer, locals
<1>4. (frames \in Seq(Frame))'
  BY <1>1, <1>2 DEF Frame, printer
<1>. QED
  BY <1>1, <1>3, <1>4, StepQuiet DEF locals

\* A search begins with the whole line, at the root.
LEMMA StepCall ==
  ASSUME PathInv, NEW l \in Lines, NEW f \in {"walk", "lookup"}, Call(f, l),
         inserts' \in 0..MaxInserts, inserts <= inserts',
         ret' \in [found : BOOLEAN, node : Lines \cup {NoLine}]
  PROVE  PathInv'
<1>1. /\ pc = "idle" /\ pc' = f /\ line' = l /\ rest' = l /\ elem' = Null /\ next' = TRUE
      /\ ptr' = RootPtr2 /\ cur' = root /\ UNCHANGED <<elems, mem, addr, root, printer>>
  BY DEF Call
<1>2. TypeOK /\ frames \in Seq(Frame) /\ Distinct(elems)
  BY DEF PathInv
<1>3. l \in Seq(Chars)
  BY LinesAssumption
<1>4. TypeOK'
  <2>1. ptr'.link = "self"
    BY <1>1 DEF RootPtr2
  <2>2. elem' = 0 /\ 0 \in 0..Len(elems)
    BY <1>1, <1>2, LenProperties DEF Null, TypeOK
  <2>3. ASSUME NEW n \in DOMAIN mem
        PROVE  mem[n].eq \in IF mem[n].elem = Null THEN 0..inserts' ELSE Offsets
    <3>1. mem[n].eq \in IF mem[n].elem = Null THEN 0..inserts ELSE Offsets
      BY <1>2 DEF TypeOK
    <3>2. inserts \in Nat /\ inserts' \in Nat
      BY <1>2, LinesAssumption DEF TypeOK
    <3>. QED
      BY <3>1, <3>2
  <2>. QED
    BY <1>1, <1>2, <1>3, <2>1, <2>2, <2>3 DEF TypeOK, Offsets, printer
<1>5. (frames \in Seq(Frame))'
  BY <1>1, <1>2 DEF Frame, printer
<1>6. PICK N, g, s : TreeWith(N, g, s)
  BY DEF PathInv, TreeOK
<1>7. N = Size /\ Rooted(N) /\ MemTree(N, g, s)
  BY <1>6 DEF TreeWith
<1>8. N = Size'
  BY <1>1, <1>7 DEF Size
<1>9. Grown(elems, elems')
  BY <1>1 DEF Grown
<1>10. MemTree(N, g, s)' /\ Rooted(N)' /\ Syms(N)' = Syms(N)
  BY <1>1, <1>7, <1>9, SameTree DEF Rooted
<1>11. /\ Len(Whole.pre) = 0 /\ Whole.syms = Elem /\ Whole.pre = <<>>
       /\ Cuts(elems, <<>>, l, l)
  BY <1>3, EmptySeq, CutsNothing DEF Whole
<1>12. OnWay(N, g)'
  <2>1. Reached(N, g)' = Whole
    BY <1>1 DEF Reached, RootPtr2
  <2>2. (Cuts(elems, Reached(N, g).pre, line, rest))'
    BY <1>1, <1>11, <2>1
  <2>3. (Reached(N, g).syms = Elem)'
    BY <1>11, <2>1
  <2>4. next' = TRUE /\ line' \in Lines
    BY <1>1
  <2>. QED
    BY <2>2, <2>3, <2>4 DEF OnWay
<1>13. Finding(N, g, s)'
  <2>1. ASSUME NEW m \in Ends(N, Syms(N)) PROVE Nearing(N, g, m)'
    <3>1. N \in Nat /\ TreeLinks(N, Syms(N), Links(N), g) /\ TreeTypes(N, Syms(N), Links(N), g)
      BY <1>7, TreeIs
    <3>2. m \in 1..N /\ N > 0 /\ 1 \in 1..N /\ N # 0
      BY <3>1 DEF Ends
    <3>3. root = 1 /\ g[1] = Whole
      BY <1>7, <3>1, <3>2 DEF Rooted, TreeLinks
    <3>4. In(Whole, WordOf(Syms(N), g, m))
      <4> DEFINE w == WordOf(Syms(N), g, m)
      <4>1. w \in Words /\ Len(w) \in Nat /\ Len(w) > 0
        <5>1. Len(g[m].pre) \in Nat /\ w \in Words /\ Len(w) = Len(g[m].pre) + 1
          BY <3>1, <3>2, WordAndPath
        <5>. QED
          BY <5>1
      <4> HIDE DEF w
      <4>2. 1 \in 1..Len(w)
        BY <4>1
      <4>3. w[1] \in Elem
        BY <4>1, <4>2, SymbolsOf
      <4>4. 0 + 1 = 1 /\ 1..0 = {}
        OBVIOUS
      <4>. QED
        BY <1>11, <4>1, <4>3, <4>4 DEF In, w
    <3>5. cur' = 1 /\ next' = TRUE /\ line' = l /\ rest' = l /\ elems' = elems
      BY <1>1, <3>3
    <3>. QED
      BY <1>10, <1>11, <3>2, <3>3, <3>4, <3>5 DEF Nearing
  <2>2. line' \in Lines
    BY <1>1
  <2>. QED
    BY <1>10, <2>1, <2>2 DEF Finding
<1>14. TreeWith(N, g, s)'
  BY <1>8, <1>10, <1>12, <1>13 DEF TreeWith
<1>15. TreeOK'
  BY <1>14 DEF TreeOK
<1>16. PtrOK'
  BY <1>1 DEF PtrOK, RootPtr2, Link, Null
<1>17. Distinct(elems)'
  BY <1>1, <1>2
<1>. QED
  BY <1>1, <1>4, <1>5, <1>15, <1>16, <1>17 DEF PathInv
-----------------------------------------------------------------------------

\* The next element of the line is interned and is at hand.
LEMMA StepFetch ==
  ASSUME PathInv, WalkFetch \/ GrowFetch
  PROVE  PathInv'
<1>1. /\ pc \in {"walk", "grow"} /\ pc' = pc /\ next /\ next' = FALSE /\ PutElem
      /\ UNCHANGED <<mem, addr, root, line, cur, inserts, ret, printer>>
      /\ ptr' = ptr \/ ptr' = Deref(ptr)
  BY DEF WalkFetch, GrowFetch
<1>2. TypeOK /\ frames \in Seq(Frame) /\ Distinct(elems) /\ PtrOK
  BY DEF PathInv
<1>3. /\ elems \in Seq(Seq(Chars)) /\ Len(elems) <= MaxElems /\ rest \in Seq(Chars)
      /\ path \in Seq(1..Len(elems)) /\ addr \in {1, 2}
  BY <1>2, Zenon DEF TypeOK
<1>4. /\ rest' \in Seq(Chars)
      /\ Interns(elems, elems', First(rest), elem')
      /\ rest = <<>> => elem' = Null /\ rest' = <<>>
      /\ rest # <<>> => elem' # Null /\ rest' = AfterFirst(rest)
  BY <1>1, <1>2, <1>3, PutElemIs
<1>5. /\ elems' \in Seq(Seq(Chars)) /\ Len(elems') <= MaxElems /\ Len(elems) <= Len(elems')
      /\ Distinct(elems') /\ Grown(elems, elems') /\ elem' \in 0..Len(elems')
      /\ elem' # Null => elems'[elem'] = First(rest) /\ elem' \in DOMAIN elems'
  BY <1>4 DEF Interns
<1>6. Len(elems) \in Nat /\ Len(elems') \in Nat /\ MaxElems \in Nat
  BY <1>3, <1>5, LenProperties, LinesAssumption
<1>7. elem' \in Elem
  BY <1>5, <1>6 DEF Elem
<1>8. ptr' \in Link /\ ptr'.link = ptr.link /\ ptr'.base = ptr.base
  BY <1>1, <1>2, <1>3, HereIs DEF PtrOK
<1>9. TypeOK'
  <2>1. path' \in Seq(1..Len(elems'))
    <3>1. 1..Len(elems) \subseteq 1..Len(elems')
      BY <1>5, <1>6
    <3>2. path' = path
      BY <1>1 DEF printer
    <3>. QED
      BY <1>3, <3>1, <3>2, SeqMonotonic
  <2>2. ASSUME NEW n \in DOMAIN mem PROVE mem[n].elem \in 0..Len(elems')
    <3>1. mem[n].elem \in 0..Len(elems)
      BY <1>2 DEF TypeOK
    <3>. QED
      BY <1>5, <1>6, <3>1
  <2>3. ptr'.link = "self" \/ (ptr'.link \in {"lo", "hi", "eq"} /\ ptr'.base \in DOMAIN mem)
    BY <1>2, <1>8 DEF TypeOK
  <2>4. next' \in BOOLEAN
    BY <1>1
  <2>. QED
    BY <1>1, <1>2, <1>4, <1>5, <2>1, <2>2, <2>3, <2>4 DEF TypeOK, Offsets, printer
<1>10. (frames \in Seq(Frame))'
  BY <1>1, <1>2 DEF Frame, printer
<1>11. PICK N, g, s : TreeWith(N, g, s)
  BY DEF PathInv, TreeOK
<1>12. N = Size /\ Rooted(N) /\ MemTree(N, g, s) /\ OnWay(N, g)
  BY <1>1, <1>11 DEF TreeWith
<1>13. Size' = Size /\ N = Size'
  BY <1>1, <1>12 DEF Size
<1>14. MemTree(N, g, s)' /\ Rooted(N)' /\ Syms(N)' = Syms(N)
  BY <1>1, <1>5, <1>12, SameTree DEF Rooted
<1> DEFINE r == Reached(N, g)
<1>15. r \in Region /\ r.pre \in Words
  BY <1>2, <1>12, ReachedIs DEF Region
<1>16. Reached(N, g)' = r
  BY <1>8, <1>14 DEF Reached
<1>17. line \in Lines /\ r.syms = Elem /\ Cuts(elems, r.pre, line, rest)
  BY <1>1, <1>12 DEF OnWay
<1> HIDE DEF r
<1>18. Cuts(elems', r.pre, line, rest)
  BY <1>5, <1>17, CutsGrow
<1>19. OnWay(N, g)'
  <2>1. CASE elem' = Null
    <3>1. rest = <<>> /\ rest' = <<>>
      BY <1>4, <2>1
    <3>. QED
      BY <1>1, <1>7, <1>16, <1>17, <1>18, <2>1, <3>1 DEF OnWay, ComesNext
  <2>2. CASE elem' # Null
    <3>1. rest # <<>> /\ rest' = AfterFirst(rest)
      BY <1>4, <2>2
    <3>2. Cuts(elems', Append(r.pre, elem'), line, AfterFirst(rest))
      BY <1>5, <1>7, <1>15, <1>18, <2>2, <3>1, CutsMore
    <3>. QED
      BY <1>1, <1>7, <1>16, <1>17, <2>2, <3>1, <3>2 DEF OnWay, ComesNext
  <2>. QED
    BY <2>1, <2>2
<1>20. TreeWith(N, g, s)'
  BY <1>1, <1>13, <1>14, <1>19 DEF TreeWith
<1>21. TreeOK'
  BY <1>20 DEF TreeOK
<1>22. PtrOK'
  BY <1>1, <1>2, <1>8, <1>13 DEF PtrOK
<1>23. Target' = Target
  BY <1>1, <1>8 DEF Target
<1>. QED
  BY <1>1, <1>5, <1>9, <1>10, <1>21, <1>22, <1>23 DEF PathInv

\* The walk takes a turn.
LEMMA StepWalkNext ==
  ASSUME PathInv, WalkNext
  PROVE  PathInv'
<1>1. /\ pc = "walk" /\ pc' = pc /\ ~next /\ Here # Null /\ ~AtEnd(elem, Here)
      /\ ptr' = LinkOf(Deref(ptr), Here, Side(elem, Here))
      /\ next' = (Side(elem, Here) = "eq")
      /\ UNCHANGED <<elems, mem, addr, root, line, rest, elem, cur, inserts, ret, printer>>
  BY DEF WalkNext
<1>2. TypeOK /\ frames \in Seq(Frame) /\ Distinct(elems) /\ PtrOK
  BY DEF PathInv
<1>3. addr \in {1, 2}
  BY <1>2, Zenon DEF TypeOK
<1>4. Here = Target
  BY <1>2, <1>3, HereIs
<1>5. PICK N, g, s : TreeWith(N, g, s)
  BY DEF PathInv, TreeOK
<1>6. N = Size /\ Rooted(N) /\ MemTree(N, g, s) /\ OnWay(N, g)
  BY <1>1, <1>5 DEF TreeWith
<1> DEFINE r == Reached(N, g)
           c == mem[Target].elem
           l == SideOf(elem, c)
<1>7. Target \in 1..N /\ g[Target] = r /\ Syms(N)[Target] = c
  BY <1>1, <1>2, <1>4, <1>6, TargetIs
<1>8. Side(elem, Here) = l /\ l \in Kid
  BY <1>4 DEF Side, SideOf, Kid
<1>9. l = "eq" => elem = c /\ elem # Null
  BY <1>1, <1>4 DEF SideOf, AtEnd
<1>10. r \in Region
  BY <1>2, <1>6, ReachedIs
<1>11. line \in Lines /\ elem \in r.syms /\ ComesNext(r.pre)
  BY <1>1, <1>6 DEF OnWay
<1>12. N \in Nat /\ Target \in DOMAIN mem
  BY <1>6, <1>7, TreeIs
<1> HIDE DEF r, l, c
<1>13. ptr' = [link |-> l, base |-> Target, self |-> Null] /\ next' = (l = "eq")
  BY <1>1, <1>4, <1>8 DEF LinkOf
<1>14. ptr'.link = l /\ ptr'.base = Target
  BY <1>13
<1>15. TypeOK'
  <2>1. l \in {"lo", "hi", "eq"}
    BY <1>8 DEF Kid
  <2>. QED
    BY <1>1, <1>2, <1>12, <1>13, <1>14, <2>1 DEF TypeOK, Offsets, printer
<1>16. (frames \in Seq(Frame))'
  BY <1>1, <1>2 DEF Frame, printer
<1>17. Size' = Size /\ N = Size'
  BY <1>1, <1>6 DEF Size
<1>18. Grown(elems, elems')
  BY <1>1 DEF Grown
<1>19. MemTree(N, g, s)' /\ Rooted(N)' /\ Syms(N)' = Syms(N)
  BY <1>1, <1>6, <1>18, SameTree DEF Rooted
<1>20. Reached(N, g)' = Part(r, c, l)
  <2>1. l # "self"
    BY <1>8 DEF Kid
  <2>. QED
    BY <1>7, <1>14, <1>19, <2>1 DEF Reached, At
<1>21. OnWay(N, g)'
  <2>1. CASE l = "eq"
    <3>1. Part(r, c, l).syms = Elem /\ Part(r, c, l).pre = Append(r.pre, elem)
      BY <1>9, <2>1 DEF Part
    <3>2. Cuts(elems, Append(r.pre, elem), line, rest)
      BY <1>9, <1>11, <2>1 DEF ComesNext
    <3>. QED
      BY <1>1, <1>11, <1>13, <1>20, <2>1, <3>1, <3>2 DEF OnWay
  <2>2. CASE l # "eq"
    <3>1. Part(r, c, l).syms = {e \in r.syms : SideOf(e, c) = l} /\ Part(r, c, l).pre = r.pre
      BY <2>2 DEF Part
    <3>2. elem \in Part(r, c, l).syms
      BY <1>11, <3>1 DEF l
    <3>3. IF elem' = Null THEN rest' = <<>> /\ Cuts(elems', r.pre, line', <<>>)
          ELSE Cuts(elems', Append(r.pre, elem'), line', rest')
      BY <1>1, <1>11 DEF ComesNext
    <3>4. Reached(N, g)'.pre = r.pre /\ elem' \in Reached(N, g)'.syms /\ ~next'
      BY <1>1, <1>13, <1>20, <2>2, <3>1, <3>2
    <3>. QED
      BY <1>1, <1>11, <3>3, <3>4 DEF OnWay, ComesNext
  <2>. QED
    BY <2>1, <2>2
<1>22. TreeWith(N, g, s)'
  BY <1>1, <1>17, <1>19, <1>21 DEF TreeWith
<1>23. TreeOK'
  BY <1>22 DEF TreeOK
<1>24. PtrOK'
  <2>1. ptr' \in Link
    BY <1>8, <1>12, <1>7, <1>13 DEF Link, Null
  <2>2. mem' = mem /\ (l = "eq" => mem[Target].elem # Null)
    BY <1>1, <1>9 DEF c
  <2>3. Target \in 1..(Size')
    BY <1>7, <1>17
  <2>. QED
    BY <1>14, <2>1, <2>2, <2>3 DEF PtrOK
<1>. QED
  BY <1>1, <1>2, <1>15, <1>16, <1>23, <1>24 DEF PathInv

\* The walk ends at a link that leads nowhere.
LEMMA StepWalkEnd ==
  ASSUME PathInv, WalkEnd
  PROVE  PathInv'
<1>1. /\ pc = "walk" /\ pc' = "grow" /\ Here = Null /\ ptr' = Deref(ptr)
      /\ UNCHANGED <<elems, mem, addr, root, line, rest, elem, next, cur, inserts, ret, printer>>
  BY DEF WalkEnd
<1>2. TypeOK /\ frames \in Seq(Frame) /\ Distinct(elems) /\ PtrOK
  BY DEF PathInv
<1>3. addr \in {1, 2}
  BY <1>2, Zenon DEF TypeOK
<1>4. Target = Null /\ ptr' \in Link /\ ptr'.link = ptr.link /\ ptr'.base = ptr.base
  BY <1>1, <1>2, <1>3, HereIs
<1>5. PICK N, g, s : TreeWith(N, g, s)
  BY DEF PathInv, TreeOK
<1>6. N = Size /\ Rooted(N) /\ MemTree(N, g, s) /\ OnWay(N, g)
  BY <1>1, <1>5 DEF TreeWith
<1>7. TypeOK'
  BY <1>1, <1>2, <1>4 DEF TypeOK, Offsets, printer
<1>8. (frames \in Seq(Frame))'
  BY <1>1, <1>2 DEF Frame, printer
<1>9. Size' = Size /\ N = Size'
  BY <1>1, <1>6 DEF Size
<1>10. Grown(elems, elems')
  BY <1>1 DEF Grown
<1>11. MemTree(N, g, s)' /\ Rooted(N)' /\ Syms(N)' = Syms(N)
  BY <1>1, <1>6, <1>10, SameTree DEF Rooted
<1>12. Reached(N, g)' = Reached(N, g)
  BY <1>4, <1>11 DEF Reached
<1>13. OnWay(N, g)'
  BY <1>1, <1>6, <1>12 DEF OnWay, ComesNext
<1>14. TreeWith(N, g, s)'
  BY <1>1, <1>9, <1>11, <1>13 DEF TreeWith
<1>15. TreeOK'
  BY <1>14 DEF TreeOK
<1>16. PtrOK'
  BY <1>1, <1>2, <1>4, <1>9 DEF PtrOK
<1>17. Target' = Null
  BY <1>1, <1>4 DEF Target
<1>. QED
  BY <1>1, <1>2, <1>7, <1>8, <1>15, <1>16, <1>17 DEF PathInv

\* What is stored, when the nodes at which lines end are the same.
LEMMA SameStored ==
  ASSUME NEW N, NEW g, NEW s, MemTree(N, g, s), Rooted(N),
         MemTree(N, g, s)', Rooted(N)', Syms(N)' = Syms(N)
  PROVE  Stored' = Stored
<1>1. StoredRight /\ StoredRight'
  BY StoredIs, PTL
<1>2. Stored = LinesOf(N, s) /\ Stored' = LinesOf(N, s)'
  BY <1>1 DEF StoredRight
<1>. QED
  BY <1>2 DEF LinesOf

\* The node is in memory, and in no link yet.
LEMMA StepAllocate ==
  ASSUME PathInv, NEW a \in {1, 2}, Allocate(a)
  PROVE  PathInv' /\ Stored' = Stored
<1> DEFINE x == NewNode(elem)
<1>1. /\ pc = "grow" /\ pc' = "store" /\ ~next /\ mem' = Append(mem, x) /\ addr' = a
      /\ UNCHANGED <<elems, root, line, rest, elem, next, ptr, cur, inserts, ret, printer>>
  BY DEF Allocate, locals
<1>2. TypeOK /\ frames \in Seq(Frame) /\ Distinct(elems) /\ PtrOK /\ Target = Null
  BY <1>1 DEF PathInv
<1>3. PICK N, g, s : TreeWith(N, g, s)
  BY DEF PathInv, TreeOK
<1>4. N = Size /\ Rooted(N) /\ MemTree(N, g, s) /\ OnWay(N, g)
  BY <1>1, <1>3 DEF TreeWith
<1>5. /\ Len(mem) \in Nat /\ DOMAIN mem = 1..Len(mem) /\ mem \in Seq(Node)
      /\ Tree(N, Syms(N), Links(N), g)
      /\ HasLines(N, Syms(N), g, elems, s)
      /\ \A m \in Ends(N, Syms(N)) : s[m] \in Lines
  BY <1>4, TreeIs DEF MemTree
<1>6. N = Len(mem)
  BY <1>1, <1>4 DEF Size
<1>7. elem \in 0..Len(elems) /\ Len(elems) \in Nat
  BY <1>2, LenProperties DEF TypeOK
<1>8. x \in Node /\ Bare(x) /\ x.elem = elem
  BY <1>7 DEF NewNode, Node, Null, Bare
<1> HIDE DEF x
<1>9. /\ mem' \in Seq(Node) /\ Len(mem') = N + 1 /\ mem'[N + 1] = x
      /\ \A n \in 1..N : mem'[n] = mem[n]
  BY <1>1, <1>5, <1>6, <1>8, AppendProperties
<1>10. DOMAIN mem' = 1..(N + 1)
  BY <1>9, LenProperties
<1>11. Offsets = 0..N /\ Offsets' = 0..(N + 1) /\ N \in Nat
  BY <1>5, <1>6, <1>9 DEF Offsets
<1>12. Size' = N
  BY <1>1, <1>9, <1>11 DEF Size
<1>13. TypeOK'
  <2>1. ASSUME NEW n \in DOMAIN mem'
        PROVE  /\ mem'[n].elem \in 0..Len(elems)
               /\ mem'[n].lo \in 0..(N + 1) /\ mem'[n].hi \in 0..(N + 1)
               /\ mem'[n].eq \in IF mem'[n].elem = Null THEN 0..inserts ELSE 0..(N + 1)
    <3>1. CASE n \in 1..N
      <4>1. /\ mem[n].elem \in 0..Len(elems)
            /\ mem[n].lo \in 0..N /\ mem[n].hi \in 0..N
            /\ mem[n].eq \in IF mem[n].elem = Null THEN 0..inserts ELSE 0..N
        BY <1>2, <1>5, <1>6, <1>11, <3>1 DEF TypeOK
      <4>2. \A k \in 0..N : k \in 0..(N + 1)
        BY <1>11
      <4>. QED
        BY <1>9, <3>1, <4>1, <4>2
    <3>2. CASE n = N + 1
      <4>1. inserts \in Nat
        BY <1>2, LinesAssumption DEF TypeOK
      <4>2. 0 \in 0..inserts /\ 0 \in 0..(N + 1)
        BY <4>1, <1>11
      <4>. QED
        BY <1>7, <1>8, <1>9, <3>2, <4>2 DEF Bare, Null
    <3>. QED
      BY <1>10, <1>11, <3>1, <3>2
  <2>2. root' \in 0..(N + 1) /\ cur' \in 0..(N + 1)
    <3>1. root \in 0..N /\ cur \in 0..N
      BY <1>2, <1>11 DEF TypeOK
    <3>. QED
      BY <1>1, <1>11, <3>1
  <2>3. ptr'.link = "self" \/ (ptr'.link \in {"lo", "hi", "eq"} /\ ptr'.base \in DOMAIN mem')
    <3>1. ptr.link = "self" \/ (ptr.link \in {"lo", "hi", "eq"} /\ ptr.base \in 1..N)
      BY <1>2, <1>5, <1>6 DEF TypeOK
    <3>. QED
      BY <1>1, <1>10, <1>11, <3>1
  <2>4. \A i \in DOMAIN frames' : /\ frames'[i].node \in DOMAIN mem'
                                  /\ frames'[i].at \in {"lo", "self", "pop", "hi"}
    <3>1. \A i \in DOMAIN frames : /\ frames[i].node \in 1..N
                                   /\ frames[i].at \in {"lo", "self", "pop", "hi"}
      BY <1>2, <1>5, <1>6 DEF TypeOK
    <3>2. \A k \in 1..N : k \in 1..(N + 1)
      BY <1>11
    <3>. QED
      BY <1>1, <1>10, <3>1, <3>2 DEF printer
  <2>5. addr' \in {1, 2} /\ pc' \in {"idle", "walk", "grow", "store", "put", "lookup", "print",
             "printed", "stack_empty", "nomem"}
    BY <1>1
  <2>. QED
    BY <1>1, <1>2, <1>11, <2>1, <2>2, <2>3, <2>4, <2>5 DEF TypeOK, printer
<1>14. (frames \in Seq(Frame))'
  <2>1. Frame \subseteq Frame'
    BY <1>6, <1>9, <1>11 DEF Frame
  <2>. QED
    BY <1>1, <1>2, <2>1, SeqMonotonic DEF printer
<1>15. Syms(N)' = Syms(N) /\ Links(N)' = Links(N)
  BY <1>9 DEF Syms, Links
<1>16. MemTree(N, g, s)'
  <2>1. N \in 0..Len(mem')
    BY <1>9, <1>11
  <2>2. \A n \in 1..Len(mem') : n > N => Bare(mem'[n])
    BY <1>8, <1>9, <1>11
  <2>. QED
    BY <1>1, <1>5, <1>9, <1>15, <2>1, <2>2 DEF MemTree, Bare
<1>17. ptr.link # "self" => ptr.base \in 1..N /\ mem'[ptr.base] = mem[ptr.base]
  BY <1>2, <1>4, <1>9 DEF PtrOK
<1>18. PtrOK'
  BY <1>1, <1>2, <1>12, <1>17 DEF PtrOK
<1>19. Target' = Null
  BY <1>1, <1>2, <1>17 DEF Target
<1>20. OnWay(N, g)'
  <2>1. Reached(N, g)' = Reached(N, g)
    BY <1>1, <1>15 DEF Reached
  <2>. QED
    BY <1>1, <1>4, <2>1 DEF OnWay, ComesNext
<1>21. TreeWith(N, g, s)'
  BY <1>1, <1>4, <1>12, <1>16, <1>20 DEF TreeWith, Rooted
<1>22. TreeOK'
  BY <1>21 DEF TreeOK
<1>23. (pc = "store" => Len(mem) > 0 /\ mem[Len(mem)] = NewNode(elem) /\ ~next)'
  BY <1>1, <1>9, <1>11 DEF x
<1>24. PathInv'
  BY <1>1, <1>2, <1>13, <1>14, <1>18, <1>19, <1>22, <1>23 DEF PathInv
<1>25. Rooted(N)'
  BY <1>1, <1>4 DEF Rooted
<1>26. Stored' = Stored
  BY <1>4, <1>15, <1>16, <1>25, SameStored
<1>. QED
  BY <1>24, <1>26

(***************************************************************************)
(* What a store does to the memory.                                        *)
(***************************************************************************)
LEMMA LinkSet ==
  ASSUME NEW p \in Node, NEW l \in Kid, NEW x \in Nat
  PROVE  LET p2 == [p EXCEPT ![l] = x]
         IN  /\ p2 \in Node /\ p2.elem = p.elem
             /\ p2.lo = IF l = "lo" THEN x ELSE p.lo
             /\ p2.hi = IF l = "hi" THEN x ELSE p.hi
             /\ p2.eq = IF l = "eq" THEN x ELSE p.eq
<1>1. CASE l = "lo"
  BY <1>1 DEF Node
<1>2. CASE l = "hi"
  BY <1>2 DEF Node
<1>3. CASE l = "eq"
  BY <1>3 DEF Node
<1>. QED
  BY <1>1, <1>2, <1>3 DEF Kid

LinkedMem == IF ptr.link = "self" THEN mem ELSE [mem EXCEPT ![ptr.base][ptr.link] = Len(mem)]

\* The fields of node n after the store.
StoredAt(n) ==
  /\ mem'[n].elem = mem[n].elem
  /\ mem'[n].lo = IF ptr.base = n /\ ptr.link = "lo" THEN Len(mem) ELSE mem[n].lo
  /\ mem'[n].hi = IF ptr.base = n /\ ptr.link = "hi" THEN Len(mem) ELSE mem[n].hi
  /\ mem'[n].eq = IF ptr.base = n /\ ptr.link = "eq" THEN Len(mem) ELSE mem[n].eq

LEMMA LinkedMemIs ==
  ASSUME mem \in Seq(Node), ptr.link # "self" => ptr.link \in Kid /\ ptr.base \in 1..Len(mem),
         mem' = LinkedMem
  PROVE  /\ mem' \in Seq(Node) /\ Len(mem') = Len(mem)
         /\ \A n \in 1..Len(mem) : StoredAt(n)
<1>0. Len(mem) \in Nat
  BY LenProperties
<1>1. CASE ptr.link = "self"
  BY <1>1 DEF LinkedMem, StoredAt
<1>2. CASE ptr.link # "self"
  <2> DEFINE i == ptr.base
             l == ptr.link
             p == [mem[i] EXCEPT ![l] = Len(mem)]
  <2>1. i \in 1..Len(mem) /\ l \in Kid
    BY <1>2
  <2>2. mem[i] \in Node
    BY <2>1, ElementOfSeq
  <2>3. /\ p \in Node /\ p.elem = mem[i].elem
        /\ p.lo = IF l = "lo" THEN Len(mem) ELSE mem[i].lo
        /\ p.hi = IF l = "hi" THEN Len(mem) ELSE mem[i].hi
        /\ p.eq = IF l = "eq" THEN Len(mem) ELSE mem[i].eq
    BY <1>0, <2>1, <2>2, LinkSet
  <2>4. mem' = [mem EXCEPT ![i] = p]
    BY <1>2 DEF LinkedMem
  <2> HIDE DEF p
  <2>5. /\ mem' \in Seq(Node) /\ Len(mem') = Len(mem)
        /\ \A j \in 1..Len(mem) : mem'[j] = IF j = i THEN p ELSE mem[j]
    BY <2>1, <2>3, <2>4, ExceptSeq
  <2>6. ASSUME NEW n \in 1..Len(mem) PROVE StoredAt(n)
    <3>1. CASE n = i
      <4>1. mem'[n] = p
        BY <2>5, <3>1
      <4>. QED
        BY <2>3, <3>1, <4>1 DEF StoredAt
    <3>2. CASE n # i
      <4>1. mem'[n] = mem[n]
        BY <2>5, <3>2
      <4>. QED
        BY <3>2, <4>1 DEF StoredAt
    <3>. QED
      BY <3>1, <3>2
  <2>. QED
    BY <2>5, <2>6
<1>. QED
  BY <1>1, <1>2

\* The links of the tree after it.
LEMMA StoredLinks ==
  ASSUME NEW N \in Nat, Len(mem) = N + 1, \A n \in 1..(N + 1) : StoredAt(n),
         mem[N + 1] = NewNode(elem),
         ptr.link # "self" =>
           ptr.link \in Kid /\ ptr.base \in 1..N /\ (ptr.link = "eq" => mem[ptr.base].elem # Null)
  PROVE  /\ Syms(N + 1)' = Added(N, Syms(N), elem)
         /\ ptr.link # "self" => Links(N + 1)' = Linked(N, Links(N), ptr.base, ptr.link)
         /\ ptr.link = "self" => Links(N + 1)' = Added(N, Links(N), NoKids)
<1>1. \A n \in 1..(N + 1) : n # N + 1 => n \in 1..N
  OBVIOUS
<1>2. N + 1 \in 1..(N + 1) /\ N + 1 \notin 1..N /\ ~(ptr.link # "self" /\ ptr.base = N + 1)
  OBVIOUS
<1>3. Syms(N + 1)' = Added(N, Syms(N), elem)
  <2>1. ASSUME NEW n \in 1..(N + 1) PROVE mem'[n].elem = Added(N, Syms(N), elem)[n]
    <3>1. mem'[n].elem = mem[n].elem
      BY DEF StoredAt
    <3>2. mem[N + 1].elem = elem
      BY DEF NewNode
    <3>. QED
      BY <1>1, <3>1, <3>2 DEF Added, Syms
  <2>2. Syms(N + 1)' = [n \in 1..(N + 1) |-> mem'[n].elem]
    BY DEF Syms
  <2>3. Added(N, Syms(N), elem) = [n \in 1..(N + 1) |-> Added(N, Syms(N), elem)[n]]
    BY DEF Added
  <2>. QED
    BY <2>1, <2>2, <2>3
<1>4. Links(N + 1)' = [n \in 1..(N + 1) |-> [k \in Kid |-> LinkTo(mem'[n], k)]]
  BY DEF Links, LinkTo
<1>5. ASSUME NEW n \in 1..N, NEW k \in Kid
      PROVE  LinkTo(mem'[n], k) = IF ptr.link = k /\ ptr.base = n THEN N + 1 ELSE Links(N)[n][k]
  <2>1. n \in 1..(N + 1)
    OBVIOUS
  <2>2. StoredAt(n)
    BY <2>1
  <2>3. Links(N)[n][k] = LinkTo(mem[n], k)
    BY DEF Links
  <2>. QED
    BY <2>2, <2>3 DEF StoredAt, LinkTo, Kid
<1>6. ASSUME NEW k \in Kid PROVE LinkTo(mem'[N + 1], k) = Null
  <2>1. StoredAt(N + 1)
    BY <1>2
  <2>2. mem[N + 1].lo = Null /\ mem[N + 1].hi = Null /\ mem[N + 1].eq = Null
    BY DEF NewNode
  <2>. QED
    BY <1>2, <2>1, <2>2 DEF StoredAt, LinkTo, Kid
<1>7. [k \in Kid |-> LinkTo(mem'[N + 1], k)] = NoKids
  BY <1>6 DEF NoKids
<1>8. CASE ptr.link # "self"
  <2> DEFINE f == [n \in 1..N |-> IF n = ptr.base
                                    THEN [k \in Kid |-> IF k = ptr.link THEN N + 1 ELSE Links(N)[n][k]]
                                    ELSE Links(N)[n]]
  <2>1. Linked(N, Links(N), ptr.base, ptr.link)
          = [n \in 1..(N + 1) |-> IF n = N + 1 THEN NoKids ELSE f[n]]
    BY DEF Linked, Added
  <2>2. ASSUME NEW n \in 1..N PROVE [k \in Kid |-> LinkTo(mem'[n], k)] = f[n]
    <3>1. CASE n = ptr.base
      BY <1>5, <3>1
    <3>2. CASE n # ptr.base
      <4>1. \A k \in Kid : LinkTo(mem'[n], k) = Links(N)[n][k]
        BY <1>5, <3>2
      <4>2. Links(N)[n] = [k \in Kid |-> Links(N)[n][k]]
        BY DEF Links
      <4>3. [k \in Kid |-> LinkTo(mem'[n], k)] = [k \in Kid |-> Links(N)[n][k]]
        BY <4>1
      <4>. QED
        BY <3>2, <4>2, <4>3
    <3>. QED
      BY <3>1, <3>2
  <2> HIDE DEF f
  <2>. QED
    BY <1>1, <1>3, <1>4, <1>7, <1>8, <2>1, <2>2
<1>9. CASE ptr.link = "self"
  <2>1. Added(N, Links(N), NoKids) = [n \in 1..(N + 1) |-> IF n = N + 1 THEN NoKids ELSE Links(N)[n]]
    BY DEF Added
  <2>2. ASSUME NEW n \in 1..N PROVE [k \in Kid |-> LinkTo(mem'[n], k)] = Links(N)[n]
    <3>1. \A k \in Kid : LinkTo(mem'[n], k) = Links(N)[n][k]
      BY <1>5, <1>9 DEF Kid
    <3>2. Links(N)[n] = [k \in Kid |-> Links(N)[n][k]]
      BY DEF Links
    <3>3. [k \in Kid |-> LinkTo(mem'[n], k)] = [k \in Kid |-> Links(N)[n][k]]
      BY <3>1
    <3>. QED
      BY <3>2, <3>3
  <2>. QED
    BY <1>1, <1>3, <1>4, <1>7, <1>9, <2>1, <2>2
<1>. QED
  BY <1>8, <1>9

LEMMA StoreIs ==
  ASSUME PathInv, Store, NEW N, NEW g, NEW s, TreeWith(N, g, s)
  PROVE  /\ N \in Nat /\ Len(mem) = N + 1 /\ mem[N + 1] = NewNode(elem) /\ Target = Null
         /\ mem' \in Seq(Node) /\ Len(mem') = N + 1 /\ \A n \in 1..(N + 1) : StoredAt(n)
         /\ ptr.link # "self" =>
              ptr.link \in Kid /\ ptr.base \in 1..N /\ (ptr.link = "eq" => mem[ptr.base].elem # Null)
         /\ root' = IF ptr.link = "self" THEN N + 1 ELSE root
         /\ UNCHANGED <<elems, addr, line, rest, elem, cur, inserts, printer>>
         /\ elem = Null =>
              /\ pc' = "put" /\ ret' = [found |-> FALSE, node |-> line] /\ next' = next
              /\ ptr' \in Link /\ Valid(ptr)' /\ ptr'.link = ptr.link /\ ptr'.base = ptr.base
         /\ elem # Null =>
              /\ pc' = "grow" /\ ret' = ret /\ next' = TRUE
              /\ ptr' = [link |-> "eq", base |-> N + 1, self |-> Null]
<1> DEFINE p == Deref(ptr)
           b == Len(mem)
<1>1. /\ pc = "store"
      /\ root' = IF p.link = "self" THEN b ELSE root
      /\ mem' = IF p.link # "self" /\ Valid(p) THEN [mem EXCEPT ![p.base][p.link] = b] ELSE mem
      /\ elem = Null => /\ pc' = "put" /\ ret' = [found |-> FALSE, node |-> line]
                        /\ ptr' = p /\ next' = next
      /\ elem # Null => /\ pc' = "grow" /\ ret' = ret /\ next' = TRUE
                        /\ ptr' = LinkOf(p, b, "eq")
      /\ UNCHANGED <<elems, addr, line, rest, elem, cur, inserts, printer>>
  BY DEF Store
<1>2. PtrOK /\ TypeOK /\ Target = Null /\ Len(mem) > 0 /\ mem[Len(mem)] = NewNode(elem)
  BY <1>1 DEF PathInv
<1>3. addr \in {1, 2}
  BY <1>2, Zenon DEF TypeOK
<1>4. p \in Link /\ Valid(p) /\ p.link = ptr.link /\ p.base = ptr.base
  BY <1>2, <1>3, HereIs
<1>5. N = Size /\ MemTree(N, g, s)
  BY DEF TreeWith
<1>6. Len(mem) \in Nat /\ N \in Nat /\ mem \in Seq(Node)
  BY <1>5, TreeIs DEF MemTree
<1>7. Len(mem) = N + 1
  BY <1>1, <1>5, <1>6 DEF Size
<1>8. ptr.link # "self" =>
        ptr.link \in Kid /\ ptr.base \in 1..N /\ (ptr.link = "eq" => mem[ptr.base].elem # Null)
  BY <1>2, <1>5, PtrBase
<1>9. mem' = LinkedMem
  BY <1>1, <1>4 DEF LinkedMem
<1>10. ptr.link # "self" => ptr.link \in Kid /\ ptr.base \in 1..Len(mem)
  BY <1>6, <1>7, <1>8
<1>11. mem' \in Seq(Node) /\ Len(mem') = N + 1 /\ \A n \in 1..(N + 1) : StoredAt(n)
  BY <1>6, <1>7, <1>9, <1>10, LinkedMemIs
<1>12. elem = Null => ptr' \in Link /\ Valid(ptr)' /\ ptr'.link = ptr.link /\ ptr'.base = ptr.base
  BY <1>1, <1>4 DEF Valid
<1>13. elem # Null => ptr' = [link |-> "eq", base |-> N + 1, self |-> Null]
  BY <1>1, <1>7 DEF LinkOf
<1>. QED
  BY <1>1, <1>2, <1>4, <1>6, <1>7, <1>8, <1>11, <1>12, <1>13

\* The tree has one node more.
LEMMA StoreTree ==
  ASSUME PathInv, Store, NEW N, NEW g, NEW s, TreeWith(N, g, s),
         NEW g2, g2 = Added(N, g, Reached(N, g)), NEW s2, s2 = Added(N, s, line)
  PROVE  /\ MemTree(N + 1, g2, s2)' /\ Rooted(N + 1)'
         /\ Syms(N + 1)' = Added(N, Syms(N), elem)
         /\ g2[N + 1] = Reached(N, g)
         /\ LinesOf(N + 1, s2)' = IF elem = Null THEN LinesOf(N, s) \cup {line} ELSE LinesOf(N, s)
<1> DEFINE r == Reached(N, g)
           sy == Syms(N)
           sy2 == Added(N, sy, elem)
           lk2 == Links(N + 1)'
<1>1. /\ N \in Nat /\ Len(mem) = N + 1 /\ mem[N + 1] = NewNode(elem) /\ Target = Null
      /\ mem' \in Seq(Node) /\ Len(mem') = N + 1 /\ \A n \in 1..(N + 1) : StoredAt(n)
      /\ ptr.link # "self" =>
           ptr.link \in Kid /\ ptr.base \in 1..N /\ (ptr.link = "eq" => mem[ptr.base].elem # Null)
      /\ root' = IF ptr.link = "self" THEN N + 1 ELSE root
      /\ UNCHANGED <<elems, addr, line, rest, elem, cur, inserts, printer>>
  BY StoreIs
<1>2. /\ Syms(N + 1)' = sy2
      /\ ptr.link # "self" => lk2 = Linked(N, Links(N), ptr.base, ptr.link)
      /\ ptr.link = "self" => lk2 = Added(N, Links(N), NoKids)
  BY <1>1, StoredLinks
<1>3. pc = "store" /\ ~next /\ PtrOK
  BY DEF PathInv, Store
<1>4. N = Size /\ Rooted(N) /\ MemTree(N, g, s) /\ OnWay(N, g)
  BY <1>3 DEF TreeWith
<1>5. /\ Tree(N, sy, Links(N), g) /\ HasLines(N, sy, g, elems, s)
      /\ \A m \in Ends(N, sy) : s[m] \in Lines
      /\ \A n \in 1..N : sy[n] = mem[n].elem
  BY <1>4, TreeIs DEF MemTree
<1>6. r \in Region /\ line \in Lines /\ elem \in r.syms /\ ComesNext(r.pre)
  BY <1>3, <1>4, ReachedIs DEF OnWay
<1>7. elem \in Elem
  BY <1>6 DEF Region
<1>8. Tree(N + 1, sy2, lk2, g2)
  <2>1. CASE ptr.link = "self"
    <3>1. N = 0 /\ r = Whole
      BY <1>1, <1>4, <2>1 DEF Target, Rooted, Null, Reached
    <3>2. sy2 = Added(0, <<>>, elem) /\ lk2 = Added(0, <<>>, NoKids) /\ g2 = Added(0, <<>>, Whole)
      <4>0. g2 = Added(N, g, r)
        OBVIOUS
      <4>1. \A n \in 1..(0 + 1) : n = 0 + 1
        OBVIOUS
      <4>2. ASSUME NEW f, NEW h, NEW x PROVE Added(0, f, x) = Added(0, h, x)
        BY <4>1 DEF Added
      <4> HIDE DEF r
      <4>3. sy2 = Added(0, <<>>, elem)
        BY <3>1, <4>2
      <4>4. g2 = Added(0, <<>>, Whole)
        BY <3>1, <4>0, <4>2
      <4>5. lk2 = Added(0, <<>>, NoKids)
        BY <1>2, <2>1, <3>1, <4>2
      <4>. QED
        BY <4>3, <4>4, <4>5
    <3> HIDE DEF sy2, lk2
    <3>3. Tree(1, sy2, lk2, g2)
      BY <1>7, <3>2, FirstNode
    <3>4. N + 1 = 1
      BY <3>1
    <3>. QED
      BY <3>3, <3>4
  <2>2. CASE ptr.link # "self"
    <3>1. ptr.link \in Kid /\ ptr.base \in 1..N /\ Links(N)[ptr.base][ptr.link] = Null
      BY <1>1, <1>3, <1>4, <2>2, PtrBase
    <3>2. ptr.link = "eq" => sy[ptr.base] # Null
      BY <1>1, <1>5, <2>2, <3>1
    <3>3. r = At(sy, g, ptr.base, ptr.link)
      BY <2>2 DEF Reached
    <3>4. elem \in At(sy, g, ptr.base, ptr.link).syms
      BY <1>6, <3>3
    <3>5. lk2 = Linked(N, Links(N), ptr.base, ptr.link)
      BY <1>2, <2>2
    <3>6. g2 = Added(N, g, At(sy, g, ptr.base, ptr.link))
      BY <3>3
    <3> HIDE DEF sy, r, lk2
    <3>. QED
      BY <1>5, <3>1, <3>2, <3>4, <3>5, <3>6, NodeAdded
  <2>. QED
    BY <2>1, <2>2
<1>0. g2 = Added(N, g, r) /\ s2 = Added(N, s, line)
  OBVIOUS
<1> HIDE DEF r, sy, lk2
<1>9. /\ \A n \in 1..N : sy2[n] = sy[n] /\ g2[n] = g[n] /\ s2[n] = s[n]
      /\ sy2[N + 1] = elem /\ g2[N + 1] = r /\ s2[N + 1] = line
  <2>1. \A n \in 1..N : n \in 1..(N + 1) /\ n # N + 1
    BY <1>1
  <2>2. N + 1 \in 1..(N + 1)
    BY <1>1
  <2>. QED
    BY <1>0, <2>1, <2>2 DEF Added
<1>10. \A n \in 1..(N + 1) : n \in 1..N \/ n = N + 1
  BY <1>1
<1>11. \A n \in 1..N : n \in 1..(N + 1)
  BY <1>1
<1>12. N + 1 \in 1..(N + 1)
  BY <1>1
<1> HIDE DEF sy2
<1>13. \A m \in Ends(N + 1, sy2) : m \in Ends(N, sy) \/ (m = N + 1 /\ elem = Null)
  BY <1>9, <1>10 DEF Ends
<1>14. \A m \in Ends(N, sy) : m \in Ends(N + 1, sy2) /\ m \in 1..N
  BY <1>9, <1>11 DEF Ends
<1>15. elem = Null => N + 1 \in Ends(N + 1, sy2)
  BY <1>9, <1>12 DEF Ends
<1>16. HasLines(N + 1, sy2, g2, elems, s2)
  <2>1. ASSUME NEW m \in Ends(N, sy) PROVE Cuts(elems, g2[m].pre, s2[m], <<>>)
    BY <1>5, <1>9, <1>14 DEF HasLines
  <2>2. elem = Null => Cuts(elems, g2[N + 1].pre, s2[N + 1], <<>>)
    BY <1>6, <1>9 DEF ComesNext
  <2>. QED
    BY <1>13, <2>1, <2>2 DEF HasLines
<1>17. \A m \in Ends(N + 1, sy2) : s2[m] \in Lines
  BY <1>5, <1>6, <1>9, <1>13, <1>14
<1>18. (MemTree(N + 1, g2, s2))'
  <2>1. N + 1 \in 0..Len(mem') /\ \A n \in 1..Len(mem') : ~(n > N + 1)
    BY <1>1
  <2>. QED
    BY <1>1, <1>2, <1>8, <1>16, <1>17, <2>1 DEF MemTree, lk2
<1>19. Rooted(N + 1)'
  <2>1. CASE ptr.link = "self"
    BY <1>1, <1>4, <2>1 DEF Target, Rooted, Null
  <2>2. CASE ptr.link # "self"
    <3>1. N # 0 /\ N + 1 # 0
      BY <1>1, <2>2
    <3>. QED
      BY <1>1, <1>4, <2>2, <3>1 DEF Rooted
  <2>. QED
    BY <2>1, <2>2
<1>20. LinesOf(N + 1, s2)' = {s2[m] : m \in Ends(N + 1, sy2)}
  BY <1>2 DEF LinesOf
<1>21. LinesOf(N, s) = {s[m] : m \in Ends(N, sy)}
  BY DEF LinesOf, sy
<1>22. LinesOf(N + 1, s2)' = IF elem = Null THEN LinesOf(N, s) \cup {line} ELSE LinesOf(N, s)
  <2>1. \A m \in Ends(N, sy) : s2[m] = s[m] /\ m \in Ends(N + 1, sy2)
    BY <1>9, <1>14
  <2>2. s2[N + 1] = line
    BY <1>9
  <2>3. CASE elem = Null
    <3>1. LinesOf(N + 1, s2)' \subseteq LinesOf(N, s) \cup {line}
      BY <1>13, <1>20, <1>21, <2>1, <2>2
    <3>2. LinesOf(N, s) \cup {line} \subseteq LinesOf(N + 1, s2)'
      BY <1>15, <1>20, <1>21, <2>1, <2>2, <2>3
    <3>. QED
      BY <2>3, <3>1, <3>2
  <2>4. CASE elem # Null
    <3>1. \A m : m \in Ends(N + 1, sy2) <=> m \in Ends(N, sy)
      BY <1>13, <2>1, <2>4
    <3>. QED
      BY <1>20, <1>21, <2>1, <2>4, <3>1
  <2>. QED
    BY <2>3, <2>4
<1>. QED
  BY <1>2, <1>9, <1>19, <1>22, <1>18 DEF sy2, sy, r

LEMMA StepStore ==
  ASSUME PathInv, Store
  PROVE  PathInv'
<1>1. PICK N, g, s : TreeWith(N, g, s)
  BY DEF PathInv, TreeOK
<1>2. PICK g2, s2 : g2 = Added(N, g, Reached(N, g)) /\ s2 = Added(N, s, line)
  OBVIOUS
<1>3. /\ N \in Nat /\ Len(mem) = N + 1 /\ mem[N + 1] = NewNode(elem) /\ Target = Null
      /\ mem' \in Seq(Node) /\ Len(mem') = N + 1 /\ \A n \in 1..(N + 1) : StoredAt(n)
      /\ ptr.link # "self" =>
           ptr.link \in Kid /\ ptr.base \in 1..N /\ (ptr.link = "eq" => mem[ptr.base].elem # Null)
      /\ root' = IF ptr.link = "self" THEN N + 1 ELSE root
      /\ UNCHANGED <<elems, addr, line, rest, elem, cur, inserts, printer>>
  BY <1>1, StoreIs
<1>4. elem = Null =>
        /\ pc' = "put" /\ ret' = [found |-> FALSE, node |-> line] /\ next' = next
        /\ ptr' \in Link /\ Valid(ptr)' /\ ptr'.link = ptr.link /\ ptr'.base = ptr.base
  BY <1>1, StoreIs
<1>5. elem # Null =>
        /\ pc' = "grow" /\ ret' = ret /\ next' = TRUE
        /\ ptr' = [link |-> "eq", base |-> N + 1, self |-> Null]
  BY <1>1, StoreIs
<1>6. /\ MemTree(N + 1, g2, s2)' /\ Rooted(N + 1)'
      /\ Syms(N + 1)' = Added(N, Syms(N), elem)
      /\ g2[N + 1] = Reached(N, g)
  BY <1>1, <1>2, StoreTree
<1>7. TypeOK /\ frames \in Seq(Frame) /\ Distinct(elems) /\ PtrOK /\ ~next
  BY DEF PathInv, Store
<1>8. line \in Lines /\ ComesNext(Reached(N, g).pre)
  BY <1>1, <1>7 DEF TreeWith, OnWay, Store
<1>9. DOMAIN mem = 1..(N + 1) /\ DOMAIN mem' = 1..(N + 1) /\ Offsets = 0..(N + 1) /\ Offsets' = 0..(N + 1)
  <2>1. N + 1 = Size + 1 /\ mem \in Seq(Node)
    BY <1>1 DEF TreeWith, MemTree
  <2>. QED
    BY <1>3, <2>1, LenProperties DEF Offsets
<1>10. N + 1 \in 1..(N + 1) /\ N + 1 \in 0..(N + 1) /\ N + 1 \notin 1..N /\ \A n \in 1..N : n \in 1..(N + 1)
  BY <1>3
<1>11. mem'[N + 1].elem = elem /\ mem'[N + 1].eq = Null
  <2>1. StoredAt(N + 1)
    BY <1>3, <1>10
  <2>2. ~(ptr.base = N + 1 /\ ptr.link = "eq")
    BY <1>3, <1>10
  <2>. QED
    BY <1>3, <2>1, <2>2 DEF StoredAt, NewNode
<1>12. pc' \in {"put", "grow"} /\ Size' = N + 1
  BY <1>3, <1>4, <1>5 DEF Size
<1>13. TypeOK'
  <2>1. ASSUME NEW n \in 1..(N + 1)
        PROVE  /\ mem'[n].elem \in 0..Len(elems)
               /\ mem'[n].lo \in 0..(N + 1) /\ mem'[n].hi \in 0..(N + 1)
               /\ mem'[n].eq \in IF mem'[n].elem = Null THEN 0..inserts ELSE 0..(N + 1)
    <3>1. /\ mem[n].elem \in 0..Len(elems)
          /\ mem[n].lo \in 0..(N + 1) /\ mem[n].hi \in 0..(N + 1)
          /\ mem[n].eq \in IF mem[n].elem = Null THEN 0..inserts ELSE 0..(N + 1)
      BY <1>7, <1>9 DEF TypeOK
    <3>2. StoredAt(n)
      BY <1>3
    <3>3. ptr.base = n /\ ptr.link = "eq" => mem[n].elem # Null
      BY <1>3
    <3>. QED
      BY <1>3, <1>10, <3>1, <3>2, <3>3 DEF StoredAt
  <2>2. root' \in 0..(N + 1) /\ cur' \in 0..(N + 1)
    BY <1>3, <1>7, <1>9, <1>10 DEF TypeOK
  <2>3. ptr'.link = "self" \/ (ptr'.link \in {"lo", "hi", "eq"} /\ ptr'.base \in 1..(N + 1))
    <3>1. CASE elem = Null
      BY <1>3, <1>4, <1>10, <3>1 DEF Kid
    <3>2. CASE elem # Null
      BY <1>5, <1>10, <3>2
    <3>. QED
      BY <3>1, <3>2
  <2>4. \A i \in DOMAIN frames' : /\ frames'[i].node \in DOMAIN mem'
                                  /\ frames'[i].at \in {"lo", "self", "pop", "hi"}
    BY <1>3, <1>7, <1>9 DEF TypeOK, printer
  <2>5. ret' \in [found : BOOLEAN, node : Lines \cup {NoLine}]
    <3>1. [found |-> FALSE, node |-> line] \in [found : BOOLEAN, node : Lines \cup {NoLine}]
      BY <1>8
    <3>2. ret \in [found : BOOLEAN, node : Lines \cup {NoLine}]
      BY <1>7, Zenon DEF TypeOK
    <3>. QED
      BY <1>4, <1>5, <3>1, <3>2
  <2>6. next' \in BOOLEAN
    <3>1. next \in BOOLEAN /\ TRUE \in BOOLEAN
      BY <1>7, Zenon DEF TypeOK
    <3>2. next' = next \/ next' = TRUE
      BY <1>4, <1>5
    <3>. QED
      BY <3>1, <3>2, Zenon
  <2>7. \A n \in DOMAIN mem' :
          /\ mem'[n].elem \in 0..Len(elems')
          /\ mem'[n].lo \in Offsets' /\ mem'[n].hi \in Offsets'
          /\ mem'[n].eq \in IF mem'[n].elem = Null THEN 0..inserts' ELSE Offsets'
    BY <1>3, <1>9, <2>1
  <2>. QED
    BY <1>3, <1>7, <1>9, <1>12, <2>2, <2>3, <2>4, <2>5, <2>6, <2>7 DEF TypeOK, printer
<1>14. (frames \in Seq(Frame))'
  <2>1. Frame' = Frame
    BY <1>3 DEF Frame
  <2>. QED
    BY <1>3, <1>7, <2>1 DEF printer
<1>15. CASE elem = Null
  <2>1. pc' = "put" /\ ptr' \in Link /\ Valid(ptr)' /\ ptr'.link = ptr.link /\ ptr'.base = ptr.base
    BY <1>4, <1>15
  <2>2. TreeWith(N + 1, g2, s2)'
    BY <1>6, <1>12, <2>1 DEF TreeWith
  <2>3. TreeOK'
    BY <2>2 DEF TreeOK
  <2>4. Target' = N + 1
    <3>1. CASE ptr.link = "self"
      BY <1>3, <2>1, <3>1 DEF Target
    <3>2. CASE ptr.link # "self"
      <4>1. StoredAt(ptr.base) /\ ptr.link \in Kid
        BY <1>3, <1>10, <3>2
      <4>2. mem'[ptr.base][ptr.link] = N + 1
        BY <1>3, <4>1 DEF StoredAt, Kid
      <4>. QED
        BY <2>1, <3>2, <4>2 DEF Target
    <3>. QED
      BY <3>1, <3>2
  <2>5. PutOK'
    BY <1>3, <1>10, <1>11, <1>15, <2>1, <2>4 DEF PutOK
  <2>6. PtrOK'
    <3>1. ptr.link # "self" => ptr.base \in 1..(N + 1) /\ (ptr.link = "eq" => mem'[ptr.base].elem # Null)
      BY <1>3, <1>10 DEF StoredAt
    <3>. QED
      BY <1>12, <2>1, <3>1 DEF PtrOK
  <2>. QED
    BY <1>3, <1>7, <1>13, <1>14, <2>1, <2>3, <2>5, <2>6 DEF PathInv
<1>16. CASE elem # Null
  <2>1. pc' = "grow" /\ next' = TRUE /\ ptr' = [link |-> "eq", base |-> N + 1, self |-> Null]
    BY <1>5, <1>16
  <2>2. ptr'.link = "eq" /\ ptr'.base = N + 1
    BY <2>1
  <2>3. Reached(N + 1, g2)' = Part(Reached(N, g), elem, "eq")
    <3>1. Added(N, Syms(N), elem)[N + 1] = elem
      BY <1>10 DEF Added
    <3>2. Reached(N + 1, g2)' = Part(g2[N + 1], Added(N, Syms(N), elem)[N + 1], "eq")
      BY <1>6, <2>2 DEF Reached, At
    <3>. QED
      BY <1>6, <3>1, <3>2
  <2>4. /\ Reached(N + 1, g2)'.pre = Append(Reached(N, g).pre, elem)
        /\ Reached(N + 1, g2)'.syms = Elem
    BY <2>3 DEF Part
  <2>5. Cuts(elems, Append(Reached(N, g).pre, elem), line, rest)
    BY <1>8, <1>16 DEF ComesNext
  <2>6. OnWay(N + 1, g2)'
    BY <1>3, <1>8, <2>1, <2>4, <2>5 DEF OnWay
  <2>7. TreeWith(N + 1, g2, s2)'
    BY <1>6, <1>12, <2>1, <2>6 DEF TreeWith
  <2>8. TreeOK'
    BY <2>7 DEF TreeOK
  <2>9. Target' = Null
    BY <1>11, <2>2 DEF Target
  <2>10. PtrOK'
    <3>1. ptr' \in Link
      BY <1>3, <2>1 DEF Link, Kid, Null
    <3>. QED
      BY <1>3, <1>10, <1>11, <1>12, <1>16, <2>2, <3>1 DEF PtrOK
  <2>. QED
    BY <1>3, <1>7, <1>13, <1>14, <2>1, <2>8, <2>9, <2>10 DEF PathInv
<1>. QED
  BY <1>15, <1>16

\* The node of the line gets its value, which is no link.
LEMMA StepSetValue ==
  ASSUME PathInv, SetValue
  PROVE  PathInv' /\ Stored' = Stored
<1>1. /\ pc = "put" /\ mem' = [mem EXCEPT ![Load(ptr)].eq = inserts] /\ Return
      /\ UNCHANGED <<elems, addr, root, inserts, ret, printer>>
  BY DEF SetValue
<1>2. TypeOK /\ frames \in Seq(Frame) /\ Distinct(elems) /\ PutOK
  BY <1>1 DEF PathInv
<1>3. PICK N, g, s : TreeWith(N, g, s)
  BY DEF PathInv, TreeOK
<1>4. N = Size /\ Rooted(N) /\ MemTree(N, g, s)
  BY <1>3 DEF TreeWith
<1>5. /\ Len(mem) \in Nat /\ DOMAIN mem = 1..Len(mem) /\ mem \in Seq(Node)
      /\ Tree(N, Syms(N), Links(N), g)
      /\ HasLines(N, Syms(N), g, elems, s)
      /\ \A m \in Ends(N, Syms(N)) : s[m] \in Lines
  BY <1>4, TreeIs DEF MemTree
<1>6. N = Len(mem)
  BY <1>1, <1>4 DEF Size
<1> DEFINE t == Target
           x == [mem[t] EXCEPT !["eq"] = inserts]
<1>7. Load(ptr) = t /\ t \in 1..N /\ mem[t].elem = Null
  BY <1>2, <1>6 DEF PutOK, Load, Target
<1>8. inserts \in Nat /\ "eq" \in Kid
  BY <1>2, LinesAssumption DEF TypeOK, Kid
<1>9. mem[t] \in Node
  BY <1>5, <1>6, <1>7, ElementOfSeq
<1>10. /\ x \in Node /\ x.elem = mem[t].elem
       /\ x.lo = mem[t].lo /\ x.hi = mem[t].hi /\ x.eq = inserts
  <2> HIDE DEF t
  <2>. QED
    BY <1>8, <1>9, LinkSet
<1>11. mem' = [mem EXCEPT ![t] = x]
  BY <1>1, <1>7
<1> HIDE DEF x, t
<1>12. /\ mem' \in Seq(Node) /\ Len(mem') = N
       /\ \A n \in 1..N : mem'[n] = IF n = t THEN x ELSE mem[n]
  BY <1>5, <1>6, <1>7, <1>10, <1>11, ExceptSeq
<1>13. \A n \in 1..N : /\ mem'[n].elem = mem[n].elem
                       /\ mem'[n].lo = mem[n].lo /\ mem'[n].hi = mem[n].hi
                       /\ mem'[n].eq = IF n = t THEN inserts ELSE mem[n].eq
  BY <1>10, <1>12
<1>14. DOMAIN mem' = 1..N /\ Offsets = 0..N /\ Offsets' = 0..N
  BY <1>5, <1>6, <1>12, LenProperties DEF Offsets
<1>15. Syms(N)' = Syms(N) /\ Links(N)' = Links(N)
  <2>1. \A n \in 1..N, k \in Kid : LinkTo(mem'[n], k) = LinkTo(mem[n], k)
    BY <1>7, <1>13 DEF LinkTo, Kid
  <2>2. \A n \in 1..N : [k \in Kid |-> LinkTo(mem'[n], k)] = [k \in Kid |-> LinkTo(mem[n], k)]
    BY <2>1
  <2>3. Links(N)' = [n \in 1..N |-> [k \in Kid |-> LinkTo(mem'[n], k)]]
    BY DEF Links, LinkTo
  <2>4. Links(N)' = Links(N)
    BY <2>2, <2>3 DEF Links
  <2>5. Syms(N)' = Syms(N)
    BY <1>13 DEF Syms
  <2>. QED
    BY <2>4, <2>5
<1>16. MemTree(N, g, s)'
  <2>1. N \in 0..Len(mem') /\ \A n \in 1..Len(mem') : ~(n > N)
    BY <1>5, <1>6, <1>12
  <2>. QED
    BY <1>1, <1>5, <1>12, <1>15, <2>1 DEF MemTree
<1>17. /\ pc' = "idle" /\ line' = NoLine /\ rest' = <<>> /\ elem' = 0 /\ next' = TRUE
       /\ ptr' = RootPtr2 /\ cur' = 0
  BY <1>1 DEF Return, Null
<1>18. TypeOK'
  <2>1. ASSUME NEW n \in 1..N
        PROVE  /\ mem'[n].elem \in 0..Len(elems)
               /\ mem'[n].lo \in 0..N /\ mem'[n].hi \in 0..N
               /\ mem'[n].eq \in IF mem'[n].elem = Null THEN 0..inserts ELSE 0..N
    <3>1. /\ mem[n].elem \in 0..Len(elems)
          /\ mem[n].lo \in 0..N /\ mem[n].hi \in 0..N
          /\ mem[n].eq \in IF mem[n].elem = Null THEN 0..inserts ELSE 0..N
      BY <1>2, <1>5, <1>6, <1>14 DEF TypeOK
    <3>2. inserts \in 0..inserts
      BY <1>8
    <3>. QED
      BY <1>7, <1>13, <3>1, <3>2
  <2>2. \A n \in DOMAIN mem' :
          /\ mem'[n].elem \in 0..Len(elems')
          /\ mem'[n].lo \in Offsets' /\ mem'[n].hi \in Offsets'
          /\ mem'[n].eq \in IF mem'[n].elem = Null THEN 0..inserts' ELSE Offsets'
    BY <1>1, <1>14, <2>1
  <2>3. rest' \in Seq(Chars)
    BY <1>17, EmptySeq
  <2>4. ptr'.link = "self"
    BY <1>17 DEF RootPtr2
  <2>5. 0 \in 0..Len(elems) /\ 0 \in 0..N
    BY <1>2, <1>5, <1>6, LenProperties DEF TypeOK
  <2>6. \A i \in DOMAIN frames' : /\ frames'[i].node \in DOMAIN mem'
                                  /\ frames'[i].at \in {"lo", "self", "pop", "hi"}
    BY <1>1, <1>2, <1>5, <1>6, <1>14 DEF TypeOK, printer
  <2>7. root \in 0..N
    BY <1>2, <1>14 DEF TypeOK
  <2>. QED
    BY <1>1, <1>2, <1>14, <1>17, <2>2, <2>3, <2>4, <2>5, <2>6, <2>7 DEF TypeOK, printer
<1>19. (frames \in Seq(Frame))'
  <2>1. Frame' = Frame
    BY <1>6, <1>12 DEF Frame
  <2>. QED
    BY <1>1, <1>2, <2>1 DEF printer
<1>20. Size' = N
  BY <1>12, <1>17 DEF Size
<1>21. TreeWith(N, g, s)'
  BY <1>1, <1>4, <1>16, <1>17, <1>20 DEF TreeWith, Rooted
<1>22. TreeOK'
  BY <1>21 DEF TreeOK
<1>23. PtrOK'
  BY <1>17 DEF PtrOK, RootPtr2, Link, Null
<1>24. PathInv'
  BY <1>1, <1>2, <1>17, <1>18, <1>19, <1>22, <1>23 DEF PathInv
<1>25. Rooted(N)'
  BY <1>1, <1>4 DEF Rooted
<1>26. Stored' = Stored
  BY <1>4, <1>15, <1>16, <1>25, SameStored
<1>. QED
  BY <1>24, <1>26

\* A lookup looks the next element up, of which there may be none.
LEMMA StepLookupFetch ==
  ASSUME PathInv, LookupFetch
  PROVE  PathInv'
<1>1. /\ pc = "lookup" /\ pc' = pc /\ cur # Null /\ next /\ next' = FALSE
      /\ elem' = IF rest = <<>> THEN Null ELSE Interned(First(rest))
      /\ rest' = IF rest = <<>> THEN rest ELSE AfterFirst(rest)
      /\ UNCHANGED <<elems, mem, addr, root, line, ptr, cur, inserts, ret, printer>>
  BY DEF LookupFetch, GetElem
<1>2. TypeOK /\ frames \in Seq(Frame) /\ Distinct(elems) /\ PtrOK
  BY DEF PathInv
<1>3. PICK N, g, s : TreeWith(N, g, s)
  BY DEF PathInv, TreeOK
<1>4. N = Size /\ Rooted(N) /\ MemTree(N, g, s) /\ Finding(N, g, s)
  BY <1>1, <1>3 DEF TreeWith
<1>5. /\ elems \in Seq(Seq(Chars)) /\ rest \in Seq(Chars) /\ Len(elems) \in Nat
      /\ DOMAIN elems = 1..Len(elems) /\ Len(elems) <= MaxElems /\ MaxElems \in Nat
  BY <1>2, LenProperties, LinesAssumption DEF TypeOK
<1>6. rest' \in Seq(Chars)
  BY <1>1, <1>5, FirstAndRest
<1>7. elem' \in 0..Len(elems)
  BY <1>1, <1>2, <1>5, InternedIs DEF Null
<1>8. TypeOK'
  BY <1>1, <1>2, <1>6, <1>7 DEF TypeOK, Offsets, printer
<1>9. (frames \in Seq(Frame))'
  BY <1>1, <1>2 DEF Frame, printer
<1>10. Size' = Size /\ N = Size'
  BY <1>1, <1>4 DEF Size
<1>11. Grown(elems, elems')
  BY <1>1 DEF Grown
<1>12. MemTree(N, g, s)' /\ Rooted(N)' /\ Syms(N)' = Syms(N)
  BY <1>1, <1>4, <1>11, SameTree DEF Rooted
<1>13. ASSUME NEW m \in Ends(N, Syms(N)), s[m] = line PROVE Nearing(N, g, m)'
  <2> DEFINE w == WordOf(Syms(N), g, m)
             p == g[cur].pre
             q == g[m].pre
  <2>1. cur \in 1..N /\ In(g[cur], w) /\ Cuts(elems, p, line, rest)
    BY <1>1, <1>4, <1>13 DEF Finding, Nearing
  <2>2. /\ m \in 1..N /\ Syms(N)[m] = Null /\ Cuts(elems, q, line, <<>>)
    BY <1>4, <1>13 DEF MemTree, HasLines, Ends
  <2>3. TreeTypes(N, Syms(N), Links(N), g)
    BY <1>4, TreeIs
  <2>4. /\ p \in Words /\ Len(p) \in Nat /\ q \in Words /\ Len(q) \in Nat
        /\ w \in Words /\ Len(w) = Len(q) + 1
        /\ \A j \in 1..Len(q) : w[j] = q[j]
        /\ w[Len(q) + 1] = Null
    BY <2>1, <2>2, <2>3, WordAndPath
  <2>5. Len(p) < Len(w) /\ \A j \in 1..Len(p) : w[j] = p[j]
    BY <2>1 DEF In
  <2> HIDE DEF p, q, w
  <2>6. Len(p) <= Len(q) /\ \A j \in 1..Len(p) : j \in 1..Len(q)
    BY <2>4, <2>5
  <2>7. \A j \in 1..Len(p) : q[j] = p[j]
    BY <2>4, <2>5, <2>6
  <2>8. PICK u : CutShort(elems, p, q, line, <<>>, u)
    BY <2>2, <2>4, <2>6, <2>7, CutsLess
  <2>9. u = rest
    BY <2>1, <2>4, <2>8, CutsOnce DEF CutShort
  <2>10. elem' = w[Len(p) + 1] /\ (elem' # Null => Cuts(elems, Append(p, elem'), line, rest'))
    <3>1. CASE Len(p) = Len(q)
      <4>1. rest = <<>>
        BY <2>8, <2>9, <3>1 DEF CutShort
      <4>. QED
        BY <1>1, <2>4, <3>1, <4>1
    <3>2. CASE Len(p) # Len(q)
      <4>1. Len(p) < Len(q) /\ Len(p) + 1 \in 1..Len(q)
        BY <2>4, <2>6, <3>2
      <4> DEFINE e == q[Len(p) + 1]
      <4>2. rest # <<>> /\ e \in DOMAIN elems /\ elems[e] = First(rest)
        BY <2>8, <2>9, <4>1 DEF CutShort
      <4>3. Interned(First(rest)) = e
        BY <1>2, <1>5, <4>2, InternedIs
      <4>4. elem' = e /\ rest' = AfterFirst(rest) /\ w[Len(p) + 1] = e
        BY <1>1, <2>4, <4>1, <4>2, <4>3
      <4>5. e \in Elem
        BY <1>5, <4>2 DEF Elem
      <4> HIDE DEF e
      <4>6. Cuts(elems, Append(p, e), line, AfterFirst(rest))
        BY <2>1, <2>4, <4>2, <4>5, CutsMore
      <4>. QED
        BY <4>4, <4>6
    <3>. QED
      BY <3>1, <3>2
  <2>. QED
    BY <1>1, <1>12, <2>1, <2>10 DEF Nearing, p, w
<1>14. Finding(N, g, s)'
  BY <1>1, <1>4, <1>12, <1>13 DEF Finding
<1>15. TreeWith(N, g, s)'
  BY <1>1, <1>10, <1>12, <1>14 DEF TreeWith
<1>16. TreeOK'
  BY <1>15 DEF TreeOK
<1>17. PtrOK'
  BY <1>1, <1>2, <1>10 DEF PtrOK
<1>. QED
  BY <1>1, <1>2, <1>8, <1>9, <1>16, <1>17 DEF PathInv

\* The lookup takes a turn, the one that leads to the node of the line.
LEMMA StepLookupNext ==
  ASSUME PathInv, LookupNext
  PROVE  PathInv'
<1> DEFINE c == mem[cur].elem
           l == SideOf(elem, c)
<1>1. /\ pc = "lookup" /\ pc' = pc /\ cur # Null /\ ~next /\ ~AtEnd(elem, cur)
      /\ cur' = mem[cur][Side(elem, cur)] /\ next' = (Side(elem, cur) = "eq")
      /\ UNCHANGED <<elems, mem, addr, root, line, rest, elem, ptr, inserts, ret, printer>>
  BY DEF LookupNext
<1>2. TypeOK /\ frames \in Seq(Frame) /\ Distinct(elems) /\ PtrOK
  BY DEF PathInv
<1>3. PICK N, g, s : TreeWith(N, g, s)
  BY DEF PathInv, TreeOK
<1>4. N = Size /\ Rooted(N) /\ MemTree(N, g, s) /\ Finding(N, g, s)
  BY <1>1, <1>3 DEF TreeWith
<1>5. Side(elem, cur) = l /\ l \in Kid
  BY DEF Side, SideOf, Kid
<1>6. l = "eq" => elem = c /\ c # Null
  BY <1>1 DEF SideOf, AtEnd
<1> HIDE DEF l
<1>7. cur' = mem[cur][l] /\ next' = (l = "eq")
  BY <1>1, <1>5
<1>8. /\ Len(mem) \in Nat /\ DOMAIN mem = 1..Len(mem) /\ mem \in Seq(Node) /\ N \in Nat
      /\ Tree(N, Syms(N), Links(N), g)
      /\ TreeTypes(N, Syms(N), Links(N), g) /\ TreeLinks(N, Syms(N), Links(N), g)
      /\ \A n \in 1..N : n \in 1..Len(mem) /\ Syms(N)[n] = mem[n].elem
  BY <1>4, TreeIs DEF MemTree
<1>9. cur' \in Offsets
  <2>1. cur \in DOMAIN mem
    BY <1>1, <1>2, <1>8 DEF TypeOK, Offsets, Null
  <2>2. /\ mem[cur].lo \in Offsets /\ mem[cur].hi \in Offsets
        /\ mem[cur].elem # Null => mem[cur].eq \in Offsets
    BY <1>2, <2>1 DEF TypeOK
  <2>. QED
    BY <1>5, <1>6, <1>7, <2>2 DEF Kid
<1>10. TypeOK'
  BY <1>1, <1>2, <1>7, <1>9 DEF TypeOK, Offsets, printer
<1>11. (frames \in Seq(Frame))'
  BY <1>1, <1>2 DEF Frame, printer
<1>12. Size' = Size /\ N = Size'
  BY <1>1, <1>4 DEF Size
<1>13. Grown(elems, elems')
  BY <1>1 DEF Grown
<1>14. MemTree(N, g, s)' /\ Rooted(N)' /\ Syms(N)' = Syms(N)
  BY <1>1, <1>4, <1>13, SameTree DEF Rooted
<1>15. ASSUME NEW m \in Ends(N, Syms(N)), s[m] = line PROVE Nearing(N, g, m)'
  <2> DEFINE w == WordOf(Syms(N), g, m)
             r == g[cur]
             d == Len(r.pre)
  <2>1. /\ cur \in 1..N /\ In(r, w) /\ elem = w[d + 1]
        /\ elem # Null => Cuts(elems, Append(r.pre, elem), line, rest)
    BY <1>1, <1>4, <1>15 DEF Finding, Nearing
  <2>2. Syms(N)[cur] = c /\ r \in Region /\ c \in Elem
    BY <1>8, <2>1, WordType
  <2>3. m \in 1..N /\ Syms(N)[m] = Null
    BY DEF Ends
  <2>4. /\ Len(g[m].pre) \in Nat /\ w \in Words /\ Len(w) = Len(g[m].pre) + 1
        /\ w[Len(g[m].pre) + 1] = Null
    BY <1>8, <2>3, WordAndPath
  <2>5. d \in Nat /\ Append(r.pre, c)[d + 1] = c
    BY <2>2, PrefixIs
  <2>6. d < Len(w)
    BY <2>1 DEF In
  <2> HIDE DEF w, r, d, c
  <2>7. /\ l # "eq" \/ Len(w) > d + 1 => In(Part(r, c, l), w)
        /\ l = "eq" /\ Len(w) = d + 1 => w = Append(r.pre, c)
    BY <2>1, <2>2, <2>4, PartOf DEF d, l
  <2>8. In(Part(r, c, l), w)
    <3>1. CASE l = "eq" /\ Len(w) = d + 1
      <4>1. w[d + 1] = Null
        BY <2>4, <2>5, <3>1
      <4>. QED
        BY <1>6, <2>1, <3>1, <4>1
    <3>2. CASE ~(l = "eq" /\ Len(w) = d + 1)
      <4>1. l # "eq" \/ Len(w) > d + 1
        BY <2>4, <2>5, <2>6, <3>2
      <4>. QED
        BY <2>7, <4>1
    <3>. QED
      BY <3>1, <3>2
  <2>9. In(At(Syms(N), g, cur, l), w)
    BY <2>2, <2>8 DEF At, r
  <2>10. Links(N)[cur][l] # Null
    BY <1>5, <1>8, <2>1, <2>3, <2>9 DEF Tree, FreeOfNodes, w
  <2>11. l = "eq" => mem[cur].elem # Null
    BY <1>6 DEF c
  <2>12. cur' = Links(N)[cur][l]
    BY <1>5, <1>7, <2>1, <2>11, LinkIs
  <2>13. cur' \in 1..N /\ g[cur'] = At(Syms(N), g, cur, l)
    BY <1>5, <1>8, <2>1, <2>10, <2>12 DEF TreeLinks
  <2>14. g[cur'] = Part(r, c, l)
    BY <2>2, <2>13 DEF At, r
  <2>15. In(g[cur'], w)
    BY <2>9, <2>13
  <2>16. CASE l = "eq"
    <3>1. g[cur'].pre = Append(r.pre, elem) /\ elem # Null
      BY <1>6, <2>14, <2>16 DEF Part, c
    <3>. QED
      BY <1>1, <1>7, <1>14, <2>1, <2>13, <2>15, <2>16, <3>1 DEF Nearing, w
  <2>17. CASE l # "eq"
    <3>1. g[cur'].pre = r.pre
      BY <2>14, <2>17 DEF Part
    <3>2. elem = w[Len(g[cur'].pre) + 1] /\ (elem # Null => Cuts(elems, Append(g[cur'].pre, elem), line, rest))
      BY <2>1, <3>1 DEF d
    <3>3. ~next'
      BY <1>7, <2>17
    <3>. QED
      BY <1>1, <1>14, <2>13, <2>15, <3>2, <3>3 DEF Nearing, w
  <2>. QED
    BY <2>16, <2>17
<1>16. Finding(N, g, s)'
  BY <1>1, <1>4, <1>14, <1>15 DEF Finding
<1>17. TreeWith(N, g, s)'
  BY <1>1, <1>12, <1>14, <1>16 DEF TreeWith
<1>18. TreeOK'
  BY <1>17 DEF TreeOK
<1>19. PtrOK'
  BY <1>1, <1>2, <1>12 DEF PtrOK
<1>. QED
  BY <1>1, <1>2, <1>10, <1>11, <1>18, <1>19 DEF PathInv
-----------------------------------------------------------------------------
(***************************************************************************)
(* The characters of a path.  The recursive function that Spell chooses    *)
(* satisfies its equation if there is such a function: the one put together*)
(* element by element.                                                     *)
(***************************************************************************)
SpelledBy(E, es, n, f) == /\ f \in [0..n -> Seq(Chars)] /\ f[0] = <<>>
                          /\ \A i \in 1..n : f[i] = f[i - 1] \o E[es[i]]

LEMMA SpellingExists ==
  ASSUME NEW E \in Seq(Seq(Chars)), NEW es \in Seq(1..Len(E))
  PROVE  \E f : SpelledBy(E, es, Len(es), f)
<1>1. Len(es) \in Nat /\ \A i \in 1..Len(es) : E[es[i]] \in Seq(Chars)
  <2>1. ASSUME NEW i \in 1..Len(es) PROVE E[es[i]] \in Seq(Chars)
    BY ElementOfSeq
  <2>. QED
    BY <2>1, LenProperties
<1> DEFINE S == {n \in Nat : n <= Len(es) => \E f : SpelledBy(E, es, n, f)}
<1>2. 0 \in S
  <2>1. SpelledBy(E, es, 0, [k \in 0..0 |-> <<>>])
    BY EmptySeq DEF SpelledBy
  <2>. QED
    BY <2>1
<1>3. ASSUME NEW n \in S PROVE n + 1 \in S
  <2>1. n \in Nat /\ n + 1 \in Nat
    OBVIOUS
  <2>2. ASSUME n + 1 <= Len(es) PROVE \E f : SpelledBy(E, es, n + 1, f)
    <3>1. PICK f : SpelledBy(E, es, n, f)
      BY <1>1, <2>1, <2>2
    <3> DEFINE x == f[n] \o E[es[n + 1]]
               h == [k \in 0..(n + 1) |-> IF k = n + 1 THEN x ELSE f[k]]
    <3>2. f \in [0..n -> Seq(Chars)] /\ f[0] = <<>>
      BY <3>1 DEF SpelledBy
    <3>3. n + 1 \in 1..Len(es) /\ n \in 0..n
      BY <1>1, <2>1, <2>2
    <3>4. f[n] \in Seq(Chars) /\ E[es[n + 1]] \in Seq(Chars)
      BY <1>1, <3>2, <3>3
    <3>5. x \in Seq(Chars)
      BY <3>4, ConcatProperties
    <3> HIDE DEF x
    <3>6. h \in [0..(n + 1) -> Seq(Chars)] /\ h[n + 1] = x /\ \A k \in 0..n : h[k] = f[k]
      BY <2>1, <3>2, <3>5
    <3>7. h[0] = <<>>
      BY <2>1, <3>2, <3>6
    <3> HIDE DEF h
    <3>8. ASSUME NEW i \in 1..(n + 1) PROVE h[i] = h[i - 1] \o E[es[i]]
      <4>1. CASE i = n + 1
        <5>1. i - 1 = n
          BY <2>1, <4>1
        <5>. QED
          BY <3>3, <3>6, <4>1, <5>1 DEF x
      <4>2. CASE i # n + 1
        <5>1. i \in 1..n /\ i - 1 \in 0..n /\ i \in 0..n
          BY <2>1, <4>2
        <5>. QED
          BY <3>1, <3>6, <5>1 DEF SpelledBy
      <4>. QED
        BY <4>1, <4>2
    <3>9. SpelledBy(E, es, n + 1, h)
      BY <3>6, <3>7, <3>8 DEF SpelledBy
    <3>. QED
      BY <3>9
  <2>. QED
    BY <2>1, <2>2
<1>4. S \in SUBSET Nat
  OBVIOUS
<1> HIDE DEF S
<1>5. S = Nat
  BY <1>2, <1>3, <1>4, SetInduction
<1>6. Len(es) \in S /\ Len(es) <= Len(es)
  BY <1>1, <1>5
<1>. QED
  BY <1>6 DEF S

LEMMA SpellIs ==
  ASSUME elems \in Seq(Seq(Chars)), NEW es \in Seq(1..Len(elems))
  PROVE  \E f : SpelledBy(elems, es, Len(es), f) /\ Spell(es) = f[Len(es)]
<1> DEFINE n == Len(es)
           Q(f, i) == IF i = 0 THEN <<>> ELSE f[i - 1] \o elems[es[i]]
           C == CHOOSE f : f = [i \in 0..n |-> Q(f, i)]
<1>1. n \in Nat
  BY LenProperties
<1>2. PICK F : SpelledBy(elems, es, n, F)
  BY SpellingExists
<1>3. F = [i \in 0..n |-> Q(F, i)]
  <2>1. F \in [0..n -> Seq(Chars)] /\ F[0] = <<>>
    BY <1>2 DEF SpelledBy
  <2>2. ASSUME NEW i \in 0..n PROVE F[i] = Q(F, i)
    <3>1. CASE i = 0
      BY <2>1, <3>1
    <3>2. CASE i # 0
      <4>1. i \in 1..n
        BY <1>1, <3>2
      <4>. QED
        BY <1>2, <3>2, <4>1 DEF SpelledBy
    <3>. QED
      BY <3>1, <3>2
  <2> HIDE DEF Q
  <2>. QED
    BY <2>1, <2>2
<1>4. C = [i \in 0..n |-> Q(C, i)]
  <2> HIDE DEF n
  <2>. QED
    BY <1>3, Zenon DEF Q
<1>5. Spell(es) = C[n]
  BY DEF Spell
<1> HIDE DEF C
<1>6. \A i \in 0..n : C[i] = Q(C, i)
  <2> DEFINE D == [i \in 0..n |-> Q(C, i)]
  <2>1. \A i \in 0..n : D[i] = Q(C, i)
    OBVIOUS
  <2>2. C = D
    BY <1>4
  <2> HIDE DEF D, Q
  <2>. QED
    BY <2>1, <2>2
<1>7. C[0] = <<>> /\ \A i \in 1..n : C[i] = C[i - 1] \o elems[es[i]]
  <2>1. 0 \in 0..n /\ \A i \in 1..n : i \in 0..n /\ i # 0
    BY <1>1
  <2>. QED
    BY <1>6, <2>1
<1>8. \A i \in 0..n : C[i] = F[i]
  <2> DEFINE T == {i \in 0..n : C[i] # F[i]}
  <2> SUFFICES ASSUME T # {} PROVE FALSE
    OBVIOUS
  <2>1. PICK i \in T : \A k \in T : i <= k
    <3>1. T \in SUBSET Nat
      BY <1>1
    <3> HIDE DEF T
    <3>. QED
      BY <3>1, LeastElement
  <2>2. i \in 0..n /\ C[i] # F[i]
    OBVIOUS
  <2>3. i # 0
    BY <1>2, <1>7, <2>2 DEF SpelledBy
  <2>4. i \in 1..n /\ i - 1 \in 0..n /\ ~(i <= i - 1)
    BY <1>1, <2>2, <2>3
  <2>5. C[i - 1] = F[i - 1]
    BY <2>1, <2>4
  <2>. QED
    BY <1>2, <1>7, <2>2, <2>4, <2>5 DEF SpelledBy
<1>9. n \in 0..n
  BY <1>1
<1>10. Spell(es) = F[n]
  BY <1>5, <1>8, <1>9
<1>. QED
  BY <1>2, <1>10, Zenon

LEMMA SpellType ==
  ASSUME elems \in Seq(Seq(Chars)), NEW es \in Seq(1..Len(elems))
  PROVE  Spell(es) \in Seq(Chars)
<1>1. PICK f : SpelledBy(elems, es, Len(es), f) /\ Spell(es) = f[Len(es)]
  BY SpellIs
<1>2. Len(es) \in 0..Len(es)
  BY LenProperties
<1>. QED
  BY <1>1, <1>2 DEF SpelledBy
-----------------------------------------------------------------------------
(***************************************************************************)
(* The printer.                                                            *)
(***************************************************************************)
LEMMA CutType ==
  ASSUME NEW S, NEW u \in Seq(S)
  PROVE  Cut(u) \in Seq(S)
<1> DEFINE k == Len(u)
<1>1. k \in Nat
  BY LenProperties
<1>2. \A j \in 1..(k - 1) : j \in 1..k
  BY <1>1
<1>3. \A j \in 1..(k - 1) : u[j] \in S
  BY <1>2, ElementOfSeq
<1>4. 1 \in Int /\ k - 1 \in Int
  BY <1>1
<1>. QED
  BY <1>3, <1>4, SubSeqProperties DEF Cut

LEMMA EnterType ==
  ASSUME mem \in Seq(Node), NEW fs \in Seq(Frame), NEW n \in Offsets
  PROVE  Enter(fs, n) \in Seq(Frame)
<1>1. CASE n = Null
  BY <1>1 DEF Enter
<1>2. CASE n # Null
  <2>1. n \in 1..Len(mem)
    BY <1>2, MemFacts DEF Offsets, Null
  <2>2. [node |-> n, at |-> "lo"] \in Frame
    BY <2>1 DEF Frame
  <2>. QED
    BY <1>2, <2>2, AppendProperties DEF Enter
<1>. QED
  BY <1>1, <1>2

LEMMA FramesType ==
  ASSUME frames \in Seq(Frame), frames # <<>>
  PROVE  /\ Top \in Frame /\ Top.node \in 1..Len(mem)
         /\ \A at \in {"lo", "self", "pop", "hi"} : GoOn(at) \in Seq(Frame)
         /\ Cut(frames) \in Seq(Frame)
<1> DEFINE k == Len(frames)
<1>1. k \in Nat \ {0}
  BY EmptySeq
<1>2. k \in 1..k
  BY <1>1
<1>3. Top \in Frame
  BY <1>2, ElementOfSeq DEF Top
<1>4. ASSUME NEW at \in {"lo", "self", "pop", "hi"} PROVE GoOn(at) \in Seq(Frame)
  <2> DEFINE f == [frames[k] EXCEPT !.at = at]
  <2>1. f \in Frame
    BY <1>3 DEF Frame, Top
  <2>2. GoOn(at) = [frames EXCEPT ![k] = f]
    BY DEF GoOn
  <2> HIDE DEF f, k
  <2>. QED
    BY <1>2, <2>1, <2>2, ExceptSeq DEF k
<1>5. Cut(frames) \in Seq(Frame)
  BY CutType
<1>6. Top.node \in 1..Len(mem)
  BY <1>3 DEF Frame
<1>. QED
  BY <1>3, <1>4, <1>5, <1>6

\* What the printer reads of a node.
LEMMA NodeFields ==
  ASSUME TypeOK, DOMAIN mem = 1..Len(mem), NEW n \in 1..Len(mem)
  PROVE  /\ mem[n].lo \in Offsets /\ mem[n].hi \in Offsets
         /\ mem[n].elem # Null => mem[n].eq \in Offsets /\ mem[n].elem \in 1..Len(elems)
<1>1. /\ mem[n].lo \in Offsets /\ mem[n].hi \in Offsets
      /\ mem[n].elem # Null => mem[n].eq \in Offsets
  BY DEF TypeOK
<1> DEFINE e == mem[n].elem
<1>2. e \in 0..Len(elems) /\ Len(elems) \in Nat
  BY LenProperties DEF TypeOK
<1> HIDE DEF e
<1>3. e # Null => e \in 1..Len(elems)
  BY <1>2 DEF Null
<1>. QED
  BY <1>1, <1>3 DEF e

LEMMA PrinterSteps ==
  ASSUME TypeOK, frames \in Seq(Frame), mem \in Seq(Node), CallPrint \/ PrintStep
  PROVE  /\ UNCHANGED kept /\ pc' \in {"print", "printed", "stack_empty"}
         /\ frames' \in Seq(Frame) /\ path' \in Seq(1..Len(elems)) /\ out' \in Seq(Seq(Chars))
<1>1. /\ path \in Seq(1..Len(elems)) /\ out \in Seq(Seq(Chars)) /\ elems \in Seq(Seq(Chars))
      /\ root \in Offsets /\ DOMAIN mem = 1..Len(mem)
  BY MemFacts DEF TypeOK
<1>2. ASSUME NEW n \in 1..Len(mem)
      PROVE  /\ mem[n].lo \in Offsets /\ mem[n].hi \in Offsets
             /\ mem[n].elem # Null => mem[n].eq \in Offsets /\ mem[n].elem \in 1..Len(elems)
  BY <1>1, NodeFields
<1>3. CASE CallPrint
  <2>1. Enter(<<>>, root) \in Seq(Frame)
    BY <1>1, EnterType, EmptySeq
  <2>. QED
    BY <1>1, <1>3, <2>1 DEF CallPrint
<1>4. CASE PrintDone
  BY <1>1, <1>4 DEF PrintDone, printer
<1>5. ASSUME frames # <<>>
      PROVE  /\ Top \in Frame /\ Top.node \in 1..Len(mem)
             /\ \A at \in {"lo", "self", "pop", "hi"} : GoOn(at) \in Seq(Frame)
             /\ Cut(frames) \in Seq(Frame)
  BY <1>5, FramesType
<1>6. CASE PrintLo
  <2>1. GoOn("self") \in Seq(Frame) /\ mem[Top.node].lo \in Offsets
    BY <1>2, <1>5, <1>6 DEF PrintLo
  <2>2. Enter(GoOn("self"), mem[Top.node].lo) \in Seq(Frame)
    BY <2>1, EnterType
  <2>. QED
    BY <1>1, <1>6, <2>2 DEF PrintLo
<1>7. CASE PrintHi
  <2>1. Cut(frames) \in Seq(Frame) /\ mem[Top.node].hi \in Offsets
    BY <1>2, <1>5, <1>7 DEF PrintHi
  <2>2. Enter(Cut(frames), mem[Top.node].hi) \in Seq(Frame)
    BY <2>1, EnterType
  <2>. QED
    BY <1>1, <1>7, <2>2 DEF PrintHi
<1>8. CASE PrintPop
  <2>1. GoOn("hi") \in Seq(Frame) /\ Cut(path) \in Seq(1..Len(elems))
    BY <1>1, <1>5, <1>8, CutType DEF PrintPop
  <2>. QED
    BY <1>1, <1>8, <2>1 DEF PrintPop
<1>9. CASE PrintLine
  <2>1. GoOn("hi") \in Seq(Frame) /\ Spell(path) \in Seq(Chars)
    BY <1>1, <1>5, <1>9, SpellType DEF PrintLine
  <2>2. Append(out, Spell(path)) \in Seq(Seq(Chars))
    BY <1>1, <2>1, AppendProperties
  <2>. QED
    BY <1>1, <1>9, <2>1, <2>2 DEF PrintLine
<1>10. CASE PrintEq
  <2>1. /\ GoOn("hi") \in Seq(Frame) /\ GoOn("pop") \in Seq(Frame)
        /\ mem[Top.node].eq \in Offsets /\ mem[Top.node].elem \in 1..Len(elems)
    BY <1>2, <1>5, <1>10 DEF PrintEq
  <2>2. Enter(GoOn("pop"), mem[Top.node].eq) \in Seq(Frame)
    BY <2>1, EnterType
  <2>3. Append(path, mem[Top.node].elem) \in Seq(1..Len(elems))
    BY <1>1, <2>1, AppendProperties
  <2>. QED
    BY <1>1, <1>10, <2>1, <2>2, <2>3 DEF PrintEq
<1>. QED
  BY <1>3, <1>4, <1>6, <1>7, <1>8, <1>9, <1>10 DEF PrintStep

LEMMA StepPrint ==
  ASSUME PathInv, CallPrint \/ PrintStep
  PROVE  PathInv' /\ UNCHANGED kept
<1>1. TypeOK /\ frames \in Seq(Frame)
  BY DEF PathInv
<1>2. mem \in Seq(Node) /\ DOMAIN mem = 1..Len(mem) /\ pc # "store"
  <2>1. mem \in Seq(Node)
    BY DEF PathInv, TreeOK, TreeWith, MemTree
  <2>2. pc # "store"
    BY DEF CallPrint, PrintStep, PrintLo, PrintLine, PrintEq, PrintPop, PrintHi, PrintDone
  <2>. QED
    BY <2>1, <2>2, MemFacts
<1>3. /\ UNCHANGED kept /\ pc' \in {"print", "printed", "stack_empty"}
      /\ frames' \in Seq(Frame) /\ path' \in Seq(1..Len(elems)) /\ out' \in Seq(Seq(Chars))
  BY <1>1, <1>2, PrinterSteps
<1>4. UNCHANGED <<elems, mem, addr, root, line, rest, elem, next, ptr, cur, inserts, ret>>
  BY <1>3 DEF kept, locals
<1>5. (frames \in Seq(Frame))'
  BY <1>3, <1>4 DEF Frame
<1>6. \A i \in DOMAIN frames' : /\ frames'[i].node \in DOMAIN mem
                                /\ frames'[i].at \in {"lo", "self", "pop", "hi"}
  <2>1. ASSUME NEW i \in DOMAIN frames' PROVE frames'[i] \in Frame
    <3>1. DOMAIN frames' = 1..Len(frames')
      BY <1>3, LenProperties
    <3>. QED
      BY <1>3, <3>1, ElementOfSeq
  <2>. QED
    BY <1>2, <2>1 DEF Frame
<1>7. TypeOK'
  BY <1>1, <1>3, <1>4, <1>6 DEF TypeOK, Offsets
<1>8. PathInv'
  BY <1>2, <1>3, <1>4, <1>5, <1>7, StepQuiet
<1>. QED
  BY <1>3, <1>8

LEMMA StepNothing == ASSUME PathInv, UNCHANGED vars PROVE PathInv'
<1>1. /\ elems' = elems /\ mem' = mem /\ addr' = addr /\ root' = root /\ pc' = pc
      /\ line' = line /\ rest' = rest /\ elem' = elem /\ next' = next /\ ptr' = ptr
      /\ cur' = cur /\ inserts' = inserts /\ ret' = ret /\ frames' = frames
      /\ path' = path /\ out' = out
  BY DEF vars, locals, printer
<1>2. TypeOK' <=> TypeOK
  BY <1>1 DEF TypeOK, Offsets
<1>3. Frame' = Frame /\ Size' = Size /\ Target' = Target
  BY <1>1 DEF Frame, Size, Target
<1>4. PtrOK' <=> PtrOK
  BY <1>1, <1>3 DEF PtrOK
<1>5. PutOK' <=> PutOK
  BY <1>1, <1>3 DEF PutOK, Valid
<1>6. ASSUME NEW N, NEW g, NEW s PROVE TreeWith(N, g, s)' <=> TreeWith(N, g, s)
  <2>1. Syms(N)' = Syms(N) /\ Links(N)' = Links(N)
    BY <1>1 DEF Syms, Links
  <2>2. MemTree(N, g, s)' <=> MemTree(N, g, s)
    BY <1>1, <2>1 DEF MemTree
  <2>3. OnWay(N, g)' <=> OnWay(N, g)
    <3>1. Reached(N, g)' = Reached(N, g)
      BY <1>1, <2>1 DEF Reached
    <3>. QED
      BY <1>1, <3>1 DEF OnWay, ComesNext
  <2>4. Finding(N, g, s)' <=> Finding(N, g, s)
    BY <1>1, <2>1 DEF Finding, Nearing
  <2>. QED
    BY <1>1, <1>3, <2>2, <2>3, <2>4 DEF TreeWith, Rooted
<1>7. TreeOK' <=> TreeOK
  BY <1>6 DEF TreeOK
<1>. QED
  BY <1>1, <1>2, <1>3, <1>4, <1>5, <1>7 DEF PathInv
-----------------------------------------------------------------------------
\* Every step preserves the invariant.
LEMMA PathStep == PathInv /\ [Next]_vars => PathInv'
<1> SUFFICES ASSUME PathInv, [Next]_vars PROVE PathInv'
  OBVIOUS
<1>1. /\ inserts \in 0..MaxInserts /\ MaxInserts \in Nat
      /\ ret \in [found : BOOLEAN, node : Lines \cup {NoLine}]
  BY LinesAssumption DEF PathInv, TypeOK
<1>2. ASSUME NEW l \in Lines, CallInsert(l) PROVE PathInv'
  <2>1. Call("walk", l) /\ inserts' \in 0..MaxInserts /\ inserts <= inserts'
    BY <1>1, <1>2 DEF CallInsert
  <2>2. ret' \in [found : BOOLEAN, node : Lines \cup {NoLine}]
    BY <1>2 DEF CallInsert, NoResult
  <2>3. "walk" \in {"walk", "lookup"}
    OBVIOUS
  <2>. QED
    BY <2>1, <2>2, <2>3, StepCall
<1>3. ASSUME NEW l \in Lines, CallLookup(l) PROVE PathInv'
  <2>1. Call("lookup", l) /\ inserts' \in 0..MaxInserts /\ inserts <= inserts' /\ ret' = ret
    BY <1>1, <1>3 DEF CallLookup
  <2>2. "lookup" \in {"walk", "lookup"}
    OBVIOUS
  <2>. QED
    BY <1>1, <2>1, <2>2, StepCall
<1>4. CASE Insert
  BY <1>4, StepFetch, StepReturn, StepWalkNext, StepWalkEnd, StepAllocate, StepStore, StepSetValue
  DEF Insert
<1>5. CASE Lookup
  BY <1>5, StepReturn, StepLookupFetch, StepLookupNext DEF Lookup
<1>6. CASE CallPrint \/ PrintStep
  BY <1>6, StepPrint
<1>7. CASE NoMemory
  BY <1>7, StepNoMemory
<1>8. CASE UNCHANGED vars
  BY <1>8, StepNothing
<1>. QED
  BY <1>2, <1>3, <1>4, <1>5, <1>6, <1>7, <1>8 DEF Next, Step, Stopped

(***************************************************************************)
(* The nodes are always a tree of the paths of the lines, but for the one  *)
(* just allocated, and each search has gone the way of its line.           *)
(***************************************************************************)
THEOREM PathInvariance == Spec => []PathInv
<1>1. Init => PathInv
  BY PathInit
<1>2. PathInv /\ [Next]_vars => PathInv'
  BY PathStep
<1>. QED
  BY <1>1, <1>2, PTL DEF Spec

\* The offsets lie in the node table, and the bounds hold (TypeOK).
THEOREM PathTypeCorrect == Spec => []TypeOK
<1>1. PathInv => TypeOK
  BY DEF PathInv
<1>. QED
  BY <1>1, PathInvariance, PTL
-----------------------------------------------------------------------------
(***************************************************************************)
(* A linked node is never changed, and a lookup that fails is right.       *)
(***************************************************************************)
Keeps == /\ \A n \in DOMAIN mem :
              /\ mem'[n].elem = mem[n].elem
              /\ \A l \in {"lo", "hi", "eq"} : mem[n][l] # Null => mem'[n][l] = mem[n][l]
         /\ LookupNotFound => line \notin Stored

LEMMA StepKeeps == PathInv /\ [Next]_vars => Keeps
<1> SUFFICES ASSUME PathInv, [Next]_vars PROVE Keeps
  OBVIOUS
<1>1. LookupNotFound => line \notin Stored
  BY LookupMisses DEF LookupNotFound
<1>2. ASSUME mem' = mem PROVE Keeps
  BY <1>1, <1>2 DEF Keeps
<1>3. mem \in Seq(Node) /\ DOMAIN mem = 1..Len(mem) /\ Len(mem) \in Nat
  <2>1. mem \in Seq(Node)
    BY DEF PathInv, TreeOK, TreeWith, MemTree
  <2>. QED
    BY <2>1, MemFacts
<1>4. ASSUME NEW a \in {1, 2}, Allocate(a) PROVE Keeps
  <2>1. \A n \in DOMAIN mem : mem'[n] = mem[n]
    <3>1. mem' = Append(mem, NewNode(elem)) /\ elem \in Nat
      <4>1. TypeOK
        BY DEF PathInv
      <4>2. elem \in 0..Len(elems) /\ Len(elems) \in Nat
        BY <4>1, LenProperties DEF TypeOK
      <4>. QED
        BY <1>4, <4>2 DEF Allocate
    <3>2. NewNode(elem) \in Node
      BY <3>1 DEF NewNode, Node, Null
    <3>. QED
      BY <1>3, <3>1, <3>2, AppendProperties
  <2>. QED
    BY <1>1, <2>1 DEF Keeps
<1>5. CASE Store
  <2>1. PICK N, g, s : TreeWith(N, g, s)
    BY DEF PathInv, TreeOK
  <2>2. /\ N \in Nat /\ Len(mem) = N + 1 /\ Target = Null
        /\ \A n \in 1..(N + 1) : StoredAt(n)
        /\ ptr.link # "self" => ptr.link \in Kid /\ ptr.base \in 1..N
    BY <1>5, <2>1, StoreIs
  <2>3. ASSUME NEW n \in DOMAIN mem, NEW l \in {"lo", "hi", "eq"}, mem[n][l] # Null
        PROVE  mem'[n][l] = mem[n][l]
    <3>1. StoredAt(n)
      BY <1>3, <2>2
    <3>2. ~(ptr.base = n /\ ptr.link = l)
      BY <2>2, <2>3 DEF Target
    <3>. QED
      BY <3>1, <3>2 DEF StoredAt
  <2>4. \A n \in DOMAIN mem : mem'[n].elem = mem[n].elem
    BY <1>3, <2>2 DEF StoredAt
  <2>. QED
    BY <1>1, <2>3, <2>4 DEF Keeps
<1>6. CASE SetValue
  <2>1. PutOK /\ mem' = [mem EXCEPT ![Load(ptr)].eq = inserts]
    BY <1>6 DEF SetValue, PathInv
  <2>2. Load(ptr) = Target /\ Target \in DOMAIN mem /\ mem[Target].eq = Null
    BY <1>3, <2>1 DEF PutOK, Load, Target
  <2>3. \A n \in DOMAIN mem : mem[n] \in Node
    BY <1>3, ElementOfSeq
  <2> DEFINE t == Target
             x == [mem[t] EXCEPT !.eq = inserts]
  <2>4. mem' = [mem EXCEPT ![t] = x]
    BY <2>1, <2>2
  <2>5. x.elem = mem[t].elem /\ x.lo = mem[t].lo /\ x.hi = mem[t].hi
    BY <2>2, <2>3 DEF Node
  <2> HIDE DEF t, x
  <2>6. \A n \in DOMAIN mem : mem'[n] = IF n = t THEN x ELSE mem[n]
    BY <2>4
  <2>7. ASSUME NEW n \in DOMAIN mem
        PROVE  /\ mem'[n].elem = mem[n].elem
               /\ \A l \in {"lo", "hi", "eq"} : mem[n][l] # Null => mem'[n][l] = mem[n][l]
    BY <2>2, <2>5, <2>6 DEF t
  <2>. QED
    BY <1>1, <2>7 DEF Keeps
<1>7. mem' = mem \/ (\E a \in {1, 2} : Allocate(a)) \/ Store \/ SetValue
  BY DEF Next, Step, Insert, Lookup, PrintStep, CallInsert, CallLookup, Call, WalkFetch, WalkFound,
         WalkNext, WalkEnd, GrowFetch, LookupFetch, LookupNext, LookupFound, LookupNotFound,
         CallPrint, PrintLo, PrintLine, PrintEq, PrintPop, PrintHi, PrintDone, kept, NoMemory,
         Stopped, vars
<1>. QED
  BY <1>2, <1>4, <1>5, <1>6, <1>7

\* What is stored stays: the element of a node, a link that was set, the number of a line;
\* and a lookup that returns FALSE has looked for a line that is not stored (OnlyGrows).
THEOREM PathOnlyGrows == Spec => OnlyGrows
<1>1. PathInv /\ [Next]_vars => [Keeps]_vars
  BY StepKeeps
<1>2. Spec => [][Keeps]_vars
  BY <1>1, PathInvariance, PTL DEF Spec
<1>3. [][Keeps]_vars => OnlyGrows
  BY DEF Keeps, OnlyGrows
<1>. QED
  BY <1>2, <1>3
-----------------------------------------------------------------------------
(***************************************************************************)
(* The refinement of KeySet.                                               *)
(***************************************************************************)
LEMMA KeySetInit == Init => Abstract!Init
<1> SUFFICES ASSUME Init PROVE Abstract!Init
  OBVIOUS
<1>1. mem = <<>> /\ root = Null /\ pc = "idle" /\ ret = NoResult
  BY DEF Init
<1>2. PICK N, g, s : TreeWith(N, g, s)
  BY PathInit DEF PathInv, TreeOK
<1>3. N = 0
  BY <1>1, <1>2, EmptySeq DEF TreeWith, Size
<1>4. Stored = LinesOf(0, s)
  BY <1>2, <1>3, StoredOf
<1>5. Stored = {}
  BY <1>4 DEF LinesOf, Ends
<1>. QED
  BY <1>1, <1>5 DEF Abstract!Init, Inserting, NoResult, Abstract!NoResult

\* A step that links no node stores nothing and loses nothing, whatever it interns.
LEMMA NothingStored ==
  ASSUME PathInv, mem' = mem, root' = root, Grown(elems, elems')
  PROVE  Stored' = Stored
<1>1. PICK N, g, s : TreeWith(N, g, s)
  BY DEF PathInv, TreeOK
<1>2. Rooted(N) /\ MemTree(N, g, s)
  BY <1>1 DEF TreeWith
<1>3. MemTree(N, g, s)' /\ Syms(N)' = Syms(N)
  BY <1>2, SameTree
<1>4. Rooted(N)'
  BY <1>2 DEF Rooted
<1>. QED
  BY <1>2, <1>3, <1>4, SameStored

LEMMA FetchStores == ASSUME PathInv, WalkFetch \/ GrowFetch PROVE Stored' = Stored
<1>1. PutElem /\ mem' = mem /\ root' = root
  BY DEF WalkFetch, GrowFetch
<1>2. TypeOK /\ Distinct(elems)
  BY DEF PathInv
<1>3. elems \in Seq(Seq(Chars)) /\ Len(elems) <= MaxElems /\ rest \in Seq(Chars)
  BY <1>2 DEF TypeOK
<1>4. Grown(elems, elems')
  BY <1>1, <1>2, <1>3, PutElemIs DEF Interns
<1>. QED
  BY <1>1, <1>4, NothingStored

LEMMA FoundIsThere == ASSUME PathInv, WalkFound PROVE line \in Stored
<1>1. PtrOK /\ addr \in {1, 2}
  BY DEF PathInv, TypeOK
<1>2. Here = Target
  BY <1>1, HereIs
<1>3. /\ pc = "walk" /\ Target # Null /\ ~next /\ elem = Null /\ mem[Target].elem = Null
  BY <1>2 DEF WalkFound, AtEnd
<1>4. PICK N, g, s : TreeWith(N, g, s)
  BY DEF PathInv, TreeOK
<1>. QED
  BY <1>3, <1>4, LineIsThere, StoredOf

LEMMA StoreStores ==
  ASSUME PathInv, Store
  PROVE  /\ elem = Null => line \notin Stored /\ Stored' = Stored \cup {line}
         /\ elem # Null => Stored' = Stored
<1>1. PICK N, g, s : TreeWith(N, g, s)
  BY DEF PathInv, TreeOK
<1>2. PICK g2, s2 : g2 = Added(N, g, Reached(N, g)) /\ s2 = Added(N, s, line)
  BY Zenon
<1>3. /\ MemTree(N + 1, g2, s2)' /\ Rooted(N + 1)'
      /\ LinesOf(N + 1, s2)' = IF elem = Null THEN LinesOf(N, s) \cup {line} ELSE LinesOf(N, s)
  BY <1>1, <1>2, StoreTree
<1>4. StoredRight'
  BY StoredIs, PTL
<1>5. Stored = LinesOf(N, s) /\ Stored' = LinesOf(N + 1, s2)'
  BY <1>1, <1>3, <1>4, StoredOf DEF StoredRight
<1>6. elem = Null => line \notin Stored
  BY <1>1, <1>5, LineIsNew DEF Store
<1>. QED
  BY <1>3, <1>5, <1>6

LEMMA KeySetStep == PathInv /\ [Next]_vars => [Abstract!Next]_Abstract!vars
<1> SUFFICES ASSUME PathInv, [Next]_vars PROVE Abstract!Next \/ UNCHANGED Abstract!vars
  OBVIOUS
<1>1. ASSUME Stored' = Stored, (Inserting <=> Inserting'), Inserting => line' = line, ret' = ret
      PROVE  UNCHANGED Abstract!vars
  BY <1>1 DEF Abstract!vars
<1>2. ASSUME elems' = elems, mem' = mem, root' = root PROVE Stored' = Stored
  BY <1>2, NothingStored DEF Grown
<1>3. ASSUME NEW l \in Lines, CallInsert(l) PROVE Abstract!Next
  <2>1. Stored' = Stored
    BY <1>2, <1>3 DEF CallInsert, Call
  <2>2. ~Inserting /\ Inserting' /\ line' = l /\ ret' = NoResult
    BY <1>3 DEF CallInsert, Call, Inserting
  <2>3. Abstract!Call("insert", l)
    BY <2>1, <2>2 DEF Abstract!Call, NoResult, Abstract!NoResult
  <2>. QED
    BY <2>3 DEF Abstract!Next
<1>4. ASSUME NEW l \in Lines, CallLookup(l) PROVE UNCHANGED Abstract!vars
  <2>1. Stored' = Stored
    BY <1>2, <1>4 DEF CallLookup, Call
  <2>2. ~Inserting /\ ~Inserting' /\ ret' = ret
    BY <1>4 DEF CallLookup, Call, Inserting
  <2>. QED
    BY <1>1, <2>1, <2>2
<1>5. CASE WalkFetch \/ GrowFetch
  <2>1. Stored' = Stored
    BY <1>5, FetchStores
  <2>2. (Inserting <=> Inserting') /\ line' = line /\ ret' = ret
    BY <1>5 DEF WalkFetch, GrowFetch, Inserting
  <2>. QED
    BY <1>1, <2>1, <2>2
<1>6. CASE WalkFound
  <2>1. line \in Stored
    BY <1>6, FoundIsThere
  <2>2. Stored' = Stored
    BY <1>2, <1>6 DEF WalkFound
  <2>3. Inserting /\ ~Inserting' /\ ret' = [found |-> TRUE, node |-> line]
    BY <1>6 DEF WalkFound, Return, Inserting
  <2>4. Abstract!ReturnNode
    BY <2>1, <2>2, <2>3 DEF Abstract!ReturnNode, Abstract!Return
  <2>. QED
    BY <2>4 DEF Abstract!Next
<1>7. CASE WalkNext \/ WalkEnd \/ NoMemory
  <2>1. /\ elems' = elems /\ mem' = mem /\ root' = root /\ line' = line /\ ret' = ret
        /\ pc \in {"walk", "grow"} /\ pc' \in {"walk", "grow", "nomem"}
    BY <1>7 DEF WalkNext, WalkEnd, NoMemory, locals
  <2>2. (Inserting <=> Inserting')
    BY <2>1 DEF Inserting
  <2>. QED
    BY <1>1, <1>2, <2>1, <2>2
<1>8. ASSUME NEW a \in {1, 2}, Allocate(a) PROVE UNCHANGED Abstract!vars
  <2>1. Stored' = Stored
    BY <1>8, StepAllocate
  <2>2. (Inserting <=> Inserting') /\ line' = line /\ ret' = ret
    BY <1>8 DEF Allocate, Inserting, locals
  <2>. QED
    BY <1>1, <2>1, <2>2
<1>9. CASE Store
  <2>1. CASE elem = Null
    <3>1. line \notin Stored /\ Stored' = Stored \cup {line}
      BY <1>9, <2>1, StoreStores
    <3>2. Inserting /\ ~Inserting' /\ ret' = [found |-> FALSE, node |-> line]
      BY <1>9, <2>1 DEF Store, Inserting
    <3>3. Abstract!ReturnNew
      BY <3>1, <3>2 DEF Abstract!ReturnNew, Abstract!Return
    <3>. QED
      BY <3>3 DEF Abstract!Next
  <2>2. CASE elem # Null
    <3>1. Stored' = Stored
      BY <1>9, <2>2, StoreStores
    <3>2. (Inserting <=> Inserting') /\ line' = line /\ ret' = ret
      BY <1>9, <2>2 DEF Store, Inserting
    <3>. QED
      BY <1>1, <3>1, <3>2
  <2>. QED
    BY <2>1, <2>2
<1>10. CASE SetValue
  <2>1. Stored' = Stored
    BY <1>10, StepSetValue
  <2>2. ~Inserting /\ ~Inserting' /\ ret' = ret
    BY <1>10 DEF SetValue, Return, Inserting
  <2>. QED
    BY <1>1, <2>1, <2>2
<1>11. CASE Lookup
  <2>1. /\ elems' = elems /\ mem' = mem /\ root' = root /\ ret' = ret
        /\ pc = "lookup" /\ pc' \in {"lookup", "idle"}
    BY <1>11 DEF Lookup, LookupFetch, LookupNext, LookupFound, LookupNotFound, Return
  <2>2. ~Inserting /\ ~Inserting'
    BY <2>1 DEF Inserting
  <2>. QED
    BY <1>1, <1>2, <2>1, <2>2
<1>12. CASE CallPrint \/ PrintStep
  <2>1. UNCHANGED kept
    BY <1>12, StepPrint
  <2>2. /\ elems' = elems /\ mem' = mem /\ root' = root /\ ret' = ret
    BY <2>1 DEF kept
  <2>3. ~Inserting /\ ~Inserting'
    BY <1>12 DEF CallPrint, PrintStep, PrintLo, PrintLine, PrintEq, PrintPop, PrintHi, PrintDone,
                 Inserting
  <2>. QED
    BY <1>1, <1>2, <2>2, <2>3
<1>13. CASE UNCHANGED vars
  <2>1. /\ elems' = elems /\ mem' = mem /\ root' = root /\ line' = line /\ ret' = ret
        /\ pc' = pc
    BY <1>13 DEF vars, locals
  <2>2. (Inserting <=> Inserting')
    BY <2>1 DEF Inserting
  <2>. QED
    BY <1>1, <1>2, <2>1, <2>2
<1>. QED
  BY <1>3, <1>4, <1>5, <1>6, <1>7, <1>8, <1>9, <1>10, <1>11, <1>12, <1>13
     DEF Next, Step, Insert, Stopped

(***************************************************************************)
(* The inserts implement KeySet (ImplementsKeySet), for every set of lines,*)
(* separators and hash: a line gets its node with its first insert, and is *)
(* never lost, although the table moves and elements are interned while it *)
(* is on its way.                                                          *)
(***************************************************************************)
THEOREM PathIsKeySet == Spec => ImplementsKeySet
<1>1. PathInv /\ [Next]_vars => [Abstract!Next]_Abstract!vars
  BY KeySetStep
<1>. QED
  BY <1>1, KeySetInit, PathInvariance, PTL DEF Spec, ImplementsKeySet, Abstract!Spec
-----------------------------------------------------------------------------
(***************************************************************************)
(* Printing.  What is below a node is below its link "lo", the node's own, *)
(* or below its link "hi", and no two of these.                            *)
(***************************************************************************)
EndsAt(N, sy, g, n, l) == Below(N, sy, g, At(sy, g, n, l))

OwnEnds(N, sy, g, n) == IF sy[n] = Null THEN {n} ELSE EndsAt(N, sy, g, n, "eq")

NoneOf(A, B) == \A x \in A : x \notin B

LEMMA NodeParts ==
  ASSUME NEW N, NEW sy, NEW lk, NEW g, Tree(N, sy, lk, g), NEW n \in 1..N
  PROVE  /\ Below(N, sy, g, g[n]) = EndsAt(N, sy, g, n, "lo") \cup OwnEnds(N, sy, g, n)
                                    \cup EndsAt(N, sy, g, n, "hi")
         /\ NoneOf(EndsAt(N, sy, g, n, "lo"), OwnEnds(N, sy, g, n))
         /\ NoneOf(EndsAt(N, sy, g, n, "lo"), EndsAt(N, sy, g, n, "hi"))
         /\ NoneOf(OwnEnds(N, sy, g, n), EndsAt(N, sy, g, n, "hi"))
<1>1. TreeTypes(N, sy, lk, g) /\ TreeLinks(N, sy, lk, g)
  BY DEF Tree
<1>2. g[n] \in Region /\ sy[n] \in Elem /\ sy[n] \in g[n].syms
  BY <1>1, WordType DEF TreeLinks
<1>3. ASSUME NEW l \in Kid, NEW x \in EndsAt(N, sy, g, n, l)
      PROVE  /\ WordOf(sy, g, x) \in Words /\ In(Part(g[n], sy[n], l), WordOf(sy, g, x))
             /\ l = SideOf(WordOf(sy, g, x)[Len(g[n].pre) + 1], sy[n])
  <2>1. x \in 1..N /\ In(Part(g[n], sy[n], l), WordOf(sy, g, x))
    BY DEF EndsAt, Below, Ends, At
  <2>2. WordOf(sy, g, x) \in Words
    BY <1>1, <2>1, WordType
  <2>. QED
    BY <1>2, <2>1, <2>2, PartWithin
<1>4. ASSUME NEW l \in Kid, NEW k \in Kid, l # k
      PROVE  NoneOf(EndsAt(N, sy, g, n, l), EndsAt(N, sy, g, n, k))
  BY <1>3, <1>4 DEF NoneOf
<1>5. ASSUME NEW l \in Kid PROVE n \notin EndsAt(N, sy, g, n, l)
  BY <1>2, <1>3, OwnWord DEF WordOf
<1>6. "lo" \in Kid /\ "eq" \in Kid /\ "hi" \in Kid
  BY DEF Kid
<1>7. Below(N, sy, g, g[n]) = EndsAt(N, sy, g, n, "lo") \cup OwnEnds(N, sy, g, n)
                              \cup EndsAt(N, sy, g, n, "hi")
  BY BelowNode DEF EndsAt, OwnEnds
<1>8. NoneOf(EndsAt(N, sy, g, n, "lo"), EndsAt(N, sy, g, n, "hi"))
  BY <1>4, <1>6
<1>9. NoneOf(EndsAt(N, sy, g, n, "lo"), OwnEnds(N, sy, g, n))
  <2>1. sy[n] # Null => NoneOf(EndsAt(N, sy, g, n, "lo"), EndsAt(N, sy, g, n, "eq"))
    BY <1>4, <1>6
  <2>. QED
    BY <1>5, <1>6, <2>1 DEF OwnEnds, NoneOf
<1>10. NoneOf(OwnEnds(N, sy, g, n), EndsAt(N, sy, g, n, "hi"))
  <2>1. sy[n] # Null => NoneOf(EndsAt(N, sy, g, n, "eq"), EndsAt(N, sy, g, n, "hi"))
    BY <1>4, <1>6
  <2>. QED
    BY <1>5, <1>6, <2>1 DEF OwnEnds, NoneOf
<1>. QED
  BY <1>7, <1>8, <1>9, <1>10

(***************************************************************************)
(* The calls in progress.  At each, the path so far is that of its node,   *)
(* with the node's element while the lines that go on with it are printed; *)
(* the ends that the calls below it are to print are those of the link they*)
(* were made for.                                                          *)
(***************************************************************************)
Places == {"lo", "self", "pop", "hi"}
CallsOf(N) == [node : 1..N, at : Places]

Prefix(sy, g, f) == IF f.at = "pop" THEN Append(g[f.node].pre, sy[f.node]) ELSE g[f.node].pre

\* The ends that are left to the call, without those of the call it waits for.
Left(N, sy, g, f) ==
  IF f.at = "lo" THEN Below(N, sy, g, g[f.node])
  ELSE IF f.at = "self" THEN OwnEnds(N, sy, g, f.node) \cup EndsAt(N, sy, g, f.node, "hi")
  ELSE EndsAt(N, sy, g, f.node, "hi")

\* The ends that are printed while the call waits.
Busy(N, sy, g, f) == EndsAt(N, sy, g, f.node, IF f.at = "self" THEN "lo" ELSE "eq")

Waits(f) == f.at \in {"self", "pop"}

AllLeft(N, sy, g, fs) == UNION {Left(N, sy, g, fs[i]) : i \in 1..Len(fs)}

Shape(N, sy, g, fs, s) ==
  /\ fs \in Seq(CallsOf(N))
  /\ \A i \in 1..Len(fs) : fs[i].at = "pop" => sy[fs[i].node] # Null
  /\ \A i, j \in 1..Len(fs) : i < j =>
       Waits(fs[i]) /\ Below(N, sy, g, g[fs[j].node]) \subseteq Busy(N, sy, g, fs[i])
  /\ \A i, j \in 1..Len(fs) : j = i + 1 => g[fs[j].node].pre = Prefix(sy, g, fs[i])
  /\ \A i \in 1..Len(fs) : i = Len(fs) => s = Prefix(sy, g, fs[i])

\* All calls may wait for one at the region r.
Open(N, sy, g, fs, r) ==
  \A i \in 1..Len(fs) : Waits(fs[i]) /\ Below(N, sy, g, r) \subseteq Busy(N, sy, g, fs[i])

\* A call is made for a region, at the node m if there is one.
LEMMA CallMade ==
  ASSUME NEW N, NEW sy, NEW g, NEW fs, NEW s, Shape(N, sy, g, fs, s),
         NEW r, Open(N, sy, g, fs, r), r.pre = s, NEW m,
         m = Null => Below(N, sy, g, r) = {},
         m # Null => m \in 1..N /\ g[m] = r
  PROVE  /\ Shape(N, sy, g, Enter(fs, m), s)
         /\ AllLeft(N, sy, g, Enter(fs, m)) = AllLeft(N, sy, g, fs) \cup Below(N, sy, g, r)
<1>1. CASE m = Null
  BY <1>1 DEF Enter
<1>2. CASE m # Null
  <2> DEFINE f == [node |-> m, at |-> "lo"]
             k == Len(fs)
             t == Append(fs, f)
  <2>1. Enter(fs, m) = t
    BY <1>2 DEF Enter
  <2>2. f \in CallsOf(N) /\ f.node = m /\ f.at = "lo" /\ g[m] = r
    BY <1>2 DEF CallsOf, Places
  <2>3. fs \in Seq(CallsOf(N)) /\ k \in Nat
    BY LenProperties DEF Shape
  <2> HIDE DEF f
  <2>4. /\ t \in Seq(CallsOf(N)) /\ Len(t) = k + 1 /\ t[k + 1] = f
        /\ \A i \in 1..k : t[i] = fs[i]
    BY <2>2, <2>3, AppendProperties
  <2> HIDE DEF t
  <2>5. \A i \in 1..(k + 1) : i = k + 1 \/ (i \in 1..k /\ i # k + 1)
    BY <2>3
  <2>6. \A i, j \in 1..(k + 1) : i < j => i \in 1..k
    BY <2>3
  <2>7. \A i \in 1..(k + 1) : t[i].at = "pop" => sy[t[i].node] # Null
    BY <2>2, <2>4, <2>5 DEF Shape
  <2>8. ASSUME NEW i \in 1..(k + 1), NEW j \in 1..(k + 1), i < j
        PROVE  Waits(t[i]) /\ Below(N, sy, g, g[t[j].node]) \subseteq Busy(N, sy, g, t[i])
    <3>1. i \in 1..k /\ t[i] = fs[i]
      BY <2>4, <2>6, <2>8
    <3>2. CASE j = k + 1
      BY <2>2, <2>4, <3>1, <3>2 DEF Open
    <3>3. CASE j \in 1..k
      BY <2>4, <2>8, <3>1, <3>3 DEF Shape
    <3>. QED
      BY <2>5, <3>2, <3>3
  <2>9. ASSUME NEW i \in 1..(k + 1), NEW j \in 1..(k + 1), j = i + 1
        PROVE  g[t[j].node].pre = Prefix(sy, g, t[i])
    <3>1. i \in 1..k /\ t[i] = fs[i]
      <4>1. i < j
        BY <2>9
      <4>. QED
        BY <2>4, <2>6, <4>1
    <3>2. CASE j = k + 1
      <4>1. i = k
        BY <2>3, <2>9, <3>1, <3>2
      <4>2. s = Prefix(sy, g, fs[i])
        BY <3>1, <4>1 DEF Shape
      <4>. QED
        BY <2>2, <2>4, <3>1, <3>2, <4>2
    <3>3. CASE j \in 1..k
      BY <2>4, <2>9, <3>1, <3>3 DEF Shape
    <3>. QED
      BY <2>5, <3>2, <3>3
  <2>10. \A i \in 1..(k + 1) : i = k + 1 => s = Prefix(sy, g, t[i])
    BY <2>2, <2>4 DEF Prefix
  <2>11. Shape(N, sy, g, t, s)
    BY <2>4, <2>7, <2>8, <2>9, <2>10 DEF Shape
  <2>12. AllLeft(N, sy, g, t) = AllLeft(N, sy, g, fs) \cup Below(N, sy, g, r)
    <3>1. Left(N, sy, g, f) = Below(N, sy, g, r)
      BY <2>2 DEF Left
    <3>2. k + 1 \in 1..(k + 1) /\ \A i \in 1..k : i \in 1..(k + 1)
      BY <2>3
    <3>. QED
      BY <2>4, <2>5, <3>1, <3>2 DEF AllLeft
  <2>. QED
    BY <2>1, <2>11, <2>12
<1>. QED
  BY <1>1, <1>2

\* The top call comes to its next place.
GoneOn(fs, at, f, t) == /\ f = [node |-> fs[Len(fs)].node, at |-> at]
                        /\ t = [fs EXCEPT ![Len(fs)].at = at]

LEMMA CallGoesOn ==
  ASSUME NEW N, NEW sy, NEW g, NEW fs, NEW s, Shape(N, sy, g, fs, s), fs # <<>>,
         NEW at \in Places, at = "pop" => sy[fs[Len(fs)].node] # Null,
         NEW f, NEW t, GoneOn(fs, at, f, t)
  PROVE  /\ Shape(N, sy, g, t, Prefix(sy, g, f))
         /\ AllLeft(N, sy, g, t) = AllLeft(N, sy, g, Cut(fs)) \cup Left(N, sy, g, f)
         /\ Len(t) = Len(fs) /\ t[Len(fs)] = f /\ \A i \in 1..(Len(fs) - 1) : t[i] = fs[i]
<1> DEFINE k == Len(fs)
<1>1. fs \in Seq(CallsOf(N)) /\ k \in Nat \ {0} /\ k \in 1..k
  <2>1. fs \in Seq(CallsOf(N)) /\ k \in Nat \ {0}
    BY EmptySeq, LenProperties DEF Shape
  <2>. QED
    BY <2>1
<1>2. fs[k] \in CallsOf(N)
  BY <1>1, ElementOfSeq
<1>3. f \in CallsOf(N) /\ f = [fs[k] EXCEPT !.at = at] /\ f.node = fs[k].node /\ f.at = at
  BY <1>2 DEF CallsOf, GoneOn
<1>4. t = [fs EXCEPT ![k] = f]
  BY <1>3 DEF GoneOn
<1>5. t \in Seq(CallsOf(N)) /\ Len(t) = k /\ \A i \in 1..k : t[i] = IF i = k THEN f ELSE fs[i]
  <2> HIDE DEF k
  <2>1. /\ [fs EXCEPT ![k] = f] \in Seq(CallsOf(N))
        /\ Len([fs EXCEPT ![k] = f]) = Len(fs)
        /\ \A i \in 1..Len(fs) : [fs EXCEPT ![k] = f][i] = IF i = k THEN f ELSE fs[i]
    BY <1>1, <1>3, ExceptSeq DEF k
  <2>. QED
    BY <1>4, <2>1 DEF k
<1>6. \A i \in 1..(k - 1) : i \in 1..k /\ i # k
  BY <1>1
<1>7. \A i, j \in 1..k : (i < j \/ j = i + 1) => i # k
  BY <1>1
<1>8. \A i \in 1..k : t[i].node = fs[i].node
  BY <1>3, <1>5
<1>9. Shape(N, sy, g, t, Prefix(sy, g, f))
  <2>1. \A i \in 1..k : t[i].at = "pop" => sy[t[i].node] # Null
    BY <1>3, <1>5 DEF Shape
  <2>2. \A i, j \in 1..k : i < j =>
          Waits(t[i]) /\ Below(N, sy, g, g[t[j].node]) \subseteq Busy(N, sy, g, t[i])
    BY <1>5, <1>7, <1>8 DEF Shape
  <2>3. \A i, j \in 1..k : j = i + 1 => g[t[j].node].pre = Prefix(sy, g, t[i])
    BY <1>5, <1>7, <1>8 DEF Shape
  <2>4. \A i \in 1..k : i = k => Prefix(sy, g, f) = Prefix(sy, g, t[i])
    BY <1>5
  <2> HIDE DEF k
  <2>. QED
    BY <1>5, <2>1, <2>2, <2>3, <2>4 DEF Shape
<1>10. /\ Len(Cut(fs)) = k - 1 /\ \A i \in 1..(k - 1) : Cut(fs)[i] = fs[i]
  <2>1. \A j \in 1..(k - 1) : fs[j] \in CallsOf(N)
    BY <1>1, <1>6, ElementOfSeq
  <2>2. 1 \in Int /\ k - 1 \in Int /\ (k - 1) - 1 + 1 = k - 1 /\ 1 <= (k - 1) + 1
    BY <1>1
  <2>3. \A i \in 1..(k - 1) : 1 + i - 1 = i
    OBVIOUS
  <2>. QED
    BY <2>1, <2>2, <2>3, SubSeqProperties DEF Cut
<1>11. \A i \in 1..k : i = k \/ i \in 1..(k - 1)
  BY <1>1
<1>12. AllLeft(N, sy, g, t) = AllLeft(N, sy, g, Cut(fs)) \cup Left(N, sy, g, f)
  BY <1>1, <1>5, <1>6, <1>10, <1>11 DEF AllLeft
<1>13. Len(t) = k /\ t[k] = f /\ \A i \in 1..(k - 1) : t[i] = fs[i]
  BY <1>1, <1>5, <1>6
<1>. QED
  BY <1>9, <1>12, <1>13

\* The top call returns.
LEMMA CallReturns ==
  ASSUME NEW N, NEW sy, NEW g, NEW fs, NEW s, Shape(N, sy, g, fs, s), fs # <<>>,
         NEW f, f = fs[Len(fs)]
  PROVE  /\ f \in CallsOf(N) /\ s = Prefix(sy, g, f) /\ (f.at = "pop" => sy[f.node] # Null)
         /\ AllLeft(N, sy, g, fs) = AllLeft(N, sy, g, Cut(fs)) \cup Left(N, sy, g, f)
         /\ Shape(N, sy, g, Cut(fs), g[f.node].pre)
         /\ Open(N, sy, g, Cut(fs), g[f.node])
<1> DEFINE k == Len(fs)
           t == Cut(fs)
<1>1. fs \in Seq(CallsOf(N)) /\ k \in Nat \ {0} /\ k \in 1..k
  <2>1. fs \in Seq(CallsOf(N)) /\ k \in Nat \ {0}
    BY EmptySeq, LenProperties DEF Shape
  <2>. QED
    BY <2>1
<1>2. f \in CallsOf(N)
  BY <1>1, ElementOfSeq
<1>3. s = Prefix(sy, g, f) /\ (f.at = "pop" => sy[f.node] # Null)
  BY <1>1 DEF Shape
<1>4. \A i \in 1..(k - 1) : i \in 1..k /\ i < k
  BY <1>1
<1>5. t \in Seq(CallsOf(N)) /\ Len(t) = k - 1 /\ \A i \in 1..(k - 1) : t[i] = fs[i]
  <2>1. \A j \in 1..(k - 1) : fs[j] \in CallsOf(N)
    BY <1>1, <1>4, ElementOfSeq
  <2>2. 1 \in Int /\ k - 1 \in Int
    BY <1>1
  <2> HIDE DEF k
  <2>3. /\ SubSeq(fs, 1, k - 1) \in Seq(CallsOf(N))
        /\ Len(SubSeq(fs, 1, k - 1)) = IF 1 <= k - 1 THEN (k - 1) - 1 + 1 ELSE 0
        /\ \A i \in 1..((k - 1) - 1 + 1) : SubSeq(fs, 1, k - 1)[i] = fs[1 + i - 1]
    BY <2>1, <2>2, SubSeqProperties
  <2>4. t = SubSeq(fs, 1, k - 1)
    BY DEF Cut, k
  <2> HIDE DEF t
  <2>5. Len(t) = k - 1
    BY <1>1, <2>3, <2>4
  <2>6. (k - 1) - 1 + 1 = k - 1
    BY <1>1
  <2>7. \A i \in 1..(k - 1) : t[i] = fs[i]
    BY <1>1, <2>3, <2>4, <2>6
  <2>. QED
    BY <2>3, <2>4, <2>5, <2>7
<1>6. \A i \in 1..k : i = k \/ i \in 1..(k - 1)
  BY <1>1
<1>7. AllLeft(N, sy, g, fs) = AllLeft(N, sy, g, t) \cup Left(N, sy, g, f)
  BY <1>1, <1>4, <1>5, <1>6 DEF AllLeft
<1>8. \A i \in 1..(k - 1) : i = k - 1 => g[f.node].pre = Prefix(sy, g, t[i])
  <2> SUFFICES ASSUME NEW i \in 1..(k - 1), i = k - 1 PROVE g[f.node].pre = Prefix(sy, g, t[i])
    OBVIOUS
  <2>1. k = i + 1
    BY <1>1
  <2>. QED
    BY <1>1, <1>4, <1>5, <2>1 DEF Shape
<1>9. Shape(N, sy, g, t, g[f.node].pre)
  <2>1. \A i \in 1..(k - 1) : t[i].at = "pop" => sy[t[i].node] # Null
    BY <1>4, <1>5 DEF Shape
  <2>2. \A i, j \in 1..(k - 1) : i < j =>
          Waits(t[i]) /\ Below(N, sy, g, g[t[j].node]) \subseteq Busy(N, sy, g, t[i])
    BY <1>4, <1>5 DEF Shape
  <2>3. \A i, j \in 1..(k - 1) : j = i + 1 => g[t[j].node].pre = Prefix(sy, g, t[i])
    BY <1>4, <1>5 DEF Shape
  <2> HIDE DEF t, k
  <2>. QED
    BY <1>5, <1>8, <2>1, <2>2, <2>3 DEF Shape
<1>10. Open(N, sy, g, t, g[f.node])
  BY <1>1, <1>4, <1>5 DEF Open, Shape
<1> HIDE DEF k
<1>. QED
  BY <1>2, <1>3, <1>7, <1>9, <1>10, Zenon
\* What the top call is for, none of the others has left.
LEMMA OthersApart ==
  ASSUME NEW N, NEW sy, NEW lk, NEW g, Tree(N, sy, lk, g),
         NEW fs, NEW s, Shape(N, sy, g, fs, s), NEW r, Open(N, sy, g, fs, r)
  PROVE  NoneOf(Below(N, sy, g, r), AllLeft(N, sy, g, fs))
<1> SUFFICES ASSUME NEW i \in 1..Len(fs), NEW a \in Below(N, sy, g, r)
             PROVE  a \notin Left(N, sy, g, fs[i])
  BY DEF NoneOf, AllLeft
<1> DEFINE n == fs[i].node
<1>1. fs[i] \in CallsOf(N)
  BY ElementOfSeq DEF Shape
<1>2. n \in 1..N
  BY <1>1 DEF CallsOf
<1>3. Waits(fs[i]) /\ a \in Busy(N, sy, g, fs[i])
  BY DEF Open
<1>4. CASE fs[i].at = "self"
  <2>1. a \in EndsAt(N, sy, g, n, "lo")
    BY <1>3, <1>4 DEF Busy
  <2>2. Left(N, sy, g, fs[i]) = OwnEnds(N, sy, g, n) \cup EndsAt(N, sy, g, n, "hi")
    BY <1>4 DEF Left
  <2>. QED
    BY <1>2, <2>1, <2>2, NodeParts DEF NoneOf
<1>5. CASE fs[i].at = "pop"
  <2>1. a \in EndsAt(N, sy, g, n, "eq")
    BY <1>3, <1>5 DEF Busy
  <2>2. sy[n] # Null
    BY <1>5 DEF Shape
  <2>3. a \in OwnEnds(N, sy, g, n)
    BY <2>1, <2>2 DEF OwnEnds
  <2>4. Left(N, sy, g, fs[i]) = EndsAt(N, sy, g, n, "hi")
    BY <1>5 DEF Left
  <2>. QED
    BY <1>2, <2>3, <2>4, NodeParts DEF NoneOf
<1>. QED
  BY <1>3, <1>4, <1>5 DEF Waits
-----------------------------------------------------------------------------
\* The links of a node are there if something is below them.
LEMMA LinkLeads ==
  ASSUME NEW N, NEW sy, NEW lk, NEW g, Tree(N, sy, lk, g), NEW n \in 1..N, NEW l \in Kid,
         NEW m, m = lk[n][l]
  PROVE  /\ m = Null => EndsAt(N, sy, g, n, l) = {}
         /\ m # Null => m \in 1..N /\ g[m] = At(sy, g, n, l)
<1>1. TreeLinks(N, sy, lk, g)
  BY DEF Tree
<1>2. m = Null => EndsAt(N, sy, g, n, l) = {}
  BY FreeIsEmpty DEF EndsAt
<1>. QED
  BY <1>1, <1>2 DEF TreeLinks

\* A call of which the region is part of the top call's.
LEMMA PartOpen ==
  ASSUME NEW N, NEW sy, NEW lk, NEW g, Tree(N, sy, lk, g), NEW n \in 1..N, NEW l \in Kid,
         sy[n] = Null => l # "eq"
  PROVE  /\ EndsAt(N, sy, g, n, l) \subseteq Below(N, sy, g, g[n])
         /\ At(sy, g, n, l).pre = IF l = "eq" THEN Append(g[n].pre, sy[n]) ELSE g[n].pre
<1>1. EndsAt(N, sy, g, n, l) \subseteq Below(N, sy, g, g[n])
  <2>1. Below(N, sy, g, g[n]) = EndsAt(N, sy, g, n, "lo") \cup OwnEnds(N, sy, g, n)
                                \cup EndsAt(N, sy, g, n, "hi")
    BY NodeParts
  <2>2. sy[n] # Null => OwnEnds(N, sy, g, n) = EndsAt(N, sy, g, n, "eq")
    BY DEF OwnEnds
  <2>3. l = "lo" \/ l = "hi" \/ (l = "eq" /\ sy[n] # Null)
    BY DEF Kid
  <2>. QED
    BY <2>1, <2>2, <2>3
<1>2. At(sy, g, n, l).pre = IF l = "eq" THEN Append(g[n].pre, sy[n]) ELSE g[n].pre
  BY DEF At, Part, Kid
<1>. QED
  BY <1>1, <1>2

LEMMA CallWaits ==
  ASSUME NEW N, NEW sy, NEW g, NEW fs, NEW s, Shape(N, sy, g, fs, s), fs # <<>>,
         NEW f, Waits(f), NEW t, Len(t) = Len(fs), t[Len(fs)] = f,
         \A i \in 1..(Len(fs) - 1) : t[i] = fs[i],
         NEW r, Below(N, sy, g, r) \subseteq Busy(N, sy, g, f),
         Below(N, sy, g, r) \subseteq Below(N, sy, g, g[fs[Len(fs)].node])
  PROVE  Open(N, sy, g, t, r)
<1> DEFINE k == Len(fs)
<1>1. k \in Nat \ {0}
  BY EmptySeq, LenProperties DEF Shape
<1>2. \A i \in 1..k : i = k \/ (i \in 1..(k - 1) /\ i < k)
  BY <1>1
<1>3. k \in 1..k
  BY <1>1
<1>4. \A i \in 1..k : i < k =>
        Waits(fs[i]) /\ Below(N, sy, g, g[fs[k].node]) \subseteq Busy(N, sy, g, fs[i])
  BY <1>3 DEF Shape
<1> HIDE DEF k
<1>5. ASSUME NEW i \in 1..k PROVE Waits(t[i]) /\ Below(N, sy, g, r) \subseteq Busy(N, sy, g, t[i])
  <2>1. CASE i = k
    BY <2>1 DEF k
  <2>2. CASE i # k
    <3>1. i \in 1..(k - 1) /\ i < k
      BY <1>2, <2>2
    <3>2. t[i] = fs[i]
      BY <3>1 DEF k
    <3>3. Below(N, sy, g, g[fs[k].node]) \subseteq Busy(N, sy, g, fs[i]) /\ Waits(fs[i])
      BY <1>4, <3>1
    <3>. QED
      BY <3>2, <3>3 DEF k
  <2>. QED
    BY <2>1, <2>2
<1>. QED
  BY <1>5 DEF Open, k

LEMMA TopGoesOn ==
  ASSUME NEW N, NEW sy, NEW g, Shape(N, sy, g, frames, path), frames # <<>>,
         NEW at \in Places, at = "pop" => sy[Top.node] # Null,
         NEW f, f = [node |-> Top.node, at |-> at],
         NEW t, t = GoOn(at)
  PROVE  /\ Shape(N, sy, g, t, Prefix(sy, g, f))
         /\ AllLeft(N, sy, g, t) = AllLeft(N, sy, g, Cut(frames)) \cup Left(N, sy, g, f)
         /\ \A r : /\ Waits(f) /\ Below(N, sy, g, r) \subseteq Busy(N, sy, g, f)
                  /\ Below(N, sy, g, r) \subseteq Below(N, sy, g, g[Top.node])
                  => Open(N, sy, g, t, r)
<1>1. GoneOn(frames, at, f, t)
  BY DEF Top, GoOn, GoneOn
<1>3. at = "pop" => sy[frames[Len(frames)].node] # Null
  BY DEF Top
<1>4. /\ Shape(N, sy, g, t, Prefix(sy, g, f))
      /\ AllLeft(N, sy, g, t) = AllLeft(N, sy, g, Cut(frames)) \cup Left(N, sy, g, f)
      /\ Len(t) = Len(frames) /\ t[Len(frames)] = f
      /\ \A i \in 1..(Len(frames) - 1) : t[i] = frames[i]
  BY <1>1, <1>3, CallGoesOn
<1>5. ASSUME NEW r, Waits(f), Below(N, sy, g, r) \subseteq Busy(N, sy, g, f),
             Below(N, sy, g, r) \subseteq Below(N, sy, g, g[Top.node])
      PROVE  Open(N, sy, g, t, r)
  <2>1. Below(N, sy, g, r) \subseteq Below(N, sy, g, g[frames[Len(frames)].node])
    BY <1>5 DEF Top
  <2>. QED
    BY <1>4, <1>5, <2>1, CallWaits, Zenon
<1>. QED
  BY <1>4, <1>5, Zenon

LEMMA CutAppend ==
  ASSUME NEW S, NEW s \in Seq(S), NEW x \in S
  PROVE  Cut(Append(s, x)) = s
<1> DEFINE k == Len(s)
           t == Append(s, x)
<1>1. k \in Nat /\ t \in Seq(S) /\ Len(t) = k + 1 /\ \A i \in 1..k : t[i] = s[i]
  BY AppendProperties, LenProperties
<1> HIDE DEF t, k
<1>2. Cut(t) = SubSeq(t, 1, k)
  <2>1. (k + 1) - 1 = k
    BY <1>1
  <2>. QED
    BY <1>1, <2>1 DEF Cut
<1>3. \A i \in 1..k : t[i] \in S
  BY <1>1, ElementOfSeq DEF k
<1>4. 1 \in Int /\ k \in Int /\ k - 1 + 1 = k
  BY <1>1
<1>5. /\ SubSeq(t, 1, k) \in Seq(S) /\ Len(SubSeq(t, 1, k)) = IF 1 <= k THEN k - 1 + 1 ELSE 0
      /\ \A i \in 1..(k - 1 + 1) : SubSeq(t, 1, k)[i] = t[1 + i - 1]
  BY <1>3, <1>4, SubSeqProperties
<1>6. Len(SubSeq(t, 1, k)) = k /\ \A i \in 1..k : SubSeq(t, 1, k)[i] = s[i]
  BY <1>1, <1>4, <1>5
<1>7. SubSeq(t, 1, k) = s
  BY <1>5, <1>6, SeqEqual DEF k
<1>. QED
  BY <1>2, <1>7 DEF t
-----------------------------------------------------------------------------
\* A path that cuts the whole of a text spells it.
LEMMA SpellsText ==
  ASSUME elems \in Seq(Seq(Chars)), NEW es \in Seq(1..Len(elems)), es \in Words,
         NEW t, Cuts(elems, es, t, <<>>)
  PROVE  Spell(es) = t
<1> DEFINE n == Len(es)
<1>1. PICK f : SpelledBy(elems, es, n, f) /\ Spell(es) = f[n]
  BY SpellIs
<1>2. PICK h : CutBy(elems, es, t, h) /\ h[n] = <<>>
  BY DEF Cuts
<1>3. n \in Nat /\ n \in 0..n
  BY LenProperties
<1>4. /\ f \in [0..n -> Seq(Chars)] /\ f[0] = <<>>
      /\ h \in [0..n -> Seq(Chars)] /\ h[0] = t
  BY <1>1, <1>2 DEF SpelledBy, CutBy
<1> DEFINE T == {i \in 0..n : f[i] \o h[i] # t}
<1> HIDE DEF n
<1>5. 0 \in 0..n
  BY <1>3
<1>6. t \in Seq(Chars)
  BY <1>4, <1>5
<1>7. T = {}
  <2> SUFFICES ASSUME T # {} PROVE FALSE
    OBVIOUS
  <2>1. PICK i \in T : \A k \in T : i <= k
    <3>1. T \in SUBSET Nat
      <4>1. 0..n \in SUBSET Nat
        BY <1>3
      <4>. QED
        BY <4>1, Zenon
    <3> HIDE DEF T
    <3>. QED
      BY <3>1, LeastElement
  <2>2. i \in 0..n /\ f[i] \o h[i] # t
    OBVIOUS
  <2>3. i # 0
    <3>1. <<>> \o t = t
      BY <1>6, ConcatEmptySeq
    <3>. QED
      BY <1>4, <2>2, <3>1
  <2>4. i \in 1..n /\ i - 1 \in 0..n /\ ~(i <= i - 1)
    BY <1>3, <2>2, <2>3
  <2>5. f[i - 1] \o h[i - 1] = t
    BY <2>1, <2>4
  <2> HIDE DEF T
  <2>6. f[i] = f[i - 1] \o elems[es[i]]
    BY <1>1, <2>4 DEF SpelledBy
  <2>7. /\ h[i - 1] # <<>> /\ elems[es[i]] = First(h[i - 1])
        /\ h[i] = AfterFirst(h[i - 1])
    BY <1>2, <2>4 DEF CutBy, n
  <2>8. f[i - 1] \in Seq(Chars) /\ h[i - 1] \in Seq(Chars)
    BY <1>4, <2>4
  <2> DEFINE a == First(h[i - 1])
             b == AfterFirst(h[i - 1])
  <2>9. a \in Seq(Chars) /\ b \in Seq(Chars) /\ h[i - 1] = a \o b
    BY <2>7, <2>8, FirstAndRest
  <2> HIDE DEF a, b
  <2>10. (f[i - 1] \o a) \o b = f[i - 1] \o (a \o b)
    <3>1. \A x, y, z \in Seq(Chars) : (x \o y) \o z = x \o (y \o z)
      BY ConcatAssociative
    <3>. QED
      BY <2>8, <2>9, <3>1, Zenon
  <2>. QED
    BY <2>2, <2>5, <2>6, <2>7, <2>9, <2>10 DEF a, b
<1>8. f[n] \o <<>> = t
  BY <1>2, <1>3, <1>7 DEF n
<1>9. f[n] \in Seq(Chars)
  BY <1>3, <1>4
<1>10. f[n] \o <<>> = f[n]
  BY <1>9, ConcatEmptySeq
<1>. QED
  BY <1>1, <1>8, <1>10 DEF n

\* Each line has one node at which it ends.
LEMMA LinesDiffer ==
  ASSUME Distinct(elems), NEW N, NEW g, NEW s, MemTree(N, g, s),
         NEW a \in Ends(N, Syms(N)), NEW b \in Ends(N, Syms(N)), s[a] = s[b]
  PROVE  a = b
<1> DEFINE sy == Syms(N)
<1>1. /\ TreeTypes(N, sy, Links(N), g) /\ WordsDiffer(N, sy, g)
      /\ HasLines(N, sy, g, elems, s)
  BY DEF MemTree, Tree
<1>2. a \in 1..N /\ b \in 1..N /\ sy[a] = Null /\ sy[b] = Null
  BY DEF Ends
<1>3. Cuts(elems, g[a].pre, s[a], <<>>) /\ Cuts(elems, g[b].pre, s[a], <<>>)
  BY <1>1 DEF HasLines
<1>4. g[a].pre \in Words /\ g[b].pre \in Words
  BY <1>1, <1>2, WordAndPath
<1>5. g[a].pre = g[b].pre
  BY <1>3, <1>4, CutsSame
<1>. QED
  BY <1>1, <1>2, <1>5 DEF WordsDiffer, WordOf

-----------------------------------------------------------------------------
(***************************************************************************)
(* The print: what was printed are the lines of the ends that no call has  *)
(* left, each once.                                                        *)
(***************************************************************************)
Printed(N, g) == Ends(N, Syms(N)) \ AllLeft(N, Syms(N), g, frames)

Printing(N, g, s) ==
  /\ N = Len(mem) /\ MemTree(N, g, s) /\ Rooted(N)
  /\ Shape(N, Syms(N), g, frames, path)
  /\ out \in Seq(Seq(Chars))
  /\ {out[i] : i \in DOMAIN out} = {s[m] : m \in Printed(N, g)}
  /\ Distinct(out)

PrintInv ==
  /\ pc \notin {"print", "printed", "stack_empty"} => path = <<>> /\ out = <<>>
  /\ pc = "print" => \E N, g, s : Printing(N, g, s)
  /\ PrintsAll

\* What a step of the printer leaves as it was.
LEMMA KeptTree ==
  ASSUME UNCHANGED kept, NEW N, NEW g, NEW s, N = Len(mem), MemTree(N, g, s), Rooted(N)
  PROVE  /\ N = Len(mem)' /\ MemTree(N, g, s)' /\ Rooted(N)'
         /\ Syms(N)' = Syms(N) /\ elems' = elems /\ mem' = mem
<1>1. elems' = elems /\ mem' = mem /\ root' = root
  BY DEF kept
<1>2. Grown(elems, elems')
  BY <1>1 DEF Grown
<1>. QED
  BY <1>1, <1>2, SameTree DEF Rooted

\* A step that prints no line.
LEMMA PrintsNone ==
  ASSUME UNCHANGED kept, out' = out, NEW N, NEW g, NEW s, Printing(N, g, s),
         Shape(N, Syms(N), g, frames', path'),
         AllLeft(N, Syms(N), g, frames') = AllLeft(N, Syms(N), g, frames)
  PROVE  Printing(N, g, s)'
<1>1. /\ N = Len(mem)' /\ MemTree(N, g, s)' /\ Rooted(N)' /\ Syms(N)' = Syms(N)
  BY KeptTree DEF Printing
<1>2. Printed(N, g)' = Printed(N, g)
  BY <1>1 DEF Printed
<1>. QED
  BY <1>1, <1>2 DEF Printing, Distinct

\* What is known of the call that runs, at node n.
AtTop(N, g, n) ==
  /\ Shape(N, Syms(N), g, frames, path) /\ Tree(N, Syms(N), Links(N), g)
  /\ Top \in CallsOf(N) /\ n \in 1..N /\ path = Prefix(Syms(N), g, Top)
  /\ Top.at = "pop" => Syms(N)[n] # Null
  /\ AllLeft(N, Syms(N), g, frames) =
       AllLeft(N, Syms(N), g, Cut(frames)) \cup Left(N, Syms(N), g, Top)
  /\ Shape(N, Syms(N), g, Cut(frames), g[n].pre)
  /\ Open(N, Syms(N), g, Cut(frames), g[n])
  /\ g[n].pre \in Words
  /\ Syms(N)[n] = mem[n].elem /\ Syms(N)[n] \in Elem
  /\ Links(N)[n]["lo"] = mem[n].lo /\ Links(N)[n]["hi"] = mem[n].hi
  /\ Syms(N)[n] # Null => Links(N)[n]["eq"] = mem[n].eq

\* What the call on top has to do with the tree.
LEMMA TopCall ==
  ASSUME NEW N, NEW g, NEW s, Printing(N, g, s), frames # <<>>, NEW n, n = Top.node
  PROVE  AtTop(N, g, n)
<1> DEFINE sy == Syms(N)
<1>1. Shape(N, sy, g, frames, path) /\ Tree(N, sy, Links(N), g)
  BY DEF Printing, MemTree
<1>2. /\ Top \in CallsOf(N) /\ path = Prefix(sy, g, Top)
      /\ Top.at = "pop" => sy[n] # Null
      /\ AllLeft(N, sy, g, frames) = AllLeft(N, sy, g, Cut(frames)) \cup Left(N, sy, g, Top)
      /\ Shape(N, sy, g, Cut(frames), g[n].pre)
      /\ Open(N, sy, g, Cut(frames), g[n])
  <2> HIDE DEF sy
  <2>. QED
    BY <1>1, CallReturns DEF Top
<1>3. n \in 1..N
  BY <1>2 DEF CallsOf
<1>4. g[n].pre \in Words /\ sy[n] \in Elem
  <2>1. TreeTypes(N, sy, Links(N), g)
    BY <1>1 DEF Tree
  <2> HIDE DEF sy
  <2>. QED
    BY <1>3, <2>1, WordAndPath, WordType
<1>5. sy[n] = mem[n].elem
  BY <1>3 DEF Syms
<1>6. /\ Links(N)[n]["lo"] = mem[n].lo /\ Links(N)[n]["hi"] = mem[n].hi
      /\ mem[n].elem # Null => Links(N)[n]["eq"] = mem[n].eq
  BY <1>3 DEF Links, LinkTo, Kid
<1>. QED
  BY <1>1, <1>2, <1>3, <1>4, <1>5, <1>6 DEF AtTop

LEMMA PrintLoStep ==
  ASSUME NEW N, NEW g, NEW s, Printing(N, g, s), PrintLo
  PROVE  Printing(N, g, s)'
<1> DEFINE sy == Syms(N)
           n == Top.node
           f == [node |-> n, at |-> "self"]
           t == GoOn("self")
           m == mem[n].lo
           r == At(sy, g, n, "lo")
<1>1. frames # <<>> /\ Top.at = "lo" /\ UNCHANGED kept /\ out' = out /\ path' = path
  BY DEF PrintLo
<1>2. /\ Shape(N, sy, g, frames, path) /\ Tree(N, sy, Links(N), g)
      /\ n \in 1..N /\ path = Prefix(sy, g, Top)
      /\ AllLeft(N, sy, g, frames) = AllLeft(N, sy, g, Cut(frames)) \cup Left(N, sy, g, Top)
      /\ m = Links(N)[n]["lo"]
  <2>1. n = Top.node
    OBVIOUS
  <2> HIDE DEF n, m
  <2>2. AtTop(N, g, n)
    BY <1>1, <2>1, TopCall, Zenon
  <2>. QED
    BY <1>1, <2>1, <2>2 DEF AtTop, m
<1> HIDE DEF sy
<1>3. /\ Shape(N, sy, g, t, Prefix(sy, g, f))
      /\ AllLeft(N, sy, g, t) = AllLeft(N, sy, g, Cut(frames)) \cup Left(N, sy, g, f)
      /\ \A x : /\ Waits(f) /\ Below(N, sy, g, x) \subseteq Busy(N, sy, g, f)
               /\ Below(N, sy, g, x) \subseteq Below(N, sy, g, g[n])
               => Open(N, sy, g, t, x)
  <2>1. "self" \in Places
    BY DEF Places
  <2> HIDE DEF f, t
  <2>2. f = [node |-> Top.node, at |-> "self"] /\ t = GoOn("self")
    BY DEF f, t
  <2>. QED
    BY <1>1, <1>2, <2>1, <2>2, TopGoesOn
<1>4. Prefix(sy, g, f) = g[n].pre /\ path = g[n].pre /\ Left(N, sy, g, Top) = Below(N, sy, g, g[n])
  BY <1>1, <1>2 DEF Prefix, Left
<1>5. /\ EndsAt(N, sy, g, n, "lo") \subseteq Below(N, sy, g, g[n])
      /\ r.pre = path /\ Below(N, sy, g, r) = EndsAt(N, sy, g, n, "lo")
  BY <1>2, <1>4, PartOpen DEF Kid, EndsAt
<1>6. Open(N, sy, g, t, r)
  <2>1. Waits(f) /\ Busy(N, sy, g, f) = EndsAt(N, sy, g, n, "lo")
    BY DEF Waits, Busy
  <2>. QED
    BY <1>3, <1>5, <2>1
<1>7. /\ m = Null => Below(N, sy, g, r) = {}
      /\ m # Null => m \in 1..N /\ g[m] = r
  BY <1>2, <1>5, LinkLeads DEF Kid
<1>8. Shape(N, sy, g, t, path)
  BY <1>3, <1>4
<1> HIDE DEF t, r, m, f, n
<1>9. /\ Shape(N, sy, g, Enter(t, m), path)
      /\ AllLeft(N, sy, g, Enter(t, m)) = AllLeft(N, sy, g, t) \cup Below(N, sy, g, r)
  BY <1>5, <1>6, <1>7, <1>8, CallMade
<1>10. frames' = Enter(t, m)
  BY DEF PrintLo, t, m, n
<1>11. Left(N, sy, g, f) = OwnEnds(N, sy, g, n) \cup EndsAt(N, sy, g, n, "hi")
  BY DEF Left, f
<1>12. AllLeft(N, sy, g, frames') = AllLeft(N, sy, g, frames)
  <2>1. Below(N, sy, g, g[n]) = EndsAt(N, sy, g, n, "lo") \cup OwnEnds(N, sy, g, n)
                                \cup EndsAt(N, sy, g, n, "hi")
    BY <1>2, NodeParts
  <2>. QED
    BY <1>2, <1>3, <1>4, <1>5, <1>9, <1>10, <1>11, <2>1
<1>. QED
  BY <1>1, <1>9, <1>10, <1>12, PrintsNone DEF sy

\* A line is printed: that of the node itself, and no other call has it left.
LEMMA PrintLineStep ==
  ASSUME PathInv, NEW N, NEW g, NEW s, Printing(N, g, s), PrintLine, path # <<>>
  PROVE  Printing(N, g, s)'
<1> DEFINE sy == Syms(N)
           n == Top.node
           f == [node |-> n, at |-> "hi"]
           t == GoOn("hi")
           rs == AllLeft(N, sy, g, Cut(frames))
           hi == EndsAt(N, sy, g, n, "hi")
           own == OwnEnds(N, sy, g, n)
           R == AllLeft(N, sy, g, frames)
           R2 == AllLeft(N, sy, g, t)
           x == s[n]
<1>1. /\ frames # <<>> /\ Top.at = "self" /\ UNCHANGED kept /\ path' = path
      /\ out' = Append(out, Spell(path)) /\ frames' = t /\ mem[n].elem = Null
  BY DEF PrintLine
<1>2. /\ Shape(N, sy, g, frames, path) /\ Tree(N, sy, Links(N), g)
      /\ n \in 1..N /\ path = Prefix(sy, g, Top)
      /\ R = rs \cup Left(N, sy, g, Top)
      /\ Shape(N, sy, g, Cut(frames), g[n].pre)
      /\ Open(N, sy, g, Cut(frames), g[n])
      /\ g[n].pre \in Words /\ sy[n] = mem[n].elem
  <2>1. n = Top.node
    OBVIOUS
  <2> HIDE DEF n, rs, R
  <2>2. AtTop(N, g, n)
    BY <1>1, <2>1, TopCall, Zenon
  <2>. QED
    BY <1>1, <2>1, <2>2 DEF AtTop, rs, R
<1>3. sy[n] = Null /\ n \in Ends(N, sy) /\ own = {n}
  BY <1>1, <1>2 DEF OwnEnds, Ends
<1>4. /\ out \in Seq(Seq(Chars)) /\ {out[i] : i \in DOMAIN out} = {s[m] : m \in Printed(N, g)}
      /\ Distinct(out) /\ MemTree(N, g, s) /\ N = Len(mem) /\ Rooted(N)
  BY DEF Printing
<1>5. path = g[n].pre /\ Left(N, sy, g, Top) = own \cup hi
  BY <1>1, <1>2 DEF Prefix, Left
<1>6. Spell(path) = x /\ x \in Seq(Chars)
  <2>1. Cuts(elems, path, x, <<>>)
    BY <1>3, <1>4, <1>5 DEF MemTree, HasLines
  <2>2. elems \in Seq(Seq(Chars)) /\ path \in Seq(1..Len(elems)) /\ path \in Words
    BY <1>2, <1>5 DEF PathInv, TypeOK
  <2> HIDE DEF x
  <2>. QED
    BY <2>1, <2>2, SpellsText, CutsType
<1> HIDE DEF sy
<1>7. /\ Shape(N, sy, g, t, Prefix(sy, g, f)) /\ R2 = rs \cup Left(N, sy, g, f)
  <2>1. "hi" \in Places
    BY DEF Places
  <2> HIDE DEF f, t
  <2>2. f = [node |-> Top.node, at |-> "hi"] /\ t = GoOn("hi")
    BY DEF f, t
  <2>. QED
    BY <1>1, <1>2, <2>1, <2>2, TopGoesOn
<1>8. Prefix(sy, g, f) = path /\ Left(N, sy, g, f) = hi
  BY <1>5 DEF Prefix, Left
<1>9. R = rs \cup hi \cup {n} /\ R2 = rs \cup hi
  BY <1>2, <1>3, <1>5, <1>7, <1>8
<1>10. n \notin R2
  <2>1. NoneOf(Below(N, sy, g, g[n]), rs) /\ n \in Below(N, sy, g, g[n]) /\ n \notin hi
    <3>1. NoneOf(Below(N, sy, g, g[n]), rs)
      BY <1>2, OthersApart
    <3>2. n \in own
      BY <1>3
    <3>. QED
      BY <1>2, <3>1, <3>2, NodeParts DEF NoneOf
  <2>. QED
    BY <1>9, <2>1 DEF NoneOf
<1>11. /\ N = Len(mem)' /\ MemTree(N, g, s)' /\ Rooted(N)' /\ Syms(N)' = sy
  BY <1>1, <1>4, KeptTree DEF sy
<1>12. Printed(N, g) = Ends(N, sy) \ R /\ Printed(N, g)' = Ends(N, sy) \ R2
  BY <1>1, <1>11 DEF Printed, sy
<1>13. Printed(N, g)' = Printed(N, g) \cup {n} /\ n \notin Printed(N, g)
  BY <1>3, <1>9, <1>10, <1>12
<1>14. \A i \in DOMAIN out : out[i] # x
  <2> SUFFICES ASSUME NEW i \in DOMAIN out, out[i] = x PROVE FALSE
    OBVIOUS
  <2>1. PICK m \in Printed(N, g) : out[i] = s[m]
    BY <1>4
  <2>2. m \in Ends(N, Syms(N)) /\ n \in Ends(N, Syms(N))
    BY <1>3, <2>1 DEF Printed, sy
  <2>3. m = n
    BY <1>4, <2>1, <2>2, LinesDiffer DEF PathInv
  <2>. QED
    BY <1>13, <2>3
<1> HIDE DEF R, R2, rs, hi, own, x, t, f, n
<1>15. /\ out' \in Seq(Seq(Chars)) /\ Len(out) \in Nat /\ Len(out') = Len(out) + 1
       /\ out'[Len(out) + 1] = x /\ \A i \in 1..Len(out) : out'[i] = out[i]
  BY <1>1, <1>4, <1>6, AppendProperties, LenProperties
<1>16. DOMAIN out = 1..Len(out) /\ DOMAIN out' = 1..(Len(out) + 1)
  BY <1>4, <1>15, LenProperties
<1>17. \A i \in 1..(Len(out) + 1) : i = Len(out) + 1 \/ i \in 1..Len(out)
  BY <1>15
<1>18. Len(out) + 1 \in 1..(Len(out) + 1) /\ \A i \in 1..Len(out) : i \in 1..(Len(out) + 1)
  BY <1>15
<1>19. {out'[i] : i \in DOMAIN out'} = {s[m] : m \in Printed(N, g)'}
  <2>1. {out'[i] : i \in DOMAIN out'} = {out[i] : i \in DOMAIN out} \cup {x}
    BY <1>15, <1>16, <1>17, <1>18
  <2>2. {s[m] : m \in Printed(N, g) \cup {n}} = {s[m] : m \in Printed(N, g)} \cup {s[n]}
    OBVIOUS
  <2>. QED
    BY <1>4, <1>13, <2>1, <2>2 DEF x
<1>20. Distinct(out)'
  <2> SUFFICES ASSUME NEW i \in DOMAIN out', NEW j \in DOMAIN out', out'[i] = out'[j]
               PROVE  i = j
    BY DEF Distinct
  <2>1. CASE i \in 1..Len(out) /\ j \in 1..Len(out)
    BY <1>4, <1>15, <1>16, <2>1 DEF Distinct
  <2>2. CASE i = Len(out) + 1 /\ j \in 1..Len(out)
    BY <1>14, <1>15, <1>16, <2>2
  <2>3. CASE i \in 1..Len(out) /\ j = Len(out) + 1
    BY <1>14, <1>15, <1>16, <2>3
  <2>. QED
    BY <1>16, <1>17, <2>1, <2>2, <2>3
<1>21. Shape(N, sy, g, frames', path')
  BY <1>1, <1>7, <1>8
<1>. QED
  BY <1>11, <1>15, <1>19, <1>20, <1>21 DEF Printing

\* The lines with the node's element are printed.
LEMMA PrintEqStep ==
  ASSUME NEW N, NEW g, NEW s, Printing(N, g, s), PrintEq
  PROVE  Printing(N, g, s)'
<1> DEFINE sy == Syms(N)
           n == Top.node
           m == mem[n].eq
           at == IF m = Null THEN "hi" ELSE "pop"
           f == [node |-> n, at |-> at]
           t == GoOn(at)
           rs == AllLeft(N, sy, g, Cut(frames))
           hi == EndsAt(N, sy, g, n, "hi")
           own == OwnEnds(N, sy, g, n)
           r == At(sy, g, n, "eq")
           p == Append(path, sy[n])
<1>1. /\ frames # <<>> /\ Top.at = "self" /\ UNCHANGED kept /\ out' = out /\ mem[n].elem # Null
      /\ m = Null => frames' = t /\ path' = path
      /\ m # Null => frames' = Enter(t, m) /\ path' = Append(path, mem[n].elem)
  BY DEF PrintEq
<1>2. /\ Shape(N, sy, g, frames, path) /\ Tree(N, sy, Links(N), g)
      /\ n \in 1..N /\ path = Prefix(sy, g, Top)
      /\ AllLeft(N, sy, g, frames) = rs \cup Left(N, sy, g, Top)
      /\ sy[n] = mem[n].elem
      /\ sy[n] # Null => Links(N)[n]["eq"] = m
  <2>1. n = Top.node
    OBVIOUS
  <2> HIDE DEF n, rs, m
  <2>2. AtTop(N, g, n)
    BY <1>1, <2>1, TopCall, Zenon
  <2>. QED
    BY <1>1, <2>1, <2>2 DEF AtTop, rs, m
<1>3. sy[n] # Null /\ own = EndsAt(N, sy, g, n, "eq")
  BY <1>1, <1>2 DEF OwnEnds
<1> HIDE DEF sy
<1>4. path = g[n].pre /\ Left(N, sy, g, Top) = own \cup hi
  BY <1>1, <1>2 DEF Prefix, Left
<1>5. /\ Shape(N, sy, g, t, Prefix(sy, g, f))
      /\ AllLeft(N, sy, g, t) = rs \cup Left(N, sy, g, f)
      /\ \A x : /\ Waits(f) /\ Below(N, sy, g, x) \subseteq Busy(N, sy, g, f)
               /\ Below(N, sy, g, x) \subseteq Below(N, sy, g, g[n])
               => Open(N, sy, g, t, x)
  <2>1. at \in Places /\ (at = "pop" => sy[n] # Null)
    BY <1>3 DEF Places
  <2> HIDE DEF f, t, at
  <2>2. f = [node |-> Top.node, at |-> at] /\ t = GoOn(at)
    BY DEF f, t
  <2>. QED
    BY <1>1, <1>2, <2>1, <2>2, TopGoesOn
<1>6. Left(N, sy, g, f) = hi
  BY DEF Left
<1>7. /\ m = Null => own = {}
      /\ m # Null => m \in 1..N /\ g[m] = r
  BY <1>2, <1>3, LinkLeads DEF Kid
<1>8. CASE m = Null
  <2>1. Prefix(sy, g, f) = path
    BY <1>4, <1>8 DEF Prefix
  <2>2. Shape(N, sy, g, frames', path')
    BY <1>1, <1>5, <1>8, <2>1
  <2>3. AllLeft(N, sy, g, frames') = AllLeft(N, sy, g, frames)
    BY <1>1, <1>2, <1>4, <1>5, <1>6, <1>7, <1>8
  <2>. QED
    BY <1>1, <2>2, <2>3, PrintsNone DEF sy
<1>9. CASE m # Null
  <2>1. frames' = Enter(t, m) /\ path' = p
    BY <1>1, <1>2, <1>9
  <2>2. Prefix(sy, g, f) = p
    BY <1>4, <1>9 DEF Prefix
  <2>3. r.pre = p /\ Below(N, sy, g, r) = own
    <3>1. r.pre = Append(g[n].pre, sy[n])
      BY DEF At, Part
    <3>. QED
      BY <1>3, <1>4, <3>1 DEF EndsAt
  <2>4. own \subseteq Below(N, sy, g, g[n])
    BY <1>2, NodeParts
  <2>5. Open(N, sy, g, t, r)
    <3>1. Waits(f) /\ Busy(N, sy, g, f) = own
      BY <1>3, <1>9 DEF Waits, Busy
    <3>. QED
      BY <1>5, <2>3, <2>4, <3>1
  <2>6. Shape(N, sy, g, t, p)
    BY <1>5, <2>2
  <2> HIDE DEF t, r, m, f, n, p, own, hi, rs, at
  <2>7. /\ Shape(N, sy, g, Enter(t, m), p)
        /\ AllLeft(N, sy, g, Enter(t, m)) = AllLeft(N, sy, g, t) \cup Below(N, sy, g, r)
    BY <1>7, <1>9, <2>3, <2>5, <2>6, CallMade
  <2>8. AllLeft(N, sy, g, frames') = AllLeft(N, sy, g, frames)
    BY <1>2, <1>4, <1>5, <1>6, <2>1, <2>3, <2>7
  <2>. QED
    BY <1>1, <2>1, <2>7, <2>8, PrintsNone DEF sy
<1>. QED
  BY <1>8, <1>9

LEMMA PrintPopStep ==
  ASSUME NEW N, NEW g, NEW s, Printing(N, g, s), PrintPop
  PROVE  Printing(N, g, s)'
<1> DEFINE sy == Syms(N)
           n == Top.node
           f == [node |-> n, at |-> "hi"]
           t == GoOn("hi")
<1>1. /\ frames # <<>> /\ Top.at = "pop" /\ UNCHANGED kept /\ out' = out
      /\ frames' = t /\ path' = Cut(path)
  BY DEF PrintPop
<1>2. /\ Shape(N, sy, g, frames, path) /\ n \in 1..N /\ path = Prefix(sy, g, Top)
      /\ AllLeft(N, sy, g, frames) = AllLeft(N, sy, g, Cut(frames)) \cup Left(N, sy, g, Top)
      /\ g[n].pre \in Words /\ sy[n] \in Elem
  <2>1. n = Top.node
    OBVIOUS
  <2> HIDE DEF n
  <2>2. AtTop(N, g, n)
    BY <1>1, <2>1, TopCall, Zenon
  <2>. QED
    BY <1>1, <2>1, <2>2 DEF AtTop
<1> HIDE DEF sy
<1>3. /\ Shape(N, sy, g, t, Prefix(sy, g, f))
      /\ AllLeft(N, sy, g, t) = AllLeft(N, sy, g, Cut(frames)) \cup Left(N, sy, g, f)
  <2>1. "hi" \in Places
    BY DEF Places
  <2> HIDE DEF f, t
  <2>2. f = [node |-> Top.node, at |-> "hi"] /\ t = GoOn("hi")
    BY DEF f, t
  <2>. QED
    BY <1>1, <1>2, <2>1, <2>2, TopGoesOn
<1>4. /\ path = Append(g[n].pre, sy[n]) /\ Prefix(sy, g, f) = g[n].pre
      /\ Left(N, sy, g, f) = Left(N, sy, g, Top)
  BY <1>1, <1>2 DEF Prefix, Left
<1>5. Cut(path) = g[n].pre
  <2> HIDE DEF n
  <2>1. Cut(Append(g[n].pre, sy[n])) = g[n].pre
    BY <1>2, CutAppend DEF Words
  <2>. QED
    BY <1>4, <2>1
<1>6. Shape(N, sy, g, frames', path')
  <2> HIDE DEF f, t, n
  <2>1. path' = Prefix(sy, g, f)
    BY <1>1, <1>4, <1>5
  <2>. QED
    BY <1>1, <1>3, <2>1
<1>7. AllLeft(N, sy, g, frames') = AllLeft(N, sy, g, frames)
  BY <1>1, <1>2, <1>3, <1>4
<1>. QED
  BY <1>1, <1>6, <1>7, PrintsNone DEF sy

LEMMA PrintHiStep ==
  ASSUME NEW N, NEW g, NEW s, Printing(N, g, s), PrintHi
  PROVE  Printing(N, g, s)'
<1> DEFINE sy == Syms(N)
           n == Top.node
           t == Cut(frames)
           m == mem[n].hi
           r == At(sy, g, n, "hi")
<1>1. /\ frames # <<>> /\ Top.at = "hi" /\ UNCHANGED kept /\ out' = out /\ path' = path
      /\ frames' = Enter(t, m)
  BY DEF PrintHi
<1>2. /\ Tree(N, sy, Links(N), g) /\ n \in 1..N /\ path = Prefix(sy, g, Top)
      /\ AllLeft(N, sy, g, frames) = AllLeft(N, sy, g, t) \cup Left(N, sy, g, Top)
      /\ Shape(N, sy, g, t, g[n].pre)
      /\ Open(N, sy, g, t, g[n])
      /\ m = Links(N)[n]["hi"]
  <2>1. n = Top.node
    OBVIOUS
  <2> HIDE DEF n, m, t
  <2>2. AtTop(N, g, n)
    BY <1>1, <2>1, TopCall, Zenon
  <2>. QED
    BY <1>1, <2>1, <2>2 DEF AtTop, m, t
<1> HIDE DEF sy
<1>3. path = g[n].pre /\ Left(N, sy, g, Top) = EndsAt(N, sy, g, n, "hi")
  BY <1>1, <1>2 DEF Prefix, Left
<1>4. /\ EndsAt(N, sy, g, n, "hi") \subseteq Below(N, sy, g, g[n])
      /\ r.pre = path /\ Below(N, sy, g, r) = EndsAt(N, sy, g, n, "hi")
  BY <1>2, <1>3, PartOpen DEF Kid, EndsAt
<1>5. Open(N, sy, g, t, r)
  BY <1>2, <1>4 DEF Open
<1>6. /\ m = Null => Below(N, sy, g, r) = {}
      /\ m # Null => m \in 1..N /\ g[m] = r
  BY <1>2, <1>4, LinkLeads DEF Kid
<1>7. Shape(N, sy, g, t, path)
  BY <1>2, <1>3
<1> HIDE DEF t, r, m, n
<1>8. /\ Shape(N, sy, g, Enter(t, m), path)
      /\ AllLeft(N, sy, g, Enter(t, m)) = AllLeft(N, sy, g, t) \cup Below(N, sy, g, r)
  BY <1>4, <1>5, <1>6, <1>7, CallMade
<1>9. AllLeft(N, sy, g, frames') = AllLeft(N, sy, g, frames)
  BY <1>1, <1>2, <1>3, <1>4, <1>8
<1>10. Shape(N, sy, g, frames', path')
  BY <1>1, <1>8
<1>. QED
  BY <1>1, <1>9, <1>10, PrintsNone DEF sy

LEMMA PrintBegins ==
  ASSUME PrintInv, CallPrint, NEW N, NEW g, NEW s, N = Len(mem), MemTree(N, g, s), Rooted(N)
  PROVE  Printing(N, g, s)'
<1> DEFINE sy == Syms(N)
           t == Enter(<<>>, root)
<1>1. pc = "idle" /\ UNCHANGED kept /\ out' = out /\ path' = path /\ frames' = t
  BY DEF CallPrint
<1>2. path = <<>> /\ out = <<>>
  BY <1>1 DEF PrintInv
<1>3. TreeTypes(N, sy, Links(N), g) /\ TreeLinks(N, sy, Links(N), g) /\ N \in Nat
  BY DEF MemTree, Tree, TreeTypes
<1>4. Below(N, sy, g, Whole) = Ends(N, sy)
  BY <1>3, AllInWhole
<1>5. /\ root = Null => Below(N, sy, g, Whole) = {}
      /\ root # Null => root \in 1..N /\ g[root] = Whole
  <2>1. CASE N = 0
    <3>1. root = Null /\ 1..N = {}
      BY <2>1 DEF Rooted
    <3>. QED
      BY <1>4, <3>1 DEF Ends
  <2>2. CASE N # 0
    <3>1. N > 0 /\ 1 \in 1..N
      BY <1>3, <2>2
    <3>2. root = 1 /\ g[1] = Whole
      BY <1>3, <2>2, <3>1 DEF Rooted, TreeLinks
    <3>. QED
      BY <3>1, <3>2 DEF Null
  <2>. QED
    BY <2>1, <2>2
<1>6. Len(<<>>) = 0 /\ 1..0 = {} /\ DOMAIN <<>> = {}
      /\ <<>> \in Seq(CallsOf(N)) /\ <<>> \in Seq(Seq(Chars))
  BY EmptySeq
<1> HIDE DEF sy
<1>7. Shape(N, sy, g, <<>>, <<>>) /\ Open(N, sy, g, <<>>, Whole) /\ AllLeft(N, sy, g, <<>>) = {}
  BY <1>6 DEF Shape, Open, AllLeft
<1>8. Whole.pre = <<>>
  BY DEF Whole
<1>9. /\ Shape(N, sy, g, t, <<>>)
      /\ AllLeft(N, sy, g, t) = AllLeft(N, sy, g, <<>>) \cup Below(N, sy, g, Whole)
  BY <1>5, <1>7, <1>8, CallMade
<1>10. /\ N = Len(mem)' /\ MemTree(N, g, s)' /\ Rooted(N)' /\ Syms(N)' = sy
  BY <1>1, KeptTree DEF sy
<1>11. Printed(N, g)' = {}
  BY <1>1, <1>4, <1>7, <1>9, <1>10 DEF Printed
<1>12. /\ {out'[i] : i \in DOMAIN out'} = {s[m] : m \in Printed(N, g)'}
       /\ Distinct(out)' /\ out' \in Seq(Seq(Chars))
  BY <1>1, <1>2, <1>6, <1>11 DEF Distinct
<1>13. Shape(N, sy, g, frames', path')
  BY <1>1, <1>2, <1>9
<1> HIDE DEF t
<1>. QED
  BY <1>10, <1>12, <1>13 DEF Printing

\* When no call is left, all lines are printed.
LEMMA PrintEnds ==
  ASSUME PrintDone, NEW N, NEW g, NEW s, Printing(N, g, s)
  PROVE  PrintsAll'
<1>1. UNCHANGED kept /\ out' = out /\ frames = <<>>
  BY DEF PrintDone, printer
<1>2. MemTree(N, g, s)' /\ Rooted(N)' /\ Syms(N)' = Syms(N)
  BY <1>1, KeptTree DEF Printing
<1>3. Stored' = LinesOf(N, s)'
  <2>1. StoredRight'
    BY StoredIs, PTL
  <2>. QED
    BY <1>2, <2>1 DEF StoredRight
<1>4. Printed(N, g) = Ends(N, Syms(N))
  <2>1. Len(<<>>) = 0 /\ 1..0 = {}
    BY EmptySeq
  <2>. QED
    BY <1>1, <2>1 DEF Printed, AllLeft
<1>5. {out[i] : i \in DOMAIN out} = {s[m] : m \in Ends(N, Syms(N))} /\ Distinct(out)
  BY <1>4 DEF Printing
<1>6. LinesOf(N, s)' = {s[m] : m \in Ends(N, Syms(N))}
  BY <1>2 DEF LinesOf
<1>. QED
  BY <1>1, <1>3, <1>5, <1>6 DEF PrintsAll, Distinct

LEMMA PrintInit == Init => PrintInv
BY DEF Init, PrintInv, PrintsAll

LEMMA PrintInvStep == PathInv /\ PrintInv /\ [Next]_vars => PrintInv'
<1> SUFFICES ASSUME PathInv, PrintInv, [Next]_vars PROVE PrintInv'
  OBVIOUS
<1> DEFINE busy == {"print", "printed", "stack_empty"}
<1>1. ASSUME pc' = "print", \E N, g, s : Printing(N, g, s)' PROVE PrintInv'
  BY <1>1 DEF PrintInv, PrintsAll
<1>2. ASSUME pc \notin busy, UNCHANGED printer, pc' \notin busy PROVE PrintInv'
  BY <1>2 DEF PrintInv, PrintsAll, printer
<1>3. ASSUME NEW l \in Lines, CallInsert(l) PROVE PrintInv'
  BY <1>2, <1>3 DEF CallInsert, Call
<1>4. ASSUME NEW l \in Lines, CallLookup(l) PROVE PrintInv'
  BY <1>2, <1>4 DEF CallLookup, Call
<1>5. CASE Insert
  <2>1. /\ pc \in {"walk", "grow", "store", "put"} /\ UNCHANGED printer
        /\ pc' \in {"idle", "walk", "grow", "store", "put"}
    BY <1>5 DEF Insert, WalkFetch, WalkFound, WalkNext, WalkEnd, GrowFetch, Allocate, Store,
                SetValue, Return
  <2>. QED
    BY <1>2, <2>1
<1>6. CASE Lookup
  <2>1. pc = "lookup" /\ UNCHANGED printer /\ pc' \in {"idle", "lookup"}
    BY <1>6 DEF Lookup, LookupFetch, LookupNext, LookupFound, LookupNotFound, Return
  <2>. QED
    BY <1>2, <2>1
<1>7. CASE NoMemory
  BY <1>2, <1>7 DEF NoMemory
<1>8. CASE CallPrint
  <2>1. pc = "idle" /\ pc' = "print"
    BY <1>8 DEF CallPrint
  <2>2. PICK N, g, s : TreeWith(N, g, s)
    BY DEF PathInv, TreeOK
  <2>3. N = Len(mem) /\ MemTree(N, g, s) /\ Rooted(N)
    BY <2>1, <2>2 DEF TreeWith, Size
  <2>4. Printing(N, g, s)'
    BY <1>8, <2>3, PrintBegins
  <2>. QED
    BY <1>1, <2>1, <2>4
<1>9. CASE PrintStep
  <2>1. pc = "print"
    BY <1>9 DEF PrintStep, PrintLo, PrintLine, PrintEq, PrintPop, PrintHi, PrintDone
  <2>2. PICK N, g, s : Printing(N, g, s)
    BY <2>1 DEF PrintInv
  <2>3. CASE PrintDone
    <3>1. pc' = "printed" /\ PrintsAll'
      BY <2>2, <2>3, PrintEnds DEF PrintDone
    <3>. QED
      BY <3>1 DEF PrintInv
  <2>4. CASE PrintLine /\ path = <<>>
    <3>1. pc' = "stack_empty"
      BY <2>4 DEF PrintLine
    <3>. QED
      BY <3>1 DEF PrintInv, PrintsAll
  <2>5. CASE PrintLo \/ PrintEq \/ PrintPop \/ PrintHi \/ (PrintLine /\ path # <<>>)
    <3>1. Printing(N, g, s)'
      BY <2>2, <2>5, PrintLoStep, PrintLineStep, PrintEqStep, PrintPopStep, PrintHiStep
    <3>2. pc' = "print"
      BY <2>1, <2>5 DEF PrintLo, PrintLine, PrintEq, PrintPop, PrintHi
    <3>. QED
      BY <1>1, <3>1, <3>2
  <2>. QED
    BY <1>9, <2>3, <2>4, <2>5 DEF PrintStep
<1>10. CASE UNCHANGED vars
  <2>1. /\ mem' = mem /\ elems' = elems /\ root' = root /\ frames' = frames /\ path' = path
        /\ out' = out /\ pc' = pc
    BY <1>10 DEF vars, printer
  <2>2. UNCHANGED kept
    BY <1>10 DEF vars, kept
  <2>3. ASSUME NEW N, NEW g, NEW s, Printing(N, g, s) PROVE Printing(N, g, s)'
    <3>1. Shape(N, Syms(N), g, frames', path')
      BY <2>1, <2>3 DEF Printing
    <3>. QED
      BY <2>1, <2>2, <2>3, <3>1, PrintsNone
  <2>4. Stored' = Stored
    BY <2>1 DEF Stored, Texts, Offsets
  <2>5. PrintsAll' <=> PrintsAll
    BY <2>1, <2>4 DEF PrintsAll
  <2>. QED
    BY <2>1, <2>3, <2>5 DEF PrintInv
<1>11. CASE Stopped
  BY <1>10, <1>11 DEF Stopped
<1>. QED
  BY <1>3, <1>4, <1>5, <1>6, <1>7, <1>8, <1>9, <1>10, <1>11 DEF Next, Step

(***************************************************************************)
(* PATH_TRIE_PRINT, when it ends, has printed each line of the set once and*)
(* nothing else (PrintsAll): the calls in progress have among them every   *)
(* end that is not printed, none has one that another has, and the elements*)
(* on the printer's stack spell the line of the node where it prints.      *)
(***************************************************************************)
THEOREM PathPrintsAll == Spec => []PrintsAll
<1>1. PrintInv => PrintsAll
  BY DEF PrintInv
<1>2. Init => PathInv /\ PrintInv
  BY PathInit, PrintInit
<1>3. PathInv /\ PrintInv /\ [Next]_vars => (PathInv /\ PrintInv)'
  BY PathStep, PrintInvStep
<1>. QED
  BY <1>1, <1>2, <1>3, PTL DEF Spec
=============================================================================
