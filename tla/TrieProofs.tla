----------------------------- MODULE TrieProofs ------------------------------
(***************************************************************************)
(* Proofs about Trie, for every set of strings and both builds.            *)
(*                                                                         *)
(* The tree is described without recursion.  A string with the 0 after it  *)
(* is a word.  Every link of the tree has a region: the words that a search*)
(* for them follows the link for.  That is a prefix, and bounds for the    *)
(* symbol after it.  What makes it a search tree is that the regions of the*)
(* links that lead nowhere have no word in common, and no word of a node.  *)
(***************************************************************************)
EXTENDS Trie, NumberLemmas, SequenceTheorems

Symbol == 0..255
Words == Seq(Symbol)
Kid == {"lo", "hi", "eq"}

Region == [pre : Words, lo : -1..255, hi : 0..256]

Whole == [pre |-> <<>>, lo |-> -1, hi |-> 256]

\* w is in the region.
In(r, w) == /\ Len(r.pre) < Len(w)
            /\ \A j \in 1..Len(r.pre) : w[j] = r.pre[j]
            /\ r.lo < w[Len(r.pre) + 1] /\ w[Len(r.pre) + 1] < r.hi

\* The region of a link of a node with the character c that is in the region r.
Part(r, c, l) == CASE l = "lo" -> [pre |-> r.pre, lo |-> r.lo, hi |-> c]
                   [] l = "hi" -> [pre |-> r.pre, lo |-> c, hi |-> r.hi]
                   [] l = "eq" -> [pre |-> Append(r.pre, c), lo |-> -1, hi |-> 256]

LEMMA PartType ==
  ASSUME NEW r \in Region, NEW c \in Symbol, NEW l \in Kid
  PROVE  Part(r, c, l) \in Region
<1>1. r.pre \in Words /\ r.lo \in -1..255 /\ r.hi \in 0..256
  BY DEF Region
<1>2. Append(r.pre, c) \in Words
  BY <1>1, AppendProperties DEF Words
<1>3. c \in -1..255 /\ c \in 0..256
  BY DEF Symbol
<1>. QED
  BY <1>1, <1>2, <1>3 DEF Part, Region, Kid

\* What a region's prefix and that of its "eq" part are.
LEMMA PrefixIs ==
  ASSUME NEW r \in Region, NEW c \in Symbol
  PROVE  /\ Len(r.pre) \in Nat
         /\ Append(r.pre, c) \in Words
         /\ Len(Append(r.pre, c)) = Len(r.pre) + 1
         /\ \A j \in 1..Len(r.pre) : Append(r.pre, c)[j] = r.pre[j]
         /\ Append(r.pre, c)[Len(r.pre) + 1] = c
<1>1. r.pre \in Words
  BY DEF Region
<1>. QED
  BY <1>1, AppendProperties, LenProperties DEF Words

\* The first symbols of a word.
LEMMA SymbolsOf ==
  ASSUME NEW w \in Words
  PROVE  Len(w) \in Nat /\ \A j \in 1..Len(w) : w[j] \in Symbol /\ w[j] \in Nat
<1>1. Len(w) \in Nat
  BY LenProperties DEF Words
<1>2. ASSUME NEW j \in 1..Len(w) PROVE w[j] \in Symbol
  BY ElementOfSeq DEF Words
<1>3. \A s \in Symbol : s \in Nat
  BY DEF Symbol
<1>. QED
  BY <1>1, <1>2, <1>3

\* A word in the region of a node is in one of its parts, or is the node's own.
LEMMA PartOf ==
  ASSUME NEW r \in Region, NEW c \in Symbol, NEW w \in Words, In(r, w)
  PROVE  /\ w[Len(r.pre) + 1] < c => In(Part(r, c, "lo"), w)
         /\ w[Len(r.pre) + 1] > c => In(Part(r, c, "hi"), w)
         /\ w[Len(r.pre) + 1] = c /\ Len(w) > Len(r.pre) + 1 => In(Part(r, c, "eq"), w)
         /\ w[Len(r.pre) + 1] = c /\ Len(w) = Len(r.pre) + 1 => w = Append(r.pre, c)
<1> DEFINE d == Len(r.pre)
           p == Append(r.pre, c)
<1>1. /\ d \in Nat /\ p \in Words /\ Len(p) = d + 1
      /\ \A j \in 1..d : p[j] = r.pre[j]
      /\ p[d + 1] = c
  BY PrefixIs
<1>2. /\ d < Len(w)
      /\ \A j \in 1..d : w[j] = r.pre[j]
      /\ r.lo < w[d + 1] /\ w[d + 1] < r.hi
  BY DEF In
<1>3. w[d + 1] < c => In(Part(r, c, "lo"), w)
  BY <1>2 DEF Part, In
<1>4. w[d + 1] > c => In(Part(r, c, "hi"), w)
  BY <1>2 DEF Part, In
<1>5. Part(r, c, "eq") = [pre |-> p, lo |-> -1, hi |-> 256]
  BY DEF Part
<1>6. Len(w) \in Nat /\ \A j \in 1..Len(w) : w[j] \in Symbol
  BY SymbolsOf
<1>7. ASSUME w[d + 1] = c PROVE \A j \in 1..(d + 1) : w[j] = p[j]
  <2>1. ASSUME NEW j \in 1..(d + 1) PROVE w[j] = p[j]
    <3> HIDE DEF p, d
    <3>1. j = d + 1 \/ j \in 1..d
      BY <1>1
    <3>2. \A k \in 1..d : r.pre[k] = w[k]
      BY <1>2 DEF d
    <3>3. \A k \in 1..d : p[k] = w[k]
      BY <3>2, <1>1 DEF d
    <3>. QED
      BY <3>1, <3>3, <1>1, <1>7
  <2>. QED
    BY <2>1
<1> HIDE DEF p, d
<1>8. ASSUME w[d + 1] = c, Len(w) > d + 1 PROVE In(Part(r, c, "eq"), w)
  <2>1. d + 2 \in 1..Len(w)
    BY <1>1, <1>6, <1>8
  <2>2. w[d + 2] \in Symbol
    BY <2>1, <1>6
  <2>3. Len(p) < Len(w) /\ Len(p) + 1 = d + 2
    BY <1>1, <1>8
  <2>4. \A j \in 1..Len(p) : w[j] = p[j]
    BY <1>1, <1>7, <1>8
  <2>5. -1 < w[d + 2] /\ w[d + 2] < 256
    BY <2>2 DEF Symbol
  <2>. QED
    BY <1>5, <2>3, <2>4, <2>5 DEF In
<1>9. ASSUME w[d + 1] = c, Len(w) = d + 1 PROVE w = p
  <2>1. Len(w) = Len(p) /\ \A j \in 1..Len(w) : w[j] = p[j]
    BY <1>1, <1>7, <1>9
  <2>. QED
    BY <2>1, <1>1, SeqEqual DEF Words
<1>. QED
  BY <1>3, <1>4, <1>8, <1>9 DEF p, d

\* The side of c on which a search goes on that compares c with the symbol s.
SideOf(s, c) == IF s = c THEN "eq" ELSE IF s < c THEN "lo" ELSE "hi"

\* And the other way round: the parts are of the region, the word of the node is
\* in none of them, and they have no word in common.
LEMMA PartWithin ==
  ASSUME NEW r \in Region, NEW c \in Symbol, NEW l \in Kid, NEW w \in Words,
         r.lo < c, c < r.hi, In(Part(r, c, l), w)
  PROVE  /\ In(r, w)
         /\ l = SideOf(w[Len(r.pre) + 1], c)
         /\ l = "eq" => Len(w) > Len(r.pre) + 1
<1> DEFINE d == Len(r.pre)
           p == Append(r.pre, c)
<1>1. /\ d \in Nat /\ p \in Words /\ Len(p) = d + 1
      /\ \A j \in 1..d : p[j] = r.pre[j]
      /\ p[d + 1] = c
  BY PrefixIs
<1>2. Len(w) \in Nat /\ \A j \in 1..Len(w) : w[j] \in Nat
  BY SymbolsOf
<1>3. r.lo \in Int /\ r.hi \in Int /\ c \in Nat
  BY DEF Region, Symbol
<1>4. CASE l = "lo"
  <2>1. d < Len(w) /\ (\A j \in 1..d : w[j] = r.pre[j]) /\ r.lo < w[d + 1] /\ w[d + 1] < c
    BY <1>4 DEF In, Part
  <2> HIDE DEF d
  <2>2. w[d + 1] \in Nat
    <3>1. d + 1 \in 1..Len(w)
      BY <2>1, <1>1, <1>2
    <3>. QED
      BY <3>1, <1>2
  <2>3. w[d + 1] < r.hi /\ w[d + 1] # c
    BY <1>3, <2>1, <2>2
  <2>. QED
    BY <1>4, <2>1, <2>3 DEF In, d, SideOf
<1>5. CASE l = "hi"
  <2>1. d < Len(w) /\ (\A j \in 1..d : w[j] = r.pre[j]) /\ c < w[d + 1] /\ w[d + 1] < r.hi
    BY <1>5 DEF In, Part
  <2> HIDE DEF d
  <2>2. w[d + 1] \in Nat
    <3>1. d + 1 \in 1..Len(w)
      BY <2>1, <1>1, <1>2
    <3>. QED
      BY <3>1, <1>2
  <2>3. r.lo < w[d + 1] /\ w[d + 1] # c /\ ~(w[d + 1] < c)
    BY <1>3, <2>1, <2>2
  <2>. QED
    BY <1>5, <2>1, <2>3 DEF In, d, SideOf
<1>6. CASE l = "eq"
  <2>1. Part(r, c, l) = [pre |-> p, lo |-> -1, hi |-> 256]
    BY <1>6 DEF Part
  <2>2. Len(p) < Len(w) /\ \A j \in 1..Len(p) : w[j] = p[j]
    BY <2>1 DEF In
  <2>3. \A j \in 1..d : p[j] = r.pre[j]
    BY <1>1
  <2> HIDE DEF p, d
  <2>4. d + 1 < Len(w) /\ w[d + 1] = c /\ d + 1 \in 1..Len(w)
    BY <2>2, <1>1, <1>2
  <2>5. \A j \in 1..d : w[j] = r.pre[j]
    BY <2>2, <2>3, <1>1
  <2>6. d < Len(w)
    BY <2>4, <1>1, <1>2
  <2>. QED
    BY <1>6, <2>4, <2>5, <2>6 DEF In, d, SideOf
<1>. QED
  BY <1>4, <1>5, <1>6 DEF Kid

LEMMA OwnWord ==
  ASSUME NEW r \in Region, NEW c \in Symbol, r.lo < c, c < r.hi
  PROVE  /\ In(r, Append(r.pre, c))
         /\ \A l \in Kid : ~In(Part(r, c, l), Append(r.pre, c))
<1>1. /\ Len(r.pre) \in Nat /\ Append(r.pre, c) \in Words
      /\ Len(Append(r.pre, c)) = Len(r.pre) + 1
      /\ \A j \in 1..Len(r.pre) : Append(r.pre, c)[j] = r.pre[j]
      /\ Append(r.pre, c)[Len(r.pre) + 1] = c
  BY PrefixIs
<1>2. In(r, Append(r.pre, c))
  BY <1>1 DEF In
<1>3. ASSUME NEW l \in Kid, In(Part(r, c, l), Append(r.pre, c)) PROVE FALSE
  <2>1. /\ l = SideOf(Append(r.pre, c)[Len(r.pre) + 1], c)
        /\ l = "eq" => Len(Append(r.pre, c)) > Len(r.pre) + 1
    BY <1>1, <1>3, PartWithin
  <2>2. l = "eq"
    BY <2>1, <1>1 DEF SideOf
  <2>. QED
    BY <2>1, <2>2, <1>1
<1>. QED
  BY <1>2, <1>3
-----------------------------------------------------------------------------
WordOf(ch, g, n) == Append(g[n].pre, ch[n])

At(ch, g, n, l) == Part(g[n], ch[n], l)

(***************************************************************************)
(* The nodes 1..N, with the characters ch and the links lk, are a tree; g  *)
(* are their regions.                                                      *)
(***************************************************************************)
TreeTypes(N, ch, lk, g) ==
  /\ N \in Nat
  /\ ch \in [1..N -> Symbol]
  /\ lk \in [1..N -> [Kid -> Nat]]
  /\ g \in [1..N -> Region]
  /\ \A n \in 1..N : g[n].pre \in Seq(1..255)
  /\ \A n \in 1..N : ch[n] = 0 => lk[n]["eq"] = Null

TreeLinks(N, ch, lk, g) ==
  /\ N > 0 => g[1] = Whole
  /\ \A n \in 1..N : g[n].lo < ch[n] /\ ch[n] < g[n].hi
  /\ \A n \in 1..N, l \in Kid : lk[n][l] # Null =>
       /\ lk[n][l] \in 1..N /\ lk[n][l] > n
       /\ g[lk[n][l]] = At(ch, g, n, l)

\* No word of a node is in the region of a free link.
FreeOfNodes(N, ch, lk, g) ==
  \A n \in 1..N, l \in Kid, m \in 1..N :
    lk[n][l] = Null => ~In(At(ch, g, n, l), WordOf(ch, g, m))

\* No word is in the regions of two free links.
FreeApart(N, ch, lk, g) ==
  \A n1 \in 1..N, l1 \in Kid, n2 \in 1..N, l2 \in Kid, w \in Words :
    /\ lk[n1][l1] = Null /\ lk[n2][l2] = Null
    /\ In(At(ch, g, n1, l1), w) /\ In(At(ch, g, n2, l2), w)
    => n1 = n2 /\ l1 = l2

WordsDiffer(N, ch, g) ==
  \A n, m \in 1..N : WordOf(ch, g, n) = WordOf(ch, g, m) => n = m

Tree(N, ch, lk, g) == /\ TreeTypes(N, ch, lk, g)
                      /\ TreeLinks(N, ch, lk, g)
                      /\ WordsDiffer(N, ch, g)
                      /\ FreeOfNodes(N, ch, lk, g)
                      /\ FreeApart(N, ch, lk, g)

\* A tree with one node more, at the link l of node i.
Added(N, f, x) == [n \in 1..(N + 1) |-> IF n = N + 1 THEN x ELSE f[n]]

NoKids == [l \in Kid |-> Null]

Linked(N, lk, i, l) ==
  Added(N, [n \in 1..N |-> IF n = i THEN [k \in Kid |-> IF k = l THEN N + 1 ELSE lk[n][k]]
                                    ELSE lk[n]], NoKids)

LEMMA WordType ==
  ASSUME NEW N, NEW ch, NEW lk, NEW g, TreeTypes(N, ch, lk, g), NEW n \in 1..N
  PROVE  WordOf(ch, g, n) \in Words /\ g[n] \in Region /\ ch[n] \in Symbol
<1>1. g[n] \in Region /\ ch[n] \in Symbol
  BY DEF TreeTypes
<1>. QED
  BY <1>1, PrefixIs DEF WordOf

LEMMA FirstNode ==
  ASSUME NEW w \in Words, In(Whole, w)
  PROVE  Tree(1, Added(0, <<>>, w[1]), Added(0, <<>>, NoKids), Added(0, <<>>, Whole))
<1> DEFINE ch == Added(0, <<>>, w[1])
           lk == Added(0, <<>>, NoKids)
           g == Added(0, <<>>, Whole)
<1>1. /\ ch = [n \in 1..1 |-> w[1]]
      /\ lk = [n \in 1..1 |-> NoKids]
      /\ g = [n \in 1..1 |-> Whole]
  BY DEF Added
<1>2. <<>> \in Words /\ <<>> \in Seq(1..255) /\ Len(<<>>) = 0
  BY EmptySeq DEF Words
<1>3. Whole \in Region /\ Whole.pre = <<>> /\ Whole.lo = -1 /\ Whole.hi = 256
  BY <1>2 DEF Whole, Region
<1>4. w[1] \in Symbol
  <2>1. Len(Whole.pre) < Len(w) /\ Len(w) \in Nat
    BY SymbolsOf DEF In
  <2>2. 1 \in 1..Len(w)
    BY <1>2, <1>3, <2>1
  <2>. QED
    BY <2>2, SymbolsOf
<1>5. Whole.lo < w[1] /\ w[1] < Whole.hi
  <2>1. \A s \in Symbol : -1 < s /\ s < 256
    BY DEF Symbol
  <2>. QED
    BY <2>1, <1>3, <1>4
<1> HIDE DEF ch, lk, g
<1>6. \A l \in Kid : lk[1][l] = Null
  BY <1>1 DEF NoKids
<1>7. TreeTypes(1, ch, lk, g)
  <2>1. NoKids \in [Kid -> Nat]
    BY DEF NoKids, Null
  <2>2. "eq" \in Kid
    BY DEF Kid
  <2>3. ch \in [1..1 -> Symbol] /\ lk \in [1..1 -> [Kid -> Nat]] /\ g \in [1..1 -> Region]
    BY <1>1, <1>3, <1>4, <2>1
  <2>4. \A n \in 1..1 : n = 1
    OBVIOUS
  <2>5. \A n \in 1..1 : g[n].pre \in Seq(1..255)
    BY <1>1, <1>2, <1>3
  <2>6. \A n \in 1..1 : ch[n] = 0 => lk[n]["eq"] = Null
    BY <1>6, <2>2, <2>4
  <2>. QED
    BY <2>3, <2>5, <2>6 DEF TreeTypes
<1>8. TreeLinks(1, ch, lk, g)
  BY <1>1, <1>5, <1>6 DEF TreeLinks
<1>11. WordsDiffer(1, ch, g)
  BY DEF WordsDiffer
<1>9. FreeOfNodes(1, ch, lk, g)
  BY <1>1, <1>3, <1>4, <1>5, OwnWord DEF FreeOfNodes, WordOf, At
<1>10. FreeApart(1, ch, lk, g)
  <2> SUFFICES ASSUME NEW l1 \in Kid, NEW l2 \in Kid, NEW v \in Words,
                      In(Part(Whole, w[1], l1), v), In(Part(Whole, w[1], l2), v)
               PROVE  l1 = l2
    BY <1>1 DEF FreeApart, At
  <2>. QED
    BY <1>3, <1>4, <1>5, PartWithin
<1>. QED
  BY <1>7, <1>8, <1>9, <1>10, <1>11 DEF Tree, ch, lk, g

\* The regions of the links of a node are of the node's region.
LEMMA LinkRegion ==
  ASSUME NEW N, NEW ch, NEW lk, NEW g, TreeTypes(N, ch, lk, g), TreeLinks(N, ch, lk, g),
         NEW n \in 1..N, NEW l \in Kid
  PROVE  At(ch, g, n, l) \in Region
BY WordType, PartType DEF At

\* A search that ends at a free link leaves a tree when it adds the next node of
\* its word there.
LEMMA NodeAdded ==
  ASSUME NEW N, NEW ch, NEW lk, NEW g, Tree(N, ch, lk, g),
         NEW i \in 1..N, NEW l \in Kid, lk[i][l] = Null, l = "eq" => ch[i] # 0,
         NEW w \in Words, In(At(ch, g, i, l), w)
  PROVE  Tree(N + 1, Added(N, ch, w[Len(At(ch, g, i, l).pre) + 1]), Linked(N, lk, i, l),
              Added(N, g, At(ch, g, i, l)))
<1> DEFINE r == At(ch, g, i, l)
           c == w[Len(r.pre) + 1]
           ch2 == Added(N, ch, c)
           lk2 == Linked(N, lk, i, l)
           g2 == Added(N, g, r)
<1>1. /\ TreeTypes(N, ch, lk, g) /\ TreeLinks(N, ch, lk, g) /\ WordsDiffer(N, ch, g)
      /\ FreeOfNodes(N, ch, lk, g) /\ FreeApart(N, ch, lk, g)
  BY DEF Tree
<1>2. N \in Nat /\ N > 0
  BY <1>1 DEF TreeTypes
<1>3. r \in Region
  BY <1>1, LinkRegion
<1>4. c \in Symbol
  <2>1. Len(r.pre) < Len(w) /\ Len(w) \in Nat /\ Len(r.pre) \in Nat
    BY <1>3, SymbolsOf, PrefixIs DEF In, Region
  <2>2. Len(r.pre) + 1 \in 1..Len(w)
    BY <2>1
  <2>. QED
    BY <2>2, SymbolsOf
<1>5. r.lo < c /\ c < r.hi
  BY DEF In
<1>6. r.pre \in Seq(1..255)
  <2>1. g[i].pre \in Seq(1..255) /\ ch[i] \in Symbol
    BY <1>1 DEF TreeTypes
  <2>2. CASE l = "eq"
    <3>1. r.pre = Append(g[i].pre, ch[i])
      BY <2>2 DEF At, Part
    <3>2. ch[i] \in 1..255
      BY <2>1, <2>2 DEF Symbol
    <3>. QED
      BY <2>1, <3>1, <3>2, AppendProperties
  <2>3. CASE l # "eq"
    BY <2>1, <2>3 DEF At, Part, Kid
  <2>. QED
    BY <2>2, <2>3
<1> HIDE DEF r, c
<1>7. /\ \A n \in 1..N : ch2[n] = ch[n] /\ g2[n] = g[n]
      /\ ch2[N + 1] = c /\ g2[N + 1] = r
      /\ \A n \in 1..N, k \in Kid :
           lk2[n][k] = IF n = i /\ k = l THEN N + 1 ELSE lk[n][k]
      /\ \A k \in Kid : lk2[N + 1][k] = Null
  <2>1. \A n \in 1..N : n \in 1..(N + 1) /\ n # N + 1
    BY <1>2
  <2>2. N + 1 \in 1..(N + 1)
    BY <1>2
  <2>3. \A n \in 1..N : ch2[n] = ch[n] /\ g2[n] = g[n]
    BY <2>1 DEF Added
  <2>4. ch2[N + 1] = c /\ g2[N + 1] = r
    BY <2>2 DEF Added
  <2>5. \A n \in 1..N, k \in Kid : lk2[n][k] = IF n = i /\ k = l THEN N + 1 ELSE lk[n][k]
    BY <2>1 DEF Added, Linked
  <2>6. \A k \in Kid : lk2[N + 1][k] = Null
    BY <2>2 DEF Added, Linked, NoKids
  <2>. QED
    BY <2>3, <2>4, <2>5, <2>6
<1>8. \A n \in 1..(N + 1) : n \in 1..N \/ n = N + 1
  BY <1>2
<1>9. TreeTypes(N + 1, ch2, lk2, g2)
  <2>1. NoKids \in [Kid -> Nat]
    BY DEF NoKids, Null
  <2>2. ch2 \in [1..(N + 1) -> Symbol] /\ g2 \in [1..(N + 1) -> Region]
    <3>1. \A n \in 1..N : ch[n] \in Symbol /\ g[n] \in Region
      BY <1>1, WordType
    <3>. QED
      BY <1>3, <1>4, <1>8, <3>1 DEF Added
  <2>3. lk2 \in [1..(N + 1) -> [Kid -> Nat]]
    <3>1. lk \in [1..N -> [Kid -> Nat]]
      BY <1>1 DEF TreeTypes
    <3> DEFINE f == [n \in 1..N |-> IF n = i THEN [k \in Kid |-> IF k = l THEN N + 1 ELSE lk[n][k]]
                                             ELSE lk[n]]
    <3>2. f \in [1..N -> [Kid -> Nat]]
      BY <1>2, <3>1
    <3>3. lk2 = [n \in 1..(N + 1) |-> IF n = N + 1 THEN NoKids ELSE f[n]]
      BY DEF Linked, Added
    <3> HIDE DEF f, lk2
    <3>. QED
      BY <1>8, <2>1, <3>2, <3>3
  <2>4. \A n \in 1..(N + 1) : g2[n].pre \in Seq(1..255)
    <3>1. \A n \in 1..N : g[n].pre \in Seq(1..255)
      BY <1>1 DEF TreeTypes
    <3>. QED
      BY <1>6, <1>7, <1>8, <3>1
  <2>5. \A n \in 1..(N + 1) : ch2[n] = 0 => lk2[n]["eq"] = Null
    <3>1. \A n \in 1..N : ch[n] = 0 => lk[n]["eq"] = Null
      BY <1>1 DEF TreeTypes
    <3>2. "eq" \in Kid
      BY DEF Kid
    <3> HIDE DEF ch2, lk2, g2
    <3>. QED
      BY <1>7, <1>8, <3>1, <3>2
  <2>. QED
    BY <1>2, <2>2, <2>3, <2>4, <2>5 DEF TreeTypes
<1> HIDE DEF ch2, lk2, g2
<1>10. \A n \in 1..N, k \in Kid : At(ch2, g2, n, k) = At(ch, g, n, k)
  BY <1>7 DEF At
<1>11. \A k \in Kid : At(ch2, g2, N + 1, k) = Part(r, c, k)
  BY <1>7 DEF At
<1>12. \A n \in 1..N : WordOf(ch2, g2, n) = WordOf(ch, g, n)
  BY <1>7 DEF WordOf
<1>13. WordOf(ch2, g2, N + 1) = Append(r.pre, c)
  BY <1>7 DEF WordOf
<1>14. Append(r.pre, c) \in Words
  BY <1>3, <1>4, PrefixIs
<1>15. TreeLinks(N + 1, ch2, lk2, g2)
  <2>1. N + 1 > 0 => g2[1] = Whole
    BY <1>1, <1>2, <1>7 DEF TreeLinks
  <2>2. \A n \in 1..(N + 1) : g2[n].lo < ch2[n] /\ ch2[n] < g2[n].hi
    BY <1>1, <1>5, <1>7, <1>8 DEF TreeLinks
  <2>3. ASSUME NEW n \in 1..(N + 1), NEW k \in Kid, lk2[n][k] # Null
        PROVE  /\ lk2[n][k] \in 1..(N + 1) /\ lk2[n][k] > n
               /\ g2[lk2[n][k]] = At(ch2, g2, n, k)
    <3>1. n \in 1..N
      BY <1>7, <1>8, <2>3
    <3>2. CASE n = i /\ k = l
      <4>1. lk2[n][k] = N + 1
        BY <1>7, <3>1, <3>2
      <4>2. N + 1 \in 1..(N + 1) /\ N + 1 > n
        BY <1>2, <3>1
      <4>3. g2[N + 1] = At(ch2, g2, n, k)
        BY <1>7, <1>10, <3>1, <3>2 DEF r
      <4>. QED
        BY <4>1, <4>2, <4>3
    <3>3. CASE ~(n = i /\ k = l)
      <4>1. lk2[n][k] = lk[n][k]
        BY <1>7, <3>1, <3>3
      <4>2. /\ lk[n][k] \in 1..N /\ lk[n][k] > n
            /\ g[lk[n][k]] = At(ch, g, n, k)
        BY <1>1, <2>3, <3>1, <4>1 DEF TreeLinks
      <4>3. lk[n][k] \in 1..(N + 1)
        BY <1>2, <4>2
      <4>. QED
        BY <1>7, <1>10, <3>1, <4>1, <4>2, <4>3
    <3>. QED
      BY <3>2, <3>3
  <2>. QED
    BY <2>1, <2>2, <2>3 DEF TreeLinks
<1>16. ASSUME NEW n \in 1..N, NEW k \in Kid, lk2[n][k] = Null
       PROVE  lk[n][k] = Null /\ ~(n = i /\ k = l)
  BY <1>2, <1>7, <1>16 DEF Null
<1>17. FreeOfNodes(N + 1, ch2, lk2, g2)
  <2> SUFFICES ASSUME NEW n \in 1..(N + 1), NEW k \in Kid, NEW m \in 1..(N + 1),
                      lk2[n][k] = Null,
                      In(At(ch2, g2, n, k), WordOf(ch2, g2, m))
               PROVE  FALSE
    BY DEF FreeOfNodes
  <2>1. CASE n \in 1..N /\ m \in 1..N
    BY <1>1, <1>10, <1>12, <1>16, <2>1 DEF FreeOfNodes
  <2>2. CASE n \in 1..N /\ m = N + 1
    <3>1. In(At(ch, g, n, k), Append(r.pre, c))
      BY <1>10, <1>13, <2>2
    <3>2. In(At(ch, g, i, l), Append(r.pre, c))
      BY <1>3, <1>4, <1>5, OwnWord DEF r
    <3>. QED
      BY <1>1, <1>14, <1>16, <2>2, <3>1, <3>2 DEF FreeApart
  <2>3. CASE n = N + 1 /\ m \in 1..N
    <3>1. In(Part(r, c, k), WordOf(ch, g, m)) /\ WordOf(ch, g, m) \in Words
      BY <1>1, <1>11, <1>12, <2>3, WordType
    <3>2. In(At(ch, g, i, l), WordOf(ch, g, m))
      BY <1>3, <1>4, <1>5, <3>1, PartWithin DEF r
    <3>. QED
      BY <1>1, <2>3, <3>2 DEF FreeOfNodes
  <2>4. CASE n = N + 1 /\ m = N + 1
    BY <1>3, <1>4, <1>5, <1>11, <1>13, <2>4, OwnWord
  <2>. QED
    BY <1>8, <2>1, <2>2, <2>3, <2>4
<1>19. WordsDiffer(N + 1, ch2, g2)
  <2>1. ASSUME NEW n \in 1..N, WordOf(ch2, g2, n) = WordOf(ch2, g2, N + 1) PROVE FALSE
    <3>1. In(At(ch, g, i, l), WordOf(ch, g, n))
      BY <1>3, <1>4, <1>5, <1>12, <1>13, <2>1, OwnWord DEF r
    <3>. QED
      BY <1>1, <3>1 DEF FreeOfNodes
  <2>2. \A n, m \in 1..N : WordOf(ch2, g2, n) = WordOf(ch2, g2, m) => n = m
    BY <1>1, <1>12 DEF WordsDiffer
  <2>. QED
    BY <1>8, <2>1, <2>2 DEF WordsDiffer
<1>18. FreeApart(N + 1, ch2, lk2, g2)
  <2>1. ASSUME NEW n \in 1..N, NEW k \in Kid, NEW k2 \in Kid, NEW v \in Words,
               lk2[n][k] = Null, In(At(ch2, g2, n, k), v), In(At(ch2, g2, N + 1, k2), v)
        PROVE  FALSE
    <3>1. In(At(ch, g, i, l), v)
      BY <1>3, <1>4, <1>5, <1>11, <2>1, PartWithin DEF r
    <3>2. In(At(ch, g, n, k), v)
      BY <1>10, <2>1
    <3>. QED
      BY <1>1, <1>16, <2>1, <3>1, <3>2 DEF FreeApart
  <2>2. ASSUME NEW k \in Kid, NEW k2 \in Kid, NEW v \in Words,
               In(At(ch2, g2, N + 1, k), v), In(At(ch2, g2, N + 1, k2), v)
        PROVE  k = k2
    BY <1>3, <1>4, <1>5, <1>11, <2>2, PartWithin
  <2>3. ASSUME NEW n \in 1..N, NEW k \in Kid, NEW n2 \in 1..N, NEW k2 \in Kid, NEW v \in Words,
               lk2[n][k] = Null, lk2[n2][k2] = Null,
               In(At(ch2, g2, n, k), v), In(At(ch2, g2, n2, k2), v)
        PROVE  n = n2 /\ k = k2
    BY <1>1, <1>10, <1>16, <2>3 DEF FreeApart
  <2> SUFFICES ASSUME NEW n \in 1..(N + 1), NEW k \in Kid, NEW n2 \in 1..(N + 1), NEW k2 \in Kid,
                      NEW v \in Words, lk2[n][k] = Null, lk2[n2][k2] = Null,
                      In(At(ch2, g2, n, k), v), In(At(ch2, g2, n2, k2), v)
               PROVE  n = n2 /\ k = k2
    BY DEF FreeApart
  <2>4. n \in 1..N \/ n = N + 1
    BY <1>8
  <2>5. n2 \in 1..N \/ n2 = N + 1
    BY <1>8
  <2>. QED
    BY <2>1, <2>2, <2>3, <2>4, <2>5
<1>. QED
  BY <1>9, <1>15, <1>17, <1>18, <1>19 DEF Tree, ch2, lk2, g2, r, c
-----------------------------------------------------------------------------
(***************************************************************************)
(* The strings of a tree, without recursion: of the nodes at which a string*)
(* ends, those below node i are the ones whose words are in its region.    *)
(***************************************************************************)
Ends(N, ch) == {n \in 1..N : ch[n] = 0}

Suffix(s, d) == SubSeq(s, d + 1, Len(s))

Below(N, ch, g, r) == {n \in Ends(N, ch) : In(r, WordOf(ch, g, n))}

Endings(N, ch, g, r) ==
  {<<Suffix(g[n].pre, Len(r.pre)), n>> : n \in Below(N, ch, g, r)}

StringsBelow(N, ch, g, i) == IF i = Null THEN {} ELSE Endings(N, ch, g, g[i])

\* The equation that Strings solves.
Equation(ch, lk, f, i) ==
  IF i = Null THEN {}
  ELSE f[lk[i]["lo"]] \cup f[lk[i]["hi"]] \cup
       (IF ch[i] = 0 THEN {<<<<>>, i>>}
        ELSE {<<<<ch[i]>> \o t[1], t[2]>> : t \in f[lk[i]["eq"]]})

\* What follows a link is below it.
LEMMA BelowLink ==
  ASSUME NEW N, NEW ch, NEW lk, NEW g, Tree(N, ch, lk, g), NEW i \in 1..N, NEW l \in Kid
  PROVE  StringsBelow(N, ch, g, lk[i][l]) = Endings(N, ch, g, At(ch, g, i, l))
<1>1. TreeLinks(N, ch, lk, g) /\ FreeOfNodes(N, ch, lk, g)
  BY DEF Tree
<1>2. CASE lk[i][l] = Null
  <2>1. Below(N, ch, g, At(ch, g, i, l)) = {}
    BY <1>1, <1>2 DEF FreeOfNodes, Below, Ends
  <2>. QED
    BY <1>2, <2>1 DEF StringsBelow, Endings
<1>3. CASE lk[i][l] # Null
  <2>1. g[lk[i][l]] = At(ch, g, i, l)
    BY <1>1, <1>3 DEF TreeLinks
  <2>. QED
    BY <1>3, <2>1 DEF StringsBelow
<1>. QED
  BY <1>2, <1>3

\* The ends below a node: those below its links, or the node itself.
LEMMA BelowNode ==
  ASSUME NEW N, NEW ch, NEW lk, NEW g, Tree(N, ch, lk, g), NEW i \in 1..N
  PROVE  Below(N, ch, g, g[i]) =
           Below(N, ch, g, At(ch, g, i, "lo")) \cup Below(N, ch, g, At(ch, g, i, "hi"))
           \cup (IF ch[i] = 0 THEN {i} ELSE Below(N, ch, g, At(ch, g, i, "eq")))
<1>1. /\ TreeTypes(N, ch, lk, g) /\ TreeLinks(N, ch, lk, g)
      /\ WordsDiffer(N, ch, g) /\ FreeOfNodes(N, ch, lk, g)
  BY DEF Tree
<1>2. g[i] \in Region /\ ch[i] \in Symbol /\ g[i].lo < ch[i] /\ ch[i] < g[i].hi
  BY <1>1, WordType DEF TreeLinks
<1>3. \A l \in Kid : At(ch, g, i, l) = Part(g[i], ch[i], l)
  BY DEF At
<1>4. "lo" \in Kid /\ "hi" \in Kid /\ "eq" \in Kid
  BY DEF Kid
<1>5. ASSUME NEW l \in Kid, NEW n \in Below(N, ch, g, At(ch, g, i, l))
      PROVE  n \in Below(N, ch, g, g[i])
  <2>1. n \in Ends(N, ch) /\ In(Part(g[i], ch[i], l), WordOf(ch, g, n))
    BY <1>3 DEF Below
  <2>2. WordOf(ch, g, n) \in Words
    BY <1>1, <2>1, WordType DEF Ends
  <2>. QED
    BY <1>2, <2>1, <2>2, PartWithin DEF Below
<1>6. ch[i] = 0 => i \in Below(N, ch, g, g[i])
  BY <1>2, OwnWord DEF Below, Ends, WordOf
<1>7. ASSUME NEW n \in Below(N, ch, g, g[i])
      PROVE  \/ n \in Below(N, ch, g, At(ch, g, i, "lo"))
             \/ n \in Below(N, ch, g, At(ch, g, i, "hi"))
             \/ ch[i] = 0 /\ n = i
             \/ ch[i] # 0 /\ n \in Below(N, ch, g, At(ch, g, i, "eq"))
  <2> DEFINE w == WordOf(ch, g, n)
             d == Len(g[i].pre)
  <2>1. n \in 1..N /\ ch[n] = 0 /\ In(g[i], w)
    BY DEF Below, Ends
  <2>2. w \in Words /\ Len(w) \in Nat /\ d \in Nat
    BY <1>1, <1>2, <2>1, WordType, SymbolsOf, PrefixIs
  <2>3. d < Len(w) /\ d + 1 \in 1..Len(w) /\ w[d + 1] \in Nat
    <3>1. d < Len(w)
      BY <2>1 DEF In
    <3> HIDE DEF w, d
    <3>2. d + 1 \in 1..Len(w)
      BY <2>2, <3>1
    <3>. QED
      BY <2>2, <3>1, <3>2, SymbolsOf
  <2>4. ch[i] \in Nat
    BY <1>2 DEF Symbol
  <2>5. CASE w[d + 1] < ch[i]
    <3>1. In(At(ch, g, i, "lo"), w)
      BY <1>2, <1>3, <1>4, <2>1, <2>2, <2>5, PartOf
    <3>. QED
      BY <3>1 DEF Below
  <2>6. CASE w[d + 1] > ch[i]
    <3>1. In(At(ch, g, i, "hi"), w)
      BY <1>2, <1>3, <1>4, <2>1, <2>2, <2>6, PartOf
    <3>. QED
      BY <3>1 DEF Below
  <2>7. CASE w[d + 1] = ch[i] /\ Len(w) > d + 1
    <3>1. In(At(ch, g, i, "eq"), w)
      BY <1>2, <1>3, <1>4, <2>1, <2>2, <2>7, PartOf
    <3>2. ch[i] # 0
      <4>1. lk[i]["eq"] = Null => ~In(At(ch, g, i, "eq"), w)
        BY <1>1, <1>4, <2>1 DEF FreeOfNodes
      <4>. QED
        BY <1>1, <3>1, <4>1 DEF TreeTypes
    <3>. QED
      BY <3>1, <3>2 DEF Below
  <2>8. CASE w[d + 1] = ch[i] /\ Len(w) = d + 1
    <3>1. w = WordOf(ch, g, i)
      BY <1>2, <2>1, <2>2, <2>8, PartOf DEF WordOf
    <3>2. n = i
      BY <1>1, <2>1, <3>1 DEF WordsDiffer
    <3>. QED
      BY <2>1, <3>2
  <2> HIDE DEF w, d
  <2>9. Len(w) > d + 1 \/ Len(w) = d + 1
    BY <2>2, <2>3
  <2>10. w[d + 1] < ch[i] \/ w[d + 1] > ch[i] \/ w[d + 1] = ch[i]
    BY <2>3, <2>4
  <2>. QED
    BY <2>5, <2>6, <2>7, <2>8, <2>9, <2>10
<1>. QED
  BY <1>4, <1>5, <1>6, <1>7

Splits(s, d, c) == Suffix(s, d) = <<c>> \o Suffix(s, d + 1)

LEMMA SuffixSplits ==
  ASSUME NEW s \in Seq(1..255), NEW d \in Nat, d + 1 \in 1..Len(s)
  PROVE  Splits(s, d, s[d + 1])
<1>1. Len(s) \in (d + 1)..Len(s)
  BY LenProperties
<1>2. SubSeq(s, d + 1, Len(s)) = <<s[d + 1]>> \o SubSeq(s, (d + 1) + 1, Len(s))
  BY <1>1, SubSeqRecursiveFirst
<1>. QED
  BY <1>2 DEF Splits, Suffix

\* The string of a node is its word without the last symbol.
LEMMA WordAndString ==
  ASSUME NEW N, NEW ch, NEW lk, NEW g, TreeTypes(N, ch, lk, g), NEW n \in 1..N
  PROVE  /\ g[n].pre \in Seq(1..255) /\ Len(g[n].pre) \in Nat
         /\ WordOf(ch, g, n) \in Words
         /\ Len(WordOf(ch, g, n)) = Len(g[n].pre) + 1
         /\ \A j \in 1..Len(g[n].pre) : WordOf(ch, g, n)[j] = g[n].pre[j]
<1>1. g[n] \in Region /\ ch[n] \in Symbol /\ g[n].pre \in Seq(1..255)
  BY WordType DEF TreeTypes
<1>. QED
  BY <1>1, PrefixIs DEF WordOf

LEMMA EndingsOfNode ==
  ASSUME NEW N, NEW ch, NEW lk, NEW g, Tree(N, ch, lk, g), NEW i \in 1..N
  PROVE  Endings(N, ch, g, g[i]) =
           Endings(N, ch, g, At(ch, g, i, "lo")) \cup Endings(N, ch, g, At(ch, g, i, "hi"))
           \cup (IF ch[i] = 0 THEN {<<<<>>, i>>}
                 ELSE {<<<<ch[i]>> \o t[1], t[2]>> : t \in Endings(N, ch, g, At(ch, g, i, "eq"))})
<1> DEFINE d == Len(g[i].pre)
           lo == At(ch, g, i, "lo")
           hi == At(ch, g, i, "hi")
           eq == At(ch, g, i, "eq")
           e(n) == <<Suffix(g[n].pre, d), n>>
<1>1. TreeTypes(N, ch, lk, g) /\ TreeLinks(N, ch, lk, g)
  BY DEF Tree
<1>2. /\ g[i] \in Region /\ ch[i] \in Symbol /\ g[i].lo < ch[i] /\ ch[i] < g[i].hi
      /\ d \in Nat
  BY <1>1, WordType, PrefixIs DEF TreeLinks
<1>3. lo.pre = g[i].pre /\ hi.pre = g[i].pre /\ eq.pre = Append(g[i].pre, ch[i])
  BY DEF At, Part
<1>4. Len(eq.pre) = d + 1
  BY <1>2, <1>3, PrefixIs
<1>5. Endings(N, ch, g, g[i]) = {e(n) : n \in Below(N, ch, g, g[i])}
  BY DEF Endings
<1>6. /\ Endings(N, ch, g, lo) = {e(n) : n \in Below(N, ch, g, lo)}
      /\ Endings(N, ch, g, hi) = {e(n) : n \in Below(N, ch, g, hi)}
  BY <1>3 DEF Endings
<1>7. Endings(N, ch, g, eq) = {<<Suffix(g[n].pre, d + 1), n>> : n \in Below(N, ch, g, eq)}
  BY <1>4 DEF Endings
<1>8. ASSUME ch[i] = 0 PROVE e(i) = <<<<>>, i>>
  <2>1. Len(g[i].pre) \in Nat
    BY <1>1, WordAndString
  <2>2. SubSeq(g[i].pre, d + 1, d) = <<>>
    BY <2>1, SubSeqEmpty
  <2>. QED
    BY <2>2 DEF Suffix
<1>9. ASSUME NEW n \in Below(N, ch, g, eq)
      PROVE  e(n) = <<<<ch[i]>> \o Suffix(g[n].pre, d + 1), n>>
  <2> DEFINE s == g[n].pre
             w == WordOf(ch, g, n)
  <2>1. n \in 1..N /\ In(eq, w)
    BY DEF Below, Ends
  <2>2. /\ s \in Seq(1..255) /\ Len(s) \in Nat /\ w \in Words /\ Len(w) = Len(s) + 1
        /\ \A j \in 1..Len(s) : w[j] = s[j]
    BY <1>1, <2>1, WordAndString
  <2>3. d + 1 < Len(w) /\ \A j \in 1..(d + 1) : w[j] = Append(g[i].pre, ch[i])[j]
    BY <1>3, <1>4, <2>1 DEF In
  <2>4. Append(g[i].pre, ch[i])[d + 1] = ch[i]
    BY <1>2, PrefixIs
  <2> HIDE DEF s, w, d
  <2>5. d + 1 \in 1..Len(s) /\ d + 1 \in 1..(d + 1)
    BY <1>2, <2>2, <2>3
  <2>6. s[d + 1] = ch[i]
    BY <2>2, <2>3, <2>4, <2>5
  <2>7. Splits(s, d, ch[i])
    BY <1>2, <2>2, <2>5, <2>6, SuffixSplits
  <2>. QED
    BY <2>7 DEF Splits, s
<1> HIDE DEF d, lo, hi, eq, e
<1>10. {<<<<ch[i]>> \o t[1], t[2]>> : t \in Endings(N, ch, g, eq)}
         = {e(n) : n \in Below(N, ch, g, eq)}
  <2>1. {<<<<ch[i]>> \o t[1], t[2]>> : t \in Endings(N, ch, g, eq)}
          = {<<<<ch[i]>> \o Suffix(g[n].pre, d + 1), n>> : n \in Below(N, ch, g, eq)}
    <3> DEFINE G(t) == <<<<ch[i]>> \o t[1], t[2]>>
               u(n) == <<Suffix(g[n].pre, d + 1), n>>
    <3>1. \A n : G(u(n)) = <<<<ch[i]>> \o Suffix(g[n].pre, d + 1), n>>
      OBVIOUS
    <3> HIDE DEF G, u
    <3>2. {G(t) : t \in {u(n) : n \in Below(N, ch, g, eq)}} = {G(u(n)) : n \in Below(N, ch, g, eq)}
      OBVIOUS
    <3>. QED
      BY <1>7, <3>1, <3>2 DEF G, u
  <2>. QED
    BY <2>1, <1>9
<1>11. Below(N, ch, g, g[i]) = Below(N, ch, g, lo) \cup Below(N, ch, g, hi)
           \cup (IF ch[i] = 0 THEN {i} ELSE Below(N, ch, g, eq))
  BY BelowNode DEF lo, hi, eq
<1>12. CASE ch[i] = 0
  <2>1. {e(n) : n \in Below(N, ch, g, g[i])}
          = {e(n) : n \in Below(N, ch, g, lo)} \cup {e(n) : n \in Below(N, ch, g, hi)} \cup {e(i)}
    BY <1>11, <1>12
  <2>. QED
    BY <1>5, <1>6, <1>8, <1>12, <2>1 DEF lo, hi
<1>13. CASE ch[i] # 0
  <2>1. {e(n) : n \in Below(N, ch, g, g[i])}
          = {e(n) : n \in Below(N, ch, g, lo)} \cup {e(n) : n \in Below(N, ch, g, hi)}
            \cup {e(n) : n \in Below(N, ch, g, eq)}
    BY <1>11, <1>13
  <2>. QED
    BY <1>5, <1>6, <1>10, <1>13, <2>1 DEF lo, hi, eq
<1>. QED
  BY <1>12, <1>13

\* So they solve the equation, and nothing else does: of the nodes at which
\* another solution differs, take the last, whose links lead to later ones.
LEMMA Solution ==
  ASSUME NEW N, NEW ch, NEW lk, NEW g, Tree(N, ch, lk, g)
  PROVE  LET F == [i \in 0..N |-> StringsBelow(N, ch, g, i)]
         IN  \A i \in 0..N : F[i] = Equation(ch, lk, F, i)
<1> DEFINE F == [i \in 0..N |-> StringsBelow(N, ch, g, i)]
<1>1. TreeTypes(N, ch, lk, g) /\ TreeLinks(N, ch, lk, g)
  BY DEF Tree
<1> SUFFICES ASSUME NEW i \in 0..N PROVE F[i] = Equation(ch, lk, F, i)
  OBVIOUS
<1>2. CASE i = 0
  BY <1>2 DEF Equation, StringsBelow, Null
<1>3. CASE i # 0
  <2>1. N \in Nat /\ i \in 1..N
    BY <1>1, <1>3 DEF TreeTypes
  <2>2. ASSUME NEW l \in Kid
        PROVE  F[lk[i][l]] = Endings(N, ch, g, At(ch, g, i, l))
    <3>1. lk[i][l] = Null \/ lk[i][l] \in 1..N
      BY <1>1, <2>1 DEF TreeLinks
    <3>2. lk[i][l] \in 0..N
      BY <2>1, <3>1 DEF Null
    <3>. QED
      BY <2>1, <3>2, BelowLink
  <2>3. "lo" \in Kid /\ "hi" \in Kid /\ "eq" \in Kid
    BY DEF Kid
  <2>4. F[i] = Endings(N, ch, g, g[i])
    BY <1>3 DEF StringsBelow, Null
  <2> HIDE DEF F
  <2>5. F[i] = Endings(N, ch, g, At(ch, g, i, "lo")) \cup Endings(N, ch, g, At(ch, g, i, "hi"))
           \cup (IF ch[i] = 0 THEN {<<<<>>, i>>}
                 ELSE {<<<<ch[i]>> \o t[1], t[2]>> : t \in Endings(N, ch, g, At(ch, g, i, "eq"))})
    BY <2>1, <2>4, EndingsOfNode
  <2>. QED
    BY <1>3, <2>2, <2>3, <2>5 DEF Equation, Null
<1>. QED
  BY <1>2, <1>3

LEMMA OneSolution ==
  ASSUME NEW N, NEW ch, NEW lk, NEW g, Tree(N, ch, lk, g), NEW f, NEW h,
         \A i \in 0..N : f[i] = Equation(ch, lk, f, i),
         \A i \in 0..N : h[i] = Equation(ch, lk, h, i)
  PROVE  \A i \in 0..N : f[i] = h[i]
<1>1. TreeTypes(N, ch, lk, g) /\ TreeLinks(N, ch, lk, g) /\ N \in Nat
  BY DEF Tree, TreeTypes
<1> DEFINE T == {k \in 0..N : f[N - k] # h[N - k]}
<1> SUFFICES ASSUME T # {} PROVE FALSE
  <2>1. ASSUME NEW i \in 0..N PROVE N - i \in 0..N /\ N - (N - i) = i
    BY <1>1
  <2>. QED
    BY <2>1
<1>2. PICK k \in T : \A x \in T : k <= x
  <2>1. T \in SUBSET Nat
    OBVIOUS
  <2> HIDE DEF T
  <2>. QED
    BY <2>1, LeastElement
<1> DEFINE i == N - k
<1>3. k \in 0..N /\ i \in 0..N /\ f[i] # h[i]
  BY <1>1
<1>4. \A j \in 0..N : j > i => f[j] = h[j]
  <2> SUFFICES ASSUME NEW j \in 0..N, j > i, f[j] # h[j] PROVE FALSE
    OBVIOUS
  <2>1. N - j \in 0..N /\ N - (N - j) = j /\ N - j < k
    BY <1>1, <1>3
  <2>2. N - j \in T
    BY <2>1
  <2> HIDE DEF T, i
  <2>. QED
    BY <1>2, <1>3, <2>1, <2>2
<1> HIDE DEF T, i
<1>10. f[0] = {} /\ h[0] = {}
  <2>1. 0 \in 0..N
    BY <1>1
  <2>. QED
    BY <2>1 DEF Equation, Null
<1>5. i # 0
  BY <1>3, <1>10
<1>6. i \in 1..N
  BY <1>1, <1>3, <1>5
<1>7. ASSUME NEW l \in Kid PROVE f[lk[i][l]] = h[lk[i][l]]
  <2>1. CASE lk[i][l] = Null
    BY <1>10, <2>1 DEF Null
  <2>2. CASE lk[i][l] # Null
    <3>1. lk[i][l] \in 1..N /\ lk[i][l] > i
      BY <1>1, <1>6, <2>2 DEF TreeLinks
    <3>. QED
      BY <1>1, <1>4, <3>1
  <2>. QED
    BY <2>1, <2>2
<1>8. "lo" \in Kid /\ "hi" \in Kid /\ "eq" \in Kid
  BY DEF Kid
<1>9. Equation(ch, lk, f, i) = Equation(ch, lk, h, i)
  BY <1>7, <1>8 DEF Equation
<1>. QED
  BY <1>3, <1>9
-----------------------------------------------------------------------------
(***************************************************************************)
(* The nodes in memory.  The union of a node at which a string ends is not *)
(* a link.                                                                 *)
(***************************************************************************)
Chars == [n \in 1..Len(mem) |-> mem[n].ch]

LinkTo(n, l) == CASE l = "lo" -> n.lo
                  [] l = "hi" -> n.hi
                  [] l = "eq" -> IF n.ch = 0 THEN Null ELSE n.eq

Links == [n \in 1..Len(mem) |-> [l \in Kid |-> LinkTo(mem[n], l)]]

MemTree(g) == Tree(Len(mem), Chars, Links, g)

Rooted == root = IF mem = <<>> THEN Null ELSE 1

KeysOf(g) == {g[n].pre : n \in Ends(Len(mem), Chars)}

LEMMA MemFacts ==
  ASSUME mem \in Seq(Node)
  PROVE  /\ Len(mem) \in Nat /\ DOMAIN mem = 1..Len(mem)
         /\ \A n \in 1..Len(mem) : mem[n] \in Node
BY LenProperties, ElementOfSeq

LEMMA StringsAre ==
  ASSUME mem \in Seq(Node), NEW g, MemTree(g), NEW i \in Pointers
  PROVE  Strings(i) = StringsBelow(Len(mem), Chars, g, i)
<1> DEFINE N == Len(mem)
           Q(f, k) == IF k = Null THEN {}
                      ELSE f[mem[k].lo] \cup f[mem[k].hi] \cup
                           (IF mem[k].ch = 0 THEN {<<<<>>, k>>}
                            ELSE {<<<<mem[k].ch>> \o t[1], t[2]>> : t \in f[mem[k].eq]})
           C == CHOOSE f : f = [k \in Pointers |-> Q(f, k)]
           F == [k \in 0..N |-> StringsBelow(N, Chars, g, k)]
<1>1. N \in Nat /\ Pointers = 0..N
  BY MemFacts DEF Pointers
<1>2. Strings(i) = C[i]
  BY DEF Strings
<1>3. ASSUME NEW f, NEW k \in 0..N PROVE Q(f, k) = Equation(Chars, Links, f, k)
  <2>1. CASE k = Null
    BY <2>1 DEF Equation
  <2>2. CASE k # Null
    <3>1. k \in 1..N
      BY <1>1, <2>2 DEF Null
    <3>2. Chars[k] = mem[k].ch
      BY <3>1 DEF Chars
    <3>3. /\ Links[k]["lo"] = mem[k].lo /\ Links[k]["hi"] = mem[k].hi
          /\ mem[k].ch # 0 => Links[k]["eq"] = mem[k].eq
      BY <3>1 DEF Links, LinkTo, Kid
    <3>. QED
      BY <2>2, <3>2, <3>3 DEF Equation
  <2>. QED
    BY <2>1, <2>2
<1> HIDE DEF Q
<1>4. \A k \in 0..N : F[k] = Equation(Chars, Links, F, k)
  BY Solution DEF MemTree
<1>5. F = [k \in Pointers |-> Q(F, k)]
  <2> DEFINE E == [k \in Pointers |-> Q(F, k)]
  <2>1. \A k \in 0..N : F[k] = Q(F, k)
    BY <1>3, <1>4
  <2>2. \A k \in Pointers : F[k] = E[k]
    BY <1>1, <2>1
  <2>. QED
    BY <1>1, <2>2
<1>6. C = [k \in Pointers |-> Q(C, k)]
  <2> HIDE DEF F
  <2>. QED
    BY <1>5, Zenon
<1> HIDE DEF C
<1>7. \A k \in 0..N : C[k] = Equation(Chars, Links, C, k)
  <2> DEFINE E == [k \in Pointers |-> Q(C, k)]
  <2>1. \A k \in Pointers : E[k] = Q(C, k)
    OBVIOUS
  <2>2. C = E
    BY <1>6
  <2> HIDE DEF E
  <2>. QED
    BY <1>1, <1>3, <2>1, <2>2
<1>8. \A k \in 0..N : C[k] = F[k]
  <2> HIDE DEF F
  <2>. QED
    BY <1>4, <1>7, OneSolution DEF MemTree
<1>. QED
  BY <1>1, <1>2, <1>8

\* The strings stored are those of the nodes at which one ends.
StoredRight == mem \in Seq(Node) /\ Rooted => \A g : MemTree(g) => Stored = KeysOf(g)

LEMMA StoredIs == StoredRight
<1> SUFFICES ASSUME mem \in Seq(Node), Rooted, NEW g, MemTree(g)
             PROVE  Stored = KeysOf(g)
  BY DEF StoredRight
<1> DEFINE N == Len(mem)
<1>1. N \in Nat /\ (mem = <<>> <=> N = 0)
  BY MemFacts, EmptySeq
<1>2. TreeTypes(N, Chars, Links, g) /\ TreeLinks(N, Chars, Links, g)
  BY DEF MemTree, Tree
<1>3. root \in Pointers
  BY <1>1 DEF Rooted, Pointers, Null
<1>4. Stored = {t[1] : t \in StringsBelow(N, Chars, g, root)}
  BY <1>3, StringsAre DEF Stored
<1>5. CASE mem = <<>>
  <2>1. root = Null /\ 1..N = {}
    BY <1>1, <1>5, SMT DEF Rooted, Null
  <2>. QED
    BY <1>4, <2>1 DEF StringsBelow, KeysOf, Ends
<1>6. CASE mem # <<>>
  <2>1. root = 1 /\ g[1] = Whole
    BY <1>1, <1>2, <1>6 DEF Rooted, TreeLinks
  <2>2. Whole.pre = <<>> /\ Len(Whole.pre) = 0 /\ Whole.lo = -1 /\ Whole.hi = 256
    BY EmptySeq DEF Whole
  <2>3. Below(N, Chars, g, Whole) = Ends(N, Chars)
    <3>1. ASSUME NEW n \in 1..N PROVE In(Whole, WordOf(Chars, g, n))
      <4> DEFINE w == WordOf(Chars, g, n)
      <4>1. w \in Words /\ Len(w) \in Nat /\ Len(w) > 0
        <5>1. Len(g[n].pre) \in Nat /\ w \in Words /\ Len(w) = Len(g[n].pre) + 1
          BY <1>2, WordAndString
        <5>. QED
          BY <5>1
      <4> HIDE DEF w
      <4>2. 1 \in 1..Len(w)
        BY <4>1
      <4>3. w[1] \in Symbol
        BY <4>1, <4>2, SymbolsOf
      <4>4. \A s \in Symbol : -1 < s /\ s < 256
        BY DEF Symbol
      <4>5. 0 + 1 = 1 /\ 1..0 = {}
        OBVIOUS
      <4>6. -1 < w[1] /\ w[1] < 256
        BY <4>3, <4>4
      <4>. QED
        BY <2>2, <4>1, <4>5, <4>6 DEF In, w
    <3>. QED
      BY <3>1 DEF Below, Ends
  <2>4. ASSUME NEW n \in Ends(N, Chars) PROVE Suffix(g[n].pre, Len(Whole.pre)) = g[n].pre
    <3>1. g[n].pre \in Seq(1..255)
      BY <1>2, WordAndString DEF Ends
    <3>2. SubSeq(g[n].pre, 1, Len(g[n].pre)) = g[n].pre
      BY <3>1, SubSeqFull
    <3>3. 0 + 1 = 1
      OBVIOUS
    <3>. QED
      BY <2>2, <3>2, <3>3 DEF Suffix
  <2>5. Stored = {t[1] : t \in {<<Suffix(g[n].pre, Len(Whole.pre)), n>> : n \in Ends(N, Chars)}}
    BY <1>4, <2>1, <2>3 DEF StringsBelow, Endings, Null
  <2>6. {t[1] : t \in {<<Suffix(g[n].pre, Len(Whole.pre)), n>> : n \in Ends(N, Chars)}}
          = {Suffix(g[n].pre, Len(Whole.pre)) : n \in Ends(N, Chars)}
    <3> DEFINE x(n) == Suffix(g[n].pre, Len(Whole.pre))
               u(n) == <<x(n), n>>
    <3>1. \A n : u(n)[1] = x(n)
      OBVIOUS
    <3> HIDE DEF u, x
    <3>2. {t[1] : t \in {u(n) : n \in Ends(N, Chars)}} = {u(n)[1] : n \in Ends(N, Chars)}
      OBVIOUS
    <3>3. {u(n)[1] : n \in Ends(N, Chars)} = {x(n) : n \in Ends(N, Chars)}
      BY <3>1
    <3>. QED
      BY <3>2, <3>3 DEF u, x
  <2>. QED
    BY <2>4, <2>5, <2>6 DEF KeysOf
<1>. QED
  BY <1>5, <1>6
-----------------------------------------------------------------------------
(***************************************************************************)
(* The search.  It follows the links whose regions hold the word of its    *)
(* string, and what is left of the string is what comes after the prefix of*)
(* the region reached.                                                     *)
(***************************************************************************)
KeyWord == Append(key, 0)

Reached(g) == IF ptr.link = "root" THEN Whole ELSE At(Chars, g, ptr.node, ptr.link)

PtrOK == \/ ptr = RootLink
         \/ /\ ptr.node \in 1..Len(mem) /\ ptr.link \in Kid
            /\ ptr.link = "eq" => mem[ptr.node].ch # 0

OnWay(g) == /\ key \in Keys
            /\ PtrOK
            /\ In(Reached(g), KeyWord)
            /\ rest = Suffix(key, Len(Reached(g).pre))

LEMMA KeyAndWord ==
  ASSUME NEW k \in Keys
  PROVE  /\ k \in Seq(1..255) /\ Len(k) \in Nat
         /\ Append(k, 0) \in Words /\ Len(Append(k, 0)) = Len(k) + 1
         /\ \A j \in 1..Len(k) : Append(k, 0)[j] = k[j] /\ k[j] \in 1..255
         /\ Append(k, 0)[Len(k) + 1] = 0
<1>1. k \in Seq(1..255)
  BY KeysAssumption
<1>2. k \in Seq(Symbol) /\ 0 \in Symbol
  BY <1>1, SeqMonotonic DEF Symbol
<1>3. \A j \in 1..Len(k) : k[j] \in 1..255
  BY <1>1, ElementOfSeq
<1>. QED
  BY <1>1, <1>2, <1>3, AppendProperties, LenProperties DEF Words

LEMMA KeyWordIs ==
  ASSUME key \in Keys
  PROVE  /\ key \in Seq(1..255) /\ Len(key) \in Nat
         /\ KeyWord \in Words /\ Len(KeyWord) = Len(key) + 1
         /\ \A j \in 1..Len(key) : KeyWord[j] = key[j] /\ key[j] \in 1..255
         /\ KeyWord[Len(key) + 1] = 0
BY KeyAndWord DEF KeyWord

\* The rest of the string after d symbols, and the symbol compared there.
CharAt(s, d, r, w) == /\ (IF r = <<>> THEN 0 ELSE Head(r)) = w[d + 1]
                      /\ (IF r = <<>> THEN <<>> ELSE Tail(r)) =
                           IF d < Len(s) THEN Suffix(s, d + 1) ELSE <<>>
                      /\ r = <<>> <=> d = Len(s)

LEMMA CharIs ==
  ASSUME key \in Keys, NEW d \in 0..Len(key), rest = Suffix(key, d)
  PROVE  CharAt(key, d, rest, KeyWord)
<1>1. /\ key \in Seq(1..255) /\ Len(key) \in Nat
      /\ \A j \in 1..Len(key) : KeyWord[j] = key[j]
      /\ KeyWord[Len(key) + 1] = 0
  BY KeyWordIs
<1>2. CASE d = Len(key)
  <2>1. Suffix(key, d) = <<>>
    BY <1>1, <1>2, SubSeqEmpty DEF Suffix
  <2>. QED
    BY <1>1, <1>2, <2>1 DEF CharAt
<1>3. CASE d < Len(key)
  <2>1. d + 1 \in 1..Len(key) /\ Len(key) \in (d + 1)..Len(key)
    BY <1>1, <1>3
  <2>2. /\ Head(SubSeq(key, d + 1, Len(key))) = key[d + 1]
        /\ Tail(SubSeq(key, d + 1, Len(key))) = SubSeq(key, (d + 1) + 1, Len(key))
    BY <1>1, <2>1, HeadTailOfSubSeq
  <2>3. SubSeq(key, d + 1, Len(key)) # <<>>
    <3>1. \A j \in (d + 1)..Len(key) : key[j] \in 1..255
      <4>1. \A j \in (d + 1)..Len(key) : j \in 1..Len(key)
        BY <1>1
      <4>. QED
        BY <4>1, KeyWordIs
    <3>2. Len(SubSeq(key, d + 1, Len(key))) = Len(key) - (d + 1) + 1
      BY <1>1, <1>3, <3>1, SubSeqProperties
    <3> DEFINE n == Len(key) - (d + 1) + 1
    <3>3. n # 0
      BY <1>1, <1>3
    <3> HIDE DEF n
    <3>. QED
      BY <3>2, <3>3, EmptySeq DEF n
  <2>4. KeyWord[d + 1] = key[d + 1] /\ d # Len(key)
    BY <1>1, <1>3, <2>1
  <2>. QED
    BY <1>3, <2>2, <2>3, <2>4 DEF CharAt, Suffix
<1>. QED
  BY <1>1, <1>2, <1>3

\* A search at a node: the word is in its region, and the symbol compared is the
\* one after the region's prefix.
LEMMA Arrived ==
  ASSUME mem \in Seq(Node), Rooted, NEW g, MemTree(g), OnWay(g), Here # Null
  PROVE  LET d == Len(g[Here].pre) IN
         /\ Here \in 1..Len(mem) /\ g[Here] = Reached(g)
         /\ g[Here] \in Region /\ Chars[Here] \in Symbol /\ Chars[Here] = mem[Here].ch
         /\ In(g[Here], KeyWord)
         /\ d \in 0..Len(key)
         /\ rest = Suffix(key, d)
         /\ CharAt(key, d, rest, KeyWord)
<1> DEFINE N == Len(mem)
<1>1. TreeTypes(N, Chars, Links, g) /\ TreeLinks(N, Chars, Links, g) /\ N \in Nat
  BY MemFacts DEF MemTree, Tree
<1>2. Here \in 1..N /\ g[Here] = Reached(g)
  <2>1. CASE ptr.link = "root"
    <3>1. Here = root /\ Reached(g) = Whole
      BY <2>1 DEF Here, Reached
    <3>2. root = 1 /\ N > 0
      BY <3>1, <1>1, EmptySeq DEF Rooted
    <3>. QED
      BY <1>1, <3>1, <3>2 DEF TreeLinks
  <2>2. CASE ptr.link # "root"
    <3>1. ptr.node \in 1..N /\ ptr.link \in Kid /\ (ptr.link = "eq" => mem[ptr.node].ch # 0)
      BY <2>2 DEF OnWay, PtrOK, RootLink
    <3>2. Here = Links[ptr.node][ptr.link]
      BY <2>2, <3>1 DEF Here, Links, LinkTo, Kid
    <3>3. Reached(g) = At(Chars, g, ptr.node, ptr.link)
      BY <2>2 DEF Reached
    <3>. QED
      BY <1>1, <3>1, <3>2, <3>3 DEF TreeLinks
  <2>. QED
    BY <2>1, <2>2
<1>3. g[Here] \in Region /\ Chars[Here] \in Symbol
  BY <1>1, <1>2, WordType
<1>4. Chars[Here] = mem[Here].ch
  BY <1>2 DEF Chars
<1>5. In(g[Here], KeyWord) /\ rest = Suffix(key, Len(g[Here].pre)) /\ key \in Keys
  BY <1>2 DEF OnWay
<1>6. Len(g[Here].pre) \in 0..Len(key)
  <2>1. Len(g[Here].pre) \in Nat
    BY <1>3, PrefixIs
  <2>2. Len(g[Here].pre) < Len(key) + 1 /\ Len(key) \in Nat
    BY <1>5, KeyWordIs DEF In
  <2>. QED
    BY <2>1, <2>2
<1>. QED
  BY <1>2, <1>3, <1>4, <1>5, <1>6, CharIs

\* It stays on the way of its word.
LEMMA SearchGoesOn ==
  ASSUME mem \in Seq(Node), Rooted, NEW g, MemTree(g), OnWay(g), Here # Null,
         Char # 0 \/ mem[Here].ch # 0,
         ptr' = LinkOf(Here, Side(Char, Here)),
         rest' = IF Side(Char, Here) = "eq" THEN After ELSE rest,
         mem' = mem, key' = key
  PROVE  OnWay(g)'
<1> DEFINE n == Here
           d == Len(g[n].pre)
           c == Chars[n]
           w == KeyWord
           l == Side(Char, n)
<1>1. /\ n \in 1..Len(mem) /\ g[n] \in Region /\ c \in Symbol /\ c = mem[n].ch
      /\ In(g[n], w) /\ d \in 0..Len(key) /\ rest = Suffix(key, d)
      /\ CharAt(key, d, rest, w)
  BY Arrived
<1>2. key \in Keys /\ w \in Words
  BY KeyWordIs DEF OnWay
<1>3. Char = w[d + 1] /\ After = IF d < Len(key) THEN Suffix(key, d + 1) ELSE <<>>
  BY <1>1 DEF Char, After, CharAt
<1>4. l = SideOf(w[d + 1], c) /\ l \in Kid
  BY <1>1, <1>3 DEF Side, SideOf, Kid
<1>5. Chars' = Chars
  BY DEF Chars
<1>6. ptr'.node = n /\ ptr'.link = l /\ l # "root"
  BY <1>4 DEF LinkOf, Kid
<1> HIDE DEF w, n, l
<1>7. Reached(g)' = Part(g[n], c, l)
  BY <1>5, <1>6 DEF Reached, At
<1>8. w' = w
  BY DEF w, KeyWord
<1>9. CASE l = "eq"
  <2>1. c # 0 /\ w[d + 1] = c
    BY <1>1, <1>3, <1>4, <1>9 DEF SideOf, n
  <2>2. d < Len(key) /\ Len(w) > d + 1
    <3>1. d # Len(key)
      BY <1>2, <2>1, KeyWordIs DEF w
    <3>2. Len(w) = Len(key) + 1 /\ Len(key) \in Nat
      BY <1>2, KeyWordIs DEF w
    <3>. QED
      BY <1>1, <3>1, <3>2
  <2>3. In(Part(g[n], c, l), w)
    BY <1>1, <1>2, <1>9, <2>1, <2>2, PartOf
  <2>4. rest' = Suffix(key, d + 1)
    BY <1>3, <1>9, <2>2 DEF l, n
  <2>5. Len(Part(g[n], c, l).pre) = d + 1
    BY <1>1, <1>9, PrefixIs DEF Part
  <2>6. PtrOK'
    BY <1>1, <1>4, <1>6, <2>1 DEF PtrOK
  <2>. QED
    BY <1>2, <1>7, <1>8, <2>3, <2>4, <2>5, <2>6 DEF OnWay, w
<1>10. CASE l # "eq"
  <2>1. w[d + 1] < c \/ w[d + 1] > c
    <3>1. w[d + 1] \in Nat
      <4>1. d < Len(w) /\ Len(w) \in Nat
        BY <1>1, <1>2, SymbolsOf DEF In
      <4>2. d + 1 \in 1..Len(w)
        BY <1>1, <4>1
      <4>. QED
        BY <1>2, <4>2, SymbolsOf
    <3>2. c \in Nat
      <4>1. \A x \in Symbol : x \in Nat
        BY DEF Symbol
      <4>. QED
        BY <1>1, <4>1
    <3>3. w[d + 1] # c
      BY <1>4, <1>10 DEF SideOf
    <3>. QED
      BY <3>1, <3>2, <3>3
  <2>2. In(Part(g[n], c, l), w)
    <3>1. CASE w[d + 1] < c
      <4>1. l = "lo"
        BY <1>4, <1>10, <3>1 DEF SideOf
      <4>. QED
        BY <1>1, <1>2, <3>1, <4>1, PartOf
    <3>2. CASE ~(w[d + 1] < c)
      <4>1. l = "hi"
        BY <1>4, <1>10, <3>2 DEF SideOf
      <4>. QED
        BY <1>1, <1>2, <2>1, <3>2, <4>1, PartOf
    <3>. QED
      BY <3>1, <3>2
  <2>3. rest' = Suffix(key, d)
    BY <1>1, <1>10 DEF l, n
  <2>4. Part(g[n], c, l).pre = g[n].pre
    BY <1>4, <1>10 DEF Part, Kid
  <2>5. PtrOK'
    BY <1>1, <1>4, <1>6, <1>10 DEF PtrOK
  <2>. QED
    BY <1>2, <1>7, <1>8, <2>2, <2>3, <2>4, <2>5 DEF OnWay, w
<1>. QED
  BY <1>9, <1>10

\* A string whose word goes with the key's up to the 0 is the key.
LEMMA WholeString ==
  ASSUME key \in Keys, NEW s \in Seq(1..255), Len(s) \in 0..Len(key),
         KeyWord[Len(s) + 1] = 0, \A j \in 1..Len(s) : KeyWord[j] = s[j]
  PROVE  s = key
<1> DEFINE d == Len(s)
<1>1. /\ key \in Seq(1..255) /\ Len(key) \in Nat
      /\ \A j \in 1..Len(key) : KeyWord[j] = key[j] /\ key[j] \in 1..255
  BY KeyWordIs
<1>2. d \in 0..Len(key) /\ KeyWord[d + 1] = 0
  OBVIOUS
<1> HIDE DEF d
<1>3. d = Len(key)
  <2>1. d < Len(key) => d + 1 \in 1..Len(key)
    BY <1>1, <1>2
  <2>2. ASSUME NEW j \in 1..Len(key) PROVE KeyWord[j] # 0
    <3>1. KeyWord[j] = key[j] /\ key[j] \in 1..255
      BY <1>1
    <3>2. \A x \in 1..255 : x # 0
      OBVIOUS
    <3>. QED
      BY <3>1, <3>2, Zenon
  <2>3. ~(d < Len(key))
    BY <1>2, <2>1, <2>2, Zenon
  <2>. QED
    BY <1>1, <1>2, <2>3
<1>4. \A j \in 1..Len(key) : s[j] = key[j]
  BY <1>1, <1>3 DEF d
<1>. QED
  BY <1>1, <1>3, <1>4, SeqEqual DEF d

\* A search that ends at a node finds the string of that node.
LEMMA SearchFinds ==
  ASSUME mem \in Seq(Node), Rooted, NEW g, MemTree(g), OnWay(g), Here # Null,
         Char = 0, mem[Here].ch = 0
  PROVE  key \in KeysOf(g)
<1> DEFINE n == Here
           d == Len(g[n].pre)
<1>1. /\ n \in 1..Len(mem) /\ Chars[n] = mem[n].ch
      /\ In(g[n], KeyWord) /\ d \in 0..Len(key)
      /\ CharAt(key, d, rest, KeyWord)
  BY Arrived
<1>2. key \in Keys
  BY DEF OnWay
<1>3. KeyWord[d + 1] = 0
  BY <1>1 DEF Char, CharAt
<1>4. g[n].pre \in Seq(1..255)
  BY <1>1 DEF MemTree, Tree, TreeTypes
<1>5. \A j \in 1..d : KeyWord[j] = g[n].pre[j]
  BY <1>1 DEF In
<1>6. g[n].pre = key
  BY <1>1, <1>2, <1>3, <1>4, <1>5, WholeString
<1>7. n \in Ends(Len(mem), Chars)
  BY <1>1 DEF Ends
<1>. QED
  BY <1>6, <1>7 DEF KeysOf

\* The link reached leads nowhere.
LEMMA ReachedFree ==
  ASSUME mem \in Seq(Node), NEW g, OnWay(g), Here = Null, ptr.link # "root"
  PROVE  /\ ptr.node \in 1..Len(mem) /\ ptr.link \in Kid
         /\ ptr.link = "eq" => Chars[ptr.node] # 0 /\ mem[ptr.node].ch # 0
         /\ Links[ptr.node][ptr.link] = Null
         /\ Reached(g) = At(Chars, g, ptr.node, ptr.link)
<1>1. ptr.node \in 1..Len(mem) /\ ptr.link \in Kid /\ (ptr.link = "eq" => mem[ptr.node].ch # 0)
  BY DEF OnWay, PtrOK, RootLink
<1>2. Here = Links[ptr.node][ptr.link]
  BY <1>1 DEF Here, Links, LinkTo, Kid
<1>3. Chars[ptr.node] = mem[ptr.node].ch
  BY <1>1 DEF Chars
<1>. QED
  BY <1>1, <1>2, <1>3 DEF Reached

\* A search that ends at a link is for a string that is not stored.
LEMMA SearchMisses ==
  ASSUME mem \in Seq(Node), Rooted, NEW g, MemTree(g), OnWay(g), Here = Null
  PROVE  key \notin KeysOf(g)
<1> SUFFICES ASSUME NEW m \in Ends(Len(mem), Chars), g[m].pre = key
             PROVE  FALSE
  BY DEF KeysOf
<1>1. m \in 1..Len(mem) /\ WordOf(Chars, g, m) = KeyWord
  BY DEF Ends, WordOf, KeyWord
<1>2. CASE ptr.link = "root"
  <2>1. root = Null
    BY <1>2 DEF Here
  <2>2. mem = <<>>
    BY <2>1 DEF Rooted, Null
  <2>3. Len(mem) = 0
    BY <2>2, EmptySeq
  <2>. QED
    BY <1>1, <2>3
<1>3. CASE ptr.link # "root"
  <2>1. /\ ptr.node \in 1..Len(mem) /\ ptr.link \in Kid
        /\ Links[ptr.node][ptr.link] = Null
        /\ In(At(Chars, g, ptr.node, ptr.link), WordOf(Chars, g, m))
    BY <1>1, <1>3, ReachedFree DEF OnWay
  <2>2. FreeOfNodes(Len(mem), Chars, Links, g)
    BY DEF MemTree, Tree
  <2>. QED
    BY <1>1, <2>1, <2>2 DEF FreeOfNodes
<1>. QED
  BY <1>2, <1>3
-----------------------------------------------------------------------------
(***************************************************************************)
(* A node is added where the search ended.                                 *)
(***************************************************************************)
LEMMA LinkSet ==
  ASSUME NEW p \in Node, NEW l \in Kid, NEW x \in Nat
  PROVE  LET p2 == [p EXCEPT ![l] = x]
         IN  /\ p2 \in Node /\ p2.ch = p.ch /\ p2.up = p.up
             /\ p2.lo = IF l = "lo" THEN x ELSE p.lo
             /\ p2.hi = IF l = "hi" THEN x ELSE p.hi
             /\ p2.eq = IF l = "eq" THEN x ELSE p.eq
<1>1. CASE l = "lo"
  BY <1>1 DEF Node
<1>2. CASE l = "hi"
  BY <1>2 DEF Node
<1>3. CASE l = "eq"
  BY <1>3 DEF Node
<1>. QED
  BY <1>1, <1>2, <1>3 DEF Kid

\* What Grow does to the memory.
LinkedMem(n) == IF ptr.link = "root" THEN mem ELSE [mem EXCEPT ![ptr.node][ptr.link] = n]

LEMMA LinkedMemIs ==
  ASSUME mem \in Seq(Node), PtrOK, NEW x \in Nat
  PROVE  /\ LinkedMem(x) \in Seq(Node) /\ Len(LinkedMem(x)) = Len(mem)
         /\ \A k \in 1..Len(mem) :
              LinkedMem(x)[k] = IF ptr.link # "root" /\ k = ptr.node
                                  THEN [mem[k] EXCEPT ![ptr.link] = x] ELSE mem[k]
<1>1. CASE ptr.link = "root"
  BY <1>1 DEF LinkedMem
<1>2. CASE ptr.link # "root"
  <2> DEFINE i == ptr.node
             p == [mem[i] EXCEPT ![ptr.link] = x]
  <2>1. i \in 1..Len(mem) /\ ptr.link \in Kid
    BY <1>2 DEF PtrOK, RootLink
  <2>2. mem[i] \in Node
    BY <2>1, MemFacts
  <2>3. p \in Node
    BY <2>1, <2>2, LinkSet
  <2>4. LinkedMem(x) = [mem EXCEPT ![i] = p]
    BY <1>2 DEF LinkedMem
  <2> HIDE DEF p
  <2>5. /\ [mem EXCEPT ![i] = p] \in Seq(Node) /\ Len([mem EXCEPT ![i] = p]) = Len(mem)
        /\ \A j \in 1..Len(mem) : [mem EXCEPT ![i] = p][j] = IF j = i THEN p ELSE mem[j]
    BY <2>1, <2>3, ExceptSeq
  <2>. QED
    BY <1>2, <2>4, <2>5 DEF p
<1>. QED
  BY <1>1, <1>2

LEMMA GrownMem ==
  ASSUME mem \in Seq(Node), PtrOK, NEW new \in Node, new.lo = Null, new.hi = Null,
         new.ch # 0 => new.eq = Null,
         ptr.link = "eq" => mem[ptr.node].ch # 0,
         mem' = Append(LinkedMem(Len(mem) + 1), new)
  PROVE  LET N == Len(mem) IN
         /\ mem' \in Seq(Node) /\ Len(mem') = N + 1 /\ mem'[N + 1] = new
         /\ \A k \in 1..N :
              mem'[k] = IF ptr.link # "root" /\ k = ptr.node
                          THEN [mem[k] EXCEPT ![ptr.link] = N + 1] ELSE mem[k]
         /\ Chars' = Added(N, Chars, new.ch)
         /\ ptr.link # "root" => Links' = Linked(N, Links, ptr.node, ptr.link)
         /\ N = 0 => Links' = Added(0, <<>>, NoKids)
<1> DEFINE N == Len(mem)
           M == LinkedMem(N + 1)
<1>1. N \in Nat /\ N + 1 \in Nat
  BY MemFacts
<1>2. /\ M \in Seq(Node) /\ Len(M) = N
      /\ \A k \in 1..N : M[k] = IF ptr.link # "root" /\ k = ptr.node
                                  THEN [mem[k] EXCEPT ![ptr.link] = N + 1] ELSE mem[k]
  <2> HIDE DEF N
  <2>1. N + 1 \in Nat
    BY <1>1
  <2>. QED
    BY <2>1, LinkedMemIs DEF N
<1>3. mem' = Append(M, new)
  OBVIOUS
<1> HIDE DEF M, N
<1>4. mem' \in Seq(Node) /\ Len(mem') = N + 1 /\ mem'[N + 1] = new
      /\ \A k \in 1..N : mem'[k] = M[k]
  <2>1. /\ Append(M, new) \in Seq(Node) /\ Len(Append(M, new)) = Len(M) + 1
        /\ \A k \in 1..Len(M) : Append(M, new)[k] = M[k]
        /\ Append(M, new)[Len(M) + 1] = new
    BY <1>2, AppendProperties
  <2>. QED
    BY <1>2, <1>3, <2>1
<1>5. \A k \in 1..N : mem'[k] = IF ptr.link # "root" /\ k = ptr.node
                                  THEN [mem[k] EXCEPT ![ptr.link] = N + 1] ELSE mem[k]
  BY <1>2, <1>4
<1>6. \A k \in 1..(N + 1) : k \in 1..N \/ k = N + 1
  BY <1>1
<1>7. \A k \in 1..N : k # N + 1 /\ k \in 1..(N + 1)
  BY <1>1
<1>8. ASSUME NEW k \in 1..N
      PROVE  /\ mem[k] \in Node /\ mem'[k].ch = mem[k].ch
             /\ \A l \in Kid : LinkTo(mem'[k], l) =
                  IF ptr.link # "root" /\ k = ptr.node /\ l = ptr.link
                    THEN N + 1 ELSE LinkTo(mem[k], l)
  <2>1. mem[k] \in Node
    BY MemFacts DEF N
  <2>2. CASE ptr.link # "root" /\ k = ptr.node
    <3> DEFINE p2 == [mem[k] EXCEPT ![ptr.link] = N + 1]
    <3>1. ptr.link \in Kid
      BY <2>2 DEF PtrOK, RootLink
    <3>2. /\ p2 \in Node /\ p2.ch = mem[k].ch
          /\ p2.lo = IF ptr.link = "lo" THEN N + 1 ELSE mem[k].lo
          /\ p2.hi = IF ptr.link = "hi" THEN N + 1 ELSE mem[k].hi
          /\ p2.eq = IF ptr.link = "eq" THEN N + 1 ELSE mem[k].eq
      BY <1>1, <2>1, <3>1, LinkSet
    <3>3. mem'[k] = p2
      BY <1>5, <2>2
    <3> HIDE DEF p2
    <3>4. ptr.link = "eq" => mem[k].ch # 0
      BY <2>2
    <3>5. \A l \in Kid : LinkTo(p2, l) = IF l = ptr.link THEN N + 1 ELSE LinkTo(mem[k], l)
      BY <3>1, <3>2, <3>4 DEF LinkTo, Kid
    <3>. QED
      BY <2>1, <2>2, <3>2, <3>3, <3>5
  <2>3. CASE ~(ptr.link # "root" /\ k = ptr.node)
    <3>1. mem'[k] = mem[k]
      BY <1>5, <2>3
    <3>. QED
      BY <2>1, <2>3, <3>1
  <2>. QED
    BY <2>2, <2>3
<1>9. Chars' = Added(N, Chars, new.ch)
  <2>1. Chars' = [n \in 1..(N + 1) |-> mem'[n].ch]
    BY <1>4 DEF Chars
  <2>2. \A n \in 1..N : Chars[n] = mem[n].ch
    BY DEF Chars, N
  <2>3. \A n \in 1..(N + 1) : mem'[n].ch = IF n = N + 1 THEN new.ch ELSE Chars[n]
    BY <1>4, <1>6, <1>7, <1>8, <2>2
  <2>. QED
    BY <2>1, <2>3 DEF Added
<1>10. Links' = [n \in 1..(N + 1) |-> [l \in Kid |-> LinkTo(mem'[n], l)]]
  BY <1>4 DEF Links
<1>11. [l \in Kid |-> LinkTo(mem'[N + 1], l)] = NoKids
  <2>1. \A l \in Kid : LinkTo(new, l) = Null
    BY DEF LinkTo, Kid
  <2>. QED
    BY <1>4, <2>1 DEF NoKids
<1>12. ASSUME ptr.link # "root" PROVE Links' = Linked(N, Links, ptr.node, ptr.link)
  <2> DEFINE f == [n \in 1..N |-> IF n = ptr.node
                                    THEN [l \in Kid |-> IF l = ptr.link THEN N + 1 ELSE Links[n][l]]
                                    ELSE Links[n]]
  <2>1. \A n \in 1..N : Links[n] = [l \in Kid |-> LinkTo(mem[n], l)]
    BY DEF Links, N
  <2>2. \A n \in 1..N : [l \in Kid |-> LinkTo(mem'[n], l)] = f[n]
    <3> TAKE n \in 1..N
    <3>1. \A l \in Kid : LinkTo(mem'[n], l) = IF n = ptr.node /\ l = ptr.link
                                                THEN N + 1 ELSE Links[n][l]
      <4>1. \A l \in Kid : Links[n][l] = LinkTo(mem[n], l)
        BY <2>1
      <4> HIDE DEF f
      <4>. QED
        BY <1>8, <1>12, <4>1
    <3>2. CASE n = ptr.node
      BY <3>1, <3>2
    <3>3. CASE n # ptr.node
      <4>1. \A l \in Kid : LinkTo(mem'[n], l) = LinkTo(mem[n], l)
        BY <1>8, <3>3
      <4>. QED
        BY <2>1, <3>3, <4>1
    <3>. QED
      BY <3>2, <3>3
  <2>3. Linked(N, Links, ptr.node, ptr.link)
          = [n \in 1..(N + 1) |-> IF n = N + 1 THEN NoKids ELSE f[n]]
    BY DEF Linked, Added
  <2> HIDE DEF f
  <2>4. \A n \in 1..(N + 1) : [l \in Kid |-> LinkTo(mem'[n], l)] =
                                IF n = N + 1 THEN NoKids ELSE f[n]
    BY <1>6, <1>7, <1>11, <2>2
  <2>. QED
    BY <1>10, <2>3, <2>4
<1>13. ASSUME N = 0 PROVE Links' = Added(0, <<>>, NoKids)
  <2>1. \A n \in 1..(0 + 1) : n = 0 + 1
    OBVIOUS
  <2>. QED
    BY <1>10, <1>11, <1>13, <2>1 DEF Added
<1>. QED
  BY <1>4, <1>5, <1>9, <1>12, <1>13 DEF N

\* The region a search has reached.
LEMMA ReachedIs ==
  ASSUME mem \in Seq(Node), NEW g, MemTree(g), OnWay(g)
  PROVE  LET d == Len(Reached(g).pre) IN
         /\ Reached(g) \in Region /\ d \in 0..Len(key)
         /\ CharAt(key, d, rest, KeyWord)
         /\ Char = KeyWord[d + 1] /\ Char \in Symbol
         /\ Reached(g).lo < Char /\ Char < Reached(g).hi
<1> DEFINE d == Len(Reached(g).pre)
<1>1. TreeTypes(Len(mem), Chars, Links, g) /\ TreeLinks(Len(mem), Chars, Links, g)
  BY DEF MemTree, Tree
<1>2. Reached(g) \in Region
  <2>1. CASE ptr.link = "root"
    <3>1. Whole \in Region
      BY EmptySeq DEF Whole, Region, Words
    <3>. QED
      BY <2>1, <3>1 DEF Reached
  <2>2. CASE ptr.link # "root"
    <3>1. ptr.node \in 1..Len(mem) /\ ptr.link \in Kid
      BY <2>2 DEF OnWay, PtrOK, RootLink
    <3>. QED
      BY <1>1, <2>2, <3>1, LinkRegion DEF Reached
  <2>. QED
    BY <2>1, <2>2
<1>3. key \in Keys /\ In(Reached(g), KeyWord) /\ rest = Suffix(key, d)
  BY DEF OnWay
<1>4. /\ KeyWord \in Words /\ Len(KeyWord) = Len(key) + 1 /\ Len(key) \in Nat
      /\ d \in Nat
  BY <1>2, <1>3, KeyWordIs, PrefixIs
<1>5. d < Len(KeyWord)
  BY <1>3 DEF In
<1> HIDE DEF d
<1>6. d \in 0..Len(key) /\ d + 1 \in 1..Len(KeyWord)
  BY <1>4, <1>5
<1>7. CharAt(key, d, rest, KeyWord)
  BY <1>3, <1>6, CharIs
<1>8. Char = KeyWord[d + 1]
  BY <1>7 DEF Char, CharAt
<1>9. KeyWord[d + 1] \in Symbol
  BY <1>4, <1>6, SymbolsOf
<1>. QED
  BY <1>2, <1>3, <1>6, <1>7, <1>8, <1>9 DEF d, In

LEMMA TreeGrows ==
  ASSUME mem \in Seq(Node), Rooted, NEW g, MemTree(g), OnWay(g), Here = Null,
         NEW new \in Node, new.ch = Char, new.lo = Null, new.hi = Null,
         Char # 0 => new.eq = Null,
         root' = IF ptr.link = "root" THEN Len(mem) + 1 ELSE root,
         mem' = Append(LinkedMem(Len(mem) + 1), new),
         NEW G, G = Added(Len(mem), g, Reached(g))
  PROVE  /\ MemTree(G)' /\ Rooted'
         /\ KeysOf(G)' = IF Char = 0 THEN KeysOf(g) \cup {key} ELSE KeysOf(g)
         /\ (Char # 0 /\ ptr' = LinkOf(Len(mem) + 1, "eq") /\ rest' = After /\ key' = key)
            => OnWay(G)'
<1> DEFINE N == Len(mem)
           r == Reached(g)
           d == Len(r.pre)
<1>1. /\ r \in Region /\ d \in 0..Len(key) /\ CharAt(key, d, rest, KeyWord)
      /\ Char = KeyWord[d + 1] /\ Char \in Symbol /\ r.lo < Char /\ Char < r.hi
  BY ReachedIs
<1>2. /\ key \in Keys /\ PtrOK /\ In(r, KeyWord) /\ KeyWord \in Words
      /\ Len(KeyWord) = Len(key) + 1 /\ Len(key) \in Nat
  BY KeyWordIs DEF OnWay
<1>3. N \in Nat /\ Tree(N, Chars, Links, g)
  BY MemFacts DEF MemTree
<1>4. ptr.link = "eq" => mem[ptr.node].ch # 0
  BY ReachedFree
<1>5. /\ mem' \in Seq(Node) /\ Len(mem') = N + 1
      /\ Chars' = Added(N, Chars, Char)
      /\ ptr.link # "root" => Links' = Linked(N, Links, ptr.node, ptr.link)
      /\ N = 0 => Links' = Added(0, <<>>, NoKids)
  BY <1>2, <1>4, GrownMem
<1>6. mem' # <<>>
  <2> DEFINE n2 == N + 1
  <2>1. n2 # 0 /\ Len(mem') = n2
    BY <1>3, <1>5
  <2> HIDE DEF n2
  <2>. QED
    BY <2>1, EmptySeq
<1> HIDE DEF r, d, N
<1>7. MemTree(G)' /\ Rooted'
  <2>1. CASE ptr.link = "root"
    <3>1. mem = <<>> /\ r = Whole
      BY <2>1 DEF Here, Rooted, Null, r, Reached
    <3>2. N = 0
      BY <3>1, EmptySeq DEF N
    <3>3. d = 0 /\ Char = KeyWord[1]
      <4>1. d = 0
        BY <3>1, EmptySeq DEF Whole, d
      <4>2. 0 + 1 = 1
        OBVIOUS
      <4>. QED
        BY <1>1, <4>1, <4>2
    <3>4. Tree(1, Added(0, <<>>, KeyWord[1]), Added(0, <<>>, NoKids), Added(0, <<>>, Whole))
      BY <1>2, <3>1, FirstNode
    <3>5. /\ Added(0, Chars, Char) = Added(0, <<>>, KeyWord[1])
          /\ Added(0, g, Whole) = Added(0, <<>>, Whole)
      <4>1. \A n \in 1..(0 + 1) : n = 0 + 1
        OBVIOUS
      <4>. QED
        BY <3>3, <4>1 DEF Added
    <3>6. Len(mem') = 1 /\ root' = 1
      BY <1>5, <2>1, <3>2 DEF N
    <3>. QED
      BY <1>5, <1>6, <3>1, <3>2, <3>4, <3>5, <3>6 DEF MemTree, Rooted, N, r
  <2>2. CASE ptr.link # "root"
    <3>1. /\ ptr.node \in 1..N /\ ptr.link \in Kid
          /\ ptr.link = "eq" => Chars[ptr.node] # 0
          /\ Links[ptr.node][ptr.link] = Null
          /\ r = At(Chars, g, ptr.node, ptr.link)
      BY <2>2, ReachedFree DEF N, r
    <3>2. Tree(N + 1, Added(N, Chars, KeyWord[d + 1]), Linked(N, Links, ptr.node, ptr.link),
               Added(N, g, r))
      BY <1>2, <1>3, <3>1, NodeAdded DEF d
    <3>3. MemTree(G)'
      BY <1>1, <1>5, <2>2, <3>2 DEF MemTree, N, r
    <3>4. mem # <<>>
      BY <3>1, EmptySeq DEF N
    <3>. QED
      BY <1>6, <2>2, <3>3, <3>4 DEF Rooted
  <2>. QED
    BY <2>1, <2>2
<1>8. /\ \A n \in 1..N : G[n] = g[n] /\ Chars'[n] = Chars[n]
      /\ G[N + 1] = r /\ Chars'[N + 1] = Char
      /\ N + 1 \in 1..(N + 1)
      /\ \A n \in 1..(N + 1) : n \in 1..N \/ n = N + 1
      /\ \A n \in 1..N : n \in 1..(N + 1)
  <2>1. /\ \A n \in 1..N : n # N + 1 /\ n \in 1..(N + 1)
        /\ N + 1 \in 1..(N + 1)
        /\ \A n \in 1..(N + 1) : n \in 1..N \/ n = N + 1
    BY <1>3
  <2>2. G = Added(N, g, r)
    BY DEF N, r
  <2>. QED
    BY <1>5, <2>1, <2>2 DEF Added
<1>9. Ends(N + 1, Chars') = Ends(N, Chars) \cup (IF Char = 0 THEN {N + 1} ELSE {})
  BY <1>8 DEF Ends
<1>10. KeysOf(G)' = {G[n].pre : n \in Ends(N + 1, Chars')}
  BY <1>5 DEF KeysOf
<1>11. {G[n].pre : n \in Ends(N, Chars)} = KeysOf(g)
  BY <1>8 DEF KeysOf, Ends, N
<1>12. ASSUME Char = 0 PROVE r.pre = key
  <2>1. r.pre \in Seq(1..255)
    <3>1. TreeTypes(N + 1, Chars', Links', G)
      BY <1>5, <1>7 DEF MemTree, Tree
    <3>. QED
      BY <1>8, <3>1 DEF TreeTypes
  <2>2. \A j \in 1..d : KeyWord[j] = r.pre[j]
    BY <1>2 DEF In, d
  <2>. QED
    BY <1>1, <1>2, <1>12, <2>1, <2>2, WholeString DEF d
<1>13. KeysOf(G)' = IF Char = 0 THEN KeysOf(g) \cup {key} ELSE KeysOf(g)
  <2>1. CASE Char = 0
    <3>1. {G[n].pre : n \in Ends(N, Chars) \cup {N + 1}}
            = {G[n].pre : n \in Ends(N, Chars)} \cup {G[N + 1].pre}
      OBVIOUS
    <3>. QED
      BY <1>8, <1>9, <1>10, <1>11, <1>12, <2>1, <3>1
  <2>2. CASE Char # 0
    BY <1>9, <1>10, <1>11, <2>2
  <2>. QED
    BY <2>1, <2>2
<1>14. ASSUME Char # 0, ptr' = LinkOf(N + 1, "eq"), rest' = After, key' = key
       PROVE  OnWay(G)'
  <2>1. ptr'.node = N + 1 /\ ptr'.link = "eq" /\ KeyWord' = KeyWord
    BY <1>14 DEF LinkOf, KeyWord
  <2>2. Reached(G)' = Part(r, Char, "eq")
    BY <1>8, <2>1 DEF Reached, At
  <2>3. d < Len(key) /\ d + 1 < Len(KeyWord)
    <3>1. d # Len(key)
      BY <1>1, <1>2, <1>14, KeyWordIs
    <3>. QED
      BY <1>1, <1>2, <3>1
  <2>4. In(Part(r, Char, "eq"), KeyWord)
    BY <1>1, <1>2, <2>3, PartOf DEF d
  <2>5. Len(Part(r, Char, "eq").pre) = d + 1
    BY <1>1, PrefixIs DEF Part, d
  <2>6. rest' = Suffix(key, d + 1)
    BY <1>1, <1>14, <2>3 DEF After, CharAt
  <2>7. PtrOK'
    <3>1. mem'[N + 1].ch # 0
      BY <1>5, <1>8, <1>14 DEF Chars
    <3>. QED
      BY <1>5, <1>8, <2>1, <3>1 DEF PtrOK, Kid
  <2>. QED
    BY <1>2, <1>14, <2>1, <2>2, <2>4, <2>5, <2>6, <2>7 DEF OnWay
<1>. QED
  BY <1>7, <1>13, <1>14 DEF N
-----------------------------------------------------------------------------
(***************************************************************************)
(* The invariant: the nodes are a tree, a search is on the way of its word,*)
(* and the calls of the printer are at nodes.                              *)
(***************************************************************************)
Searching == pc \in {"walk", "grow", "lookup", "nomem"}

Frame == [node : 1..Len(mem), at : {"lo", "self", "pop", "hi"}]

PrinterOK == /\ pc = "print" => frames \in Seq(Frame)
             /\ pc = "climb" => q \in 1..Len(mem)

\* The value of a new line is set at its last node.
PutOK == ~Elems /\ Here \in 1..Len(mem) /\ mem[Here].ch = 0

SearchOK == \E g : MemTree(g) /\ (Searching => OnWay(g))

TrieInv == /\ TypeOK
           /\ PrinterOK
           /\ Rooted
           /\ pc = "grow" => Here = Null
           /\ pc = "put" => PutOK
           /\ SearchOK

LEMMA SameMem ==
  ASSUME mem' = mem, root' = root
  PROVE  /\ \A g : MemTree(g)' = MemTree(g)
         /\ Rooted' = Rooted
         /\ \A g : KeysOf(g)' = KeysOf(g)
<1>1. Chars' = Chars /\ Links' = Links
  BY DEF Chars, Links
<1>. QED
  BY <1>1 DEF MemTree, Rooted, KeysOf

\* No string is stored at first.
LEMMA EmptyTree == ASSUME mem = <<>> PROVE MemTree(<<>>) /\ KeysOf(<<>>) = {}
<1>1. Len(mem) = 0
  BY EmptySeq
<1>2. Chars = <<>> /\ Links = <<>>
  BY <1>1 DEF Chars, Links
<1>3. Tree(0, <<>>, <<>>, <<>>)
  <2>1. 1..0 = {}
    OBVIOUS
  <2>. QED
    BY <2>1 DEF Tree, TreeTypes, TreeLinks, WordsDiffer, FreeOfNodes, FreeApart
<1>4. KeysOf(<<>>) = {}
  BY <1>1 DEF KeysOf, Ends
<1>. QED
  BY <1>1, <1>2, <1>3, <1>4 DEF MemTree

LEMMA TrieInit == Init => TrieInv
<1> SUFFICES ASSUME Init PROVE TrieInv
  OBVIOUS
<1>1. mem = <<>> /\ root = Null /\ pc = "idle"
  BY DEF Init
<1>2. Len(mem) = 0 /\ DOMAIN mem = {} /\ <<>> \in Seq(Node) /\ <<>> \in Seq(1..255)
  BY <1>1, EmptySeq
<1>3. TypeOK
  BY <1>1, <1>2, KeysAssumption DEF Init, TypeOK, Pointers, Null, NoResult
<1>4. SearchOK
  BY <1>1, EmptyTree DEF SearchOK, Searching
<1>. QED
  BY <1>1, <1>3, <1>4 DEF TrieInv, PrinterOK, Rooted

\* A search starts with its whole string at the root.
LEMMA SearchStarts ==
  ASSUME NEW k \in Keys, key' = k, rest' = k, ptr' = RootLink
  PROVE  \A g : OnWay(g)'
<1> SUFFICES ASSUME NEW g PROVE OnWay(g)'
  OBVIOUS
<1>2. PtrOK' /\ Reached(g)' = Whole
  BY DEF PtrOK, Reached, RootLink
<1>3. Whole.pre = <<>> /\ Len(Whole.pre) = 0 /\ Whole.lo = -1 /\ Whole.hi = 256
  BY EmptySeq DEF Whole
<1> DEFINE w == Append(k, 0)
<1>4. w \in Words /\ Len(w) = Len(k) + 1 /\ k \in Seq(1..255) /\ Len(k) \in Nat
  BY KeyAndWord
<1> HIDE DEF w
<1>5. In(Whole, w)
  <2>1. 1 \in 1..Len(w) /\ 0 < Len(w)
    BY <1>4
  <2>2. w[1] \in Symbol
    BY <1>4, <2>1, SymbolsOf
  <2>3. \A s \in Symbol : -1 < s /\ s < 256
    BY DEF Symbol
  <2>4. -1 < w[1] /\ w[1] < 256
    BY <2>2, <2>3
  <2>5. 0 + 1 = 1 /\ 1..0 = {}
    OBVIOUS
  <2>. QED
    BY <1>3, <2>1, <2>4, <2>5 DEF In
<1>6. k = Suffix(k, Len(Whole.pre))
  <2>1. SubSeq(k, 1, Len(k)) = k
    BY <1>4, SubSeqFull
  <2>2. 0 + 1 = 1
    OBVIOUS
  <2>. QED
    BY <1>3, <2>1, <2>2 DEF Suffix
<1>. QED
  BY <1>2, <1>5, <1>6 DEF OnWay, KeyWord, w

LEMMA StepCall ==
  ASSUME TrieInv, NEW k \in Keys, CallInsert(k) \/ CallLookup(k)
  PROVE  TrieInv'
<1>1. /\ key' = k /\ rest' = k /\ ptr' = RootLink /\ up' = Null /\ base' = Null
      /\ ret' = NoResult /\ pc' \in {"walk", "lookup"}
      /\ mem' = mem /\ root' = root /\ UNCHANGED <<build, printer>>
  BY DEF Call, CallInsert, CallLookup
<1>2. TypeOK /\ inserts' \in 0..MaxInserts /\ inserts <= inserts' /\ inserts \in Nat
  BY KeysAssumption DEF TrieInv, TypeOK, CallInsert, CallLookup
<1>3. TypeOK'
  <2>1. k \in Seq(1..255)
    BY KeysAssumption
  <2>. QED
    BY <1>1, <1>2, <2>1 DEF TypeOK, Pointers, Elems, printer, NoResult, Null
<1>4. Rooted'
  BY <1>1, SameMem DEF TrieInv
<1>5. SearchOK'
  <2>1. PICK g : MemTree(g)
    BY DEF TrieInv, SearchOK
  <2>2. MemTree(g)' /\ OnWay(g)'
    BY <1>1, <2>1, SameMem, SearchStarts
  <2>. QED
    BY <2>2 DEF SearchOK
<1>6. PrinterOK'
  BY <1>1 DEF PrinterOK
<1>. QED
  BY <1>1, <1>3, <1>4, <1>5, <1>6 DEF TrieInv

LEMMA SameStored ==
  ASSUME mem' = mem, root' = root
  PROVE  Stored' = Stored
BY DEF Stored, Strings, Pointers

\* A step of the search at a node.
LEMMA StepDown ==
  ASSUME TrieInv, WalkNext \/ LookupNext
  PROVE  TrieInv'
<1>1. /\ Searching /\ pc # "nomem" /\ Here # Null
      /\ Char # 0 \/ mem[Here].ch # 0
      /\ ptr' = LinkOf(Here, Side(Char, Here))
      /\ rest' = IF Side(Char, Here) = "eq" THEN After ELSE rest
      /\ UNCHANGED <<build, mem, root, pc, key, inserts, ret, printer>>
  BY DEF WalkNext, LookupNext, Searching
<1>2. TypeOK /\ Rooted /\ mem \in Seq(Node)
  BY DEF TrieInv, TypeOK
<1>3. PICK g : MemTree(g) /\ OnWay(g)
  BY <1>1 DEF TrieInv, SearchOK
<1>4. Here \in 1..Len(mem)
  BY <1>1, <1>2, <1>3, Arrived
<1>5. MemTree(g)' /\ OnWay(g)'
  BY <1>1, <1>2, <1>3, SameMem, SearchGoesOn
<1>6. Len(mem) \in Nat /\ DOMAIN mem = 1..Len(mem)
  BY <1>2, MemFacts
<1>7. up' \in {up, Here} /\ base' \in {base, Here}
  BY DEF WalkNext, LookupNext
<1>8. up' \in Pointers /\ base' \in Pointers
  <2>1. Here \in Pointers
    BY <1>4, <1>6 DEF Pointers
  <2>. QED
    BY <1>2, <1>7, <2>1 DEF TypeOK
<1>9. rest' \in Seq(1..255)
  <2>1. rest \in Seq(1..255)
    BY <1>2 DEF TypeOK
  <2>2. After \in Seq(1..255)
    BY <2>1, HeadTailProperties DEF After
  <2>. QED
    BY <1>1, <2>1, <2>2
<1>10. ptr'.node \in DOMAIN mem /\ ptr'.link \in {"lo", "hi", "eq"}
  BY <1>1, <1>4, <1>6 DEF LinkOf, Side
<1>11. TypeOK'
  BY <1>1, <1>2, <1>8, <1>9, <1>10 DEF TypeOK, Pointers, Elems, printer
<1>12. Rooted'
  BY <1>1, <1>2, SameMem
<1>13. SearchOK'
  BY <1>5 DEF SearchOK
<1>14. PrinterOK' /\ pc' # "put" /\ pc' # "grow"
  BY <1>1 DEF PrinterOK, WalkNext, LookupNext
<1>. QED
  BY <1>11, <1>12, <1>13, <1>14 DEF TrieInv

\* A search returns.
LEMMA StepReturn ==
  ASSUME TrieInv, WalkFound \/ LookupEnd
  PROVE  TrieInv'
<1>1. /\ pc' = "idle" /\ key' = NoKey /\ rest' = <<>> /\ ptr' = RootLink
      /\ up' = Null /\ base' = Null /\ Searching
      /\ \/ ret' = [found |-> TRUE, node |-> key]
         \/ ret' = [found |-> FALSE, node |-> NoKey]
      /\ UNCHANGED <<build, mem, root, inserts, printer>>
  BY DEF WalkFound, LookupEnd, Return, Leave, Searching
<1>2. TypeOK /\ Rooted
  BY DEF TrieInv
<1>3. PICK g : MemTree(g) /\ OnWay(g)
  BY <1>1 DEF TrieInv, SearchOK
<1>8. key \in Keys /\ Null \in Pointers
  BY <1>2, <1>3, MemFacts DEF OnWay, TypeOK, Pointers, Null
<1>4. <<>> \in Seq(1..255)
  BY EmptySeq
<1>5. TypeOK'
  <2>2. \A x \in BOOLEAN, y \in Keys \cup {NoKey} :
          [found |-> x, node |-> y] \in [found : BOOLEAN, node : Keys \cup {NoKey}]
    OBVIOUS
  <2>1. ret' \in [found : BOOLEAN, node : Keys \cup {NoKey}]
    BY <1>1, <1>8, <2>2, Zenon
  <2>. QED
    BY <1>1, <1>2, <1>4, <1>8, <2>1 DEF TypeOK, Pointers, Elems, printer
<1>6. Rooted' /\ MemTree(g)'
  BY <1>1, <1>2, <1>3, SameMem
<1>7. SearchOK'
  BY <1>1, <1>6 DEF SearchOK, Searching
<1>. QED
  BY <1>1, <1>5, <1>6, <1>7 DEF TrieInv, PrinterOK

LEMMA StepEnd ==
  ASSUME TrieInv, WalkEnd \/ NoMemory
  PROVE  TrieInv'
<1>1. /\ Searching /\ pc' \in {"grow", "nomem"}
      /\ pc' = "grow" => Here = Null
      /\ UNCHANGED <<build, mem, root, locals, inserts, ret, printer>>
  BY DEF WalkEnd, NoMemory, Searching
<1>2. TypeOK /\ Rooted
  BY DEF TrieInv
<1>3. PICK g : MemTree(g) /\ OnWay(g)
  BY <1>1 DEF TrieInv, SearchOK
<1>4. TypeOK'
  BY <1>1, <1>2 DEF TypeOK, Pointers, Elems, printer, locals
<1>5. Rooted' /\ MemTree(g)'
  BY <1>1, <1>2, <1>3, SameMem
<1>6. OnWay(g)'
  <2>1. Reached(g)' = Reached(g) /\ KeyWord' = KeyWord /\ PtrOK' = PtrOK
    BY <1>1 DEF Reached, KeyWord, PtrOK, Chars, locals
  <2>. QED
    BY <1>1, <1>3, <2>1 DEF OnWay, locals
<1>7. SearchOK'
  BY <1>5, <1>6 DEF SearchOK
<1>8. pc' = "grow" => Here' = Null
  BY <1>1 DEF Here, locals
<1>. QED
  BY <1>1, <1>4, <1>5, <1>7, <1>8 DEF TrieInv, PrinterOK

\* The printers, which leave the nodes alone.
LEMMA StepQuiet ==
  ASSUME TrieInv, UNCHANGED kept, TypeOK', PrinterOK',
         pc' \in {"idle", "print", "printed", "climb", "spell", "spelled", "assert"}
  PROVE  TrieInv'
<1>1. mem' = mem /\ root' = root
  BY DEF kept
<1>2. Rooted'
  BY <1>1, SameMem DEF TrieInv
<1>3. PICK g : MemTree(g)
  BY DEF TrieInv, SearchOK
<1>4. SearchOK'
  <2>1. MemTree(g)'
    BY <1>1, <1>3, SameMem
  <2>. QED
    BY <2>1 DEF SearchOK, Searching
<1>. QED
  BY <1>2, <1>4 DEF TrieInv

LEMMA TypesKept ==
  ASSUME TypeOK, UNCHANGED kept, q' \in Pointers, str' \in Seq(1..255),
         pc' \in {"idle", "print", "printed", "climb", "spell", "spelled", "assert"}
  PROVE  TypeOK'
BY DEF TypeOK, kept, locals, Pointers, Elems

\* What the printer reads of a node.
LEMMA NodeFields ==
  ASSUME TypeOK, NEW n \in 1..Len(mem)
  PROVE  /\ mem[n] \in Node /\ mem[n].ch \in 0..255
         /\ mem[n].up \in Pointers /\ mem[n].lo \in Pointers /\ mem[n].hi \in Pointers
         /\ mem[n].ch # 0 => mem[n].eq \in Pointers
<1>1. mem \in Seq(Node)
  BY DEF TypeOK
<1>2. n \in DOMAIN mem /\ mem[n] \in Node
  BY <1>1, MemFacts
<1>. QED
  BY <1>2 DEF TypeOK, Node

LEMMA EnterType ==
  ASSUME mem \in Seq(Node), NEW fs \in Seq(Frame), NEW n \in Pointers
  PROVE  Enter(fs, n) \in Seq(Frame)
<1>1. CASE n = Null
  BY <1>1 DEF Enter
<1>2. CASE n # Null
  <2>1. n \in 1..Len(mem)
    BY <1>2, MemFacts DEF Pointers, Null
  <2>2. [node |-> n, at |-> "lo"] \in Frame
    BY <2>1 DEF Frame
  <2>. QED
    BY <1>2, <2>2, AppendProperties DEF Enter
<1>. QED
  BY <1>1, <1>2

LEMMA FramesType ==
  ASSUME frames \in Seq(Frame), frames # <<>>
  PROVE  /\ Top \in Frame
         /\ \A at \in {"lo", "self", "pop", "hi"} : GoOn(at) \in Seq(Frame)
         /\ Pop(frames) \in Seq(Frame)
<1> DEFINE k == Len(frames)
<1>1. k \in Nat \ {0}
  BY EmptySeq
<1>2. k \in 1..k
  BY <1>1
<1>3. Top \in Frame
  BY <1>2, ElementOfSeq DEF Top
<1>4. ASSUME NEW at \in {"lo", "self", "pop", "hi"} PROVE GoOn(at) \in Seq(Frame)
  <2> DEFINE f == [frames[k] EXCEPT !.at = at]
  <2>1. f \in Frame
    BY <1>3 DEF Frame, Top
  <2>2. GoOn(at) = [frames EXCEPT ![k] = f]
    BY DEF GoOn
  <2> HIDE DEF f, k
  <2>. QED
    BY <1>2, <2>1, <2>2, ExceptSeq DEF k
<1>5. Pop(frames) \in Seq(Frame)
  <2>1. \A j \in 1..(k - 1) : j \in 1..k
    BY <1>1
  <2>2. \A j \in 1..(k - 1) : frames[j] \in Frame
    BY <2>1, ElementOfSeq
  <2>3. 1 \in Int /\ k - 1 \in Int
    BY <1>1
  <2>. QED
    BY <2>2, <2>3, SubSeqProperties DEF Pop
<1>. QED
  BY <1>3, <1>4, <1>5

LEMMA StepPrint ==
  ASSUME TrieInv, CallPrint \/ PrintAll
  PROVE  TrieInv' /\ UNCHANGED kept
<1>1. TypeOK /\ PrinterOK /\ mem \in Seq(Node) /\ root \in Pointers
  BY DEF TrieInv, TypeOK
<1>2. str \in Seq(1..255) /\ q \in Pointers
  BY <1>1 DEF TypeOK
<1> SUFFICES /\ UNCHANGED kept /\ q' = q /\ pc' \in {"print", "printed"}
             /\ str' \in Seq(1..255)
             /\ pc' = "print" => frames' \in Seq(Frame)
  <2>1. UNCHANGED kept => mem' = mem
    BY DEF kept
  <2>2. mem' = mem => Frame' = Frame
    BY DEF Frame
  <2>. QED
    BY <1>1, <1>2, <2>1, <2>2, TypesKept, StepQuiet DEF PrinterOK
<1>3. CASE CallPrint
  <2>1. Enter(<<>>, root) \in Seq(Frame)
    BY <1>1, EnterType, EmptySeq
  <2>. QED
    BY <1>2, <1>3, <2>1 DEF CallPrint
<1>4. CASE PrintDone
  BY <1>2, <1>4 DEF PrintDone, printer
<1>5. ASSUME pc = "print", frames # <<>>
      PROVE  /\ frames \in Seq(Frame) /\ Top \in Frame
             /\ \A at \in {"lo", "self", "pop", "hi"} : GoOn(at) \in Seq(Frame)
             /\ Pop(frames) \in Seq(Frame)
             /\ Top.node \in 1..Len(mem)
  <2>1. frames \in Seq(Frame)
    BY <1>1, <1>5 DEF PrinterOK
  <2>2. Top \in Frame
    BY <1>5, <2>1, FramesType
  <2>. QED
    BY <1>5, <2>1, <2>2, FramesType DEF Frame
<1>6. CASE PrintLo
  <2>1. GoOn("self") \in Seq(Frame) /\ mem[Top.node].lo \in Pointers
    BY <1>1, <1>5, <1>6, NodeFields DEF PrintLo
  <2>2. Enter(GoOn("self"), mem[Top.node].lo) \in Seq(Frame)
    BY <1>1, <2>1, EnterType
  <2>. QED
    BY <1>2, <1>6, <2>2 DEF PrintLo
<1>7. CASE PrintHi
  <2>1. Pop(frames) \in Seq(Frame) /\ mem[Top.node].hi \in Pointers
    BY <1>1, <1>5, <1>7, NodeFields DEF PrintHi
  <2>2. Enter(Pop(frames), mem[Top.node].hi) \in Seq(Frame)
    BY <1>1, <2>1, EnterType
  <2>. QED
    BY <1>2, <1>7, <2>2 DEF PrintHi
<1>8. CASE PrintPop
  <2>1. GoOn("hi") \in Seq(Frame)
    BY <1>5, <1>8 DEF PrintPop
  <2>2. Pop(str) \in Seq(1..255)
    <3> DEFINE k == Len(str)
    <3>1. k \in Nat
      BY <1>2, LenProperties
    <3>2. \A j \in 1..(k - 1) : j \in 1..k
      BY <3>1
    <3>3. \A j \in 1..(k - 1) : str[j] \in 1..255
      BY <1>2, <3>2, ElementOfSeq
    <3>4. 1 \in Int /\ k - 1 \in Int
      BY <3>1
    <3>. QED
      BY <3>3, <3>4, SubSeqProperties DEF Pop
  <2>. QED
    BY <1>2, <1>8, <2>1, <2>2 DEF PrintPop
<1>9. CASE PrintSelf
  <2>1. /\ GoOn("hi") \in Seq(Frame) /\ GoOn("pop") \in Seq(Frame)
        /\ mem[Top.node].ch \in 0..255
        /\ mem[Top.node].ch # 0 => mem[Top.node].eq \in Pointers
    BY <1>1, <1>5, <1>9, NodeFields DEF PrintSelf
  <2>2. CASE mem[Top.node].ch = 0
    BY <1>2, <1>9, <2>1, <2>2 DEF PrintSelf
  <2>3. CASE mem[Top.node].ch # 0
    <3>1. Enter(GoOn("pop"), mem[Top.node].eq) \in Seq(Frame)
      BY <1>1, <2>1, <2>3, EnterType
    <3>2. mem[Top.node].ch \in 1..255
      BY <2>1, <2>3
    <3>3. Append(str, mem[Top.node].ch) \in Seq(1..255)
      BY <1>2, <3>2, AppendProperties
    <3>. QED
      BY <1>2, <1>9, <2>3, <3>1, <3>3 DEF PrintSelf
  <2>. QED
    BY <2>2, <2>3
<1>. QED
  BY <1>3, <1>4, <1>6, <1>7, <1>8, <1>9 DEF PrintAll

LEMMA StepPrintOne ==
  ASSUME TrieInv, (\E n \in DOMAIN mem : CallPrintOne(n)) \/ PrintOne
  PROVE  TrieInv' /\ UNCHANGED kept
<1>1. TypeOK /\ PrinterOK /\ mem \in Seq(Node)
  BY DEF TrieInv, TypeOK
<1>2. /\ str \in Seq(1..255) /\ q \in Pointers /\ Len(mem) \in Nat
      /\ DOMAIN mem = 1..Len(mem) /\ <<>> \in Seq(1..255)
  BY <1>1, MemFacts, EmptySeq DEF TypeOK
<1> SUFFICES /\ UNCHANGED kept /\ q' \in Pointers
             /\ pc' \in {"idle", "climb", "spell", "spelled", "assert"}
             /\ str' \in Seq(1..255)
             /\ pc' = "climb" => q' \in 1..Len(mem)
  <2>1. UNCHANGED kept => mem' = mem
    BY DEF kept
  <2>. QED
    BY <1>1, <2>1, TypesKept, StepQuiet DEF PrinterOK
<1>3. ASSUME NEW n \in DOMAIN mem, CallPrintOne(n)
      PROVE  /\ UNCHANGED kept /\ q' \in Pointers /\ pc' = "climb"
             /\ str' \in Seq(1..255) /\ q' \in 1..Len(mem)
  BY <1>2, <1>3 DEF CallPrintOne, Pointers
<1>4. CASE Climb
  <2> DEFINE u == mem[q].up
  <2>1. pc = "climb" /\ q \in 1..Len(mem)
    BY <1>1, <1>4 DEF Climb, PrinterOK
  <2>2. u \in Pointers
    BY <1>1, <2>1, NodeFields
  <2>3. CASE u = Null
    BY <1>2, <1>4, <2>2, <2>3 DEF Climb
  <2>4. CASE u # Null
    <3>1. u \in 1..Len(mem)
      BY <1>2, <2>2, <2>4 DEF Pointers, Null
    <3>2. mem[u].ch # 0 => mem[u].ch \in 1..255
      <4> DEFINE c == mem[u].ch
      <4>1. c \in 0..255
        BY <1>1, <3>1, NodeFields
      <4> HIDE DEF c
      <4>2. c # 0 => c \in 1..255
        BY <4>1
      <4>. QED
        BY <4>2 DEF c
    <3>3. str' \in Seq(1..255)
      <4>1. ASSUME mem[u].ch # 0 PROVE Append(str, mem[u].ch) \in Seq(1..255)
        <5>1. mem[u].ch \in 1..255 /\ str \in Seq(1..255)
          BY <1>2, <3>2, <4>1
        <5>. QED
          BY <5>1, AppendProperties, Zenon
      <4>. QED
        BY <1>2, <1>4, <2>4, <4>1 DEF Climb
    <3>. QED
      BY <1>4, <2>2, <2>4, <3>1, <3>3 DEF Climb
  <2>. QED
    BY <2>3, <2>4
<1>5. CASE SpellOne
  BY <1>2, <1>5 DEF SpellOne
<1>6. CASE Spelled
  BY <1>2, <1>6 DEF Spelled, Pointers, Null
<1>. QED
  BY <1>3, <1>4, <1>5, <1>6 DEF PrintOne

\* The search has failed, and a node is made for its next symbol; the last one
\* stores the string.
LEMMA StepGrow ==
  ASSUME TrieInv, Grow
  PROVE  /\ TrieInv' /\ key \in Keys /\ key \notin Stored
         /\ Stored' = IF Char = 0 THEN Stored \cup {key} ELSE Stored
<1> DEFINE N == Len(mem)
           b == IF Elems /\ base = Null THEN N + 1 ELSE base
           new == IF Char = 0 /\ Elems THEN [NewNode(Char) EXCEPT !.eq = b]
                                       ELSE NewNode(Char)
<1>1. /\ TypeOK /\ Rooted /\ mem \in Seq(Node) /\ pc = "grow" /\ Here = Null
      /\ up \in Pointers /\ base \in Pointers /\ root \in Pointers /\ inserts \in Nat
      /\ rest \in Seq(1..255) /\ q \in Pointers
  BY KeysAssumption DEF TrieInv, TypeOK, Grow
<1>2. PICK g : MemTree(g) /\ OnWay(g)
  BY <1>1 DEF TrieInv, SearchOK, Searching
<1>3. N \in Nat /\ DOMAIN mem = 1..N /\ Pointers = 0..N
  BY <1>1, MemFacts DEF Pointers
<1>4. Char \in Symbol /\ key \in Keys /\ PtrOK
  BY <1>1, <1>2, ReachedIs DEF OnWay
<1>5. b \in 0..(N + 1) /\ up \in 0..N
  BY <1>1, <1>3
<1>6. /\ new \in Node /\ new.ch = Char /\ new.up = up /\ new.lo = Null /\ new.hi = Null
      /\ new.eq = IF Char = 0 /\ Elems THEN b ELSE Null
  <2>1. Char \in 0..255 /\ up \in Nat /\ b \in Nat /\ Null \in Nat
    BY <1>3, <1>4, <1>5 DEF Symbol, Null
  <2> HIDE DEF b
  <2>. QED
    BY <2>1 DEF NewNode, Node
<1>7. /\ root' = IF ptr.link = "root" THEN N + 1 ELSE root
      /\ mem' = Append(LinkedMem(N + 1), new)
      /\ UNCHANGED <<build, inserts, printer>>
  BY DEF Grow, LinkedMem
<1>8. \/ /\ Char # 0 /\ ptr' = LinkOf(N + 1, "eq") /\ rest' = After
         /\ up' \in {up, N + 1} /\ base' = b
         /\ UNCHANGED <<pc, key, ret>>
      \/ /\ Char = 0 /\ Elems
         /\ pc' = "idle" /\ key' = NoKey /\ rest' = <<>> /\ ptr' = RootLink
         /\ up' = Null /\ base' = Null /\ ret' = [found |-> FALSE, node |-> key]
      \/ /\ Char = 0 /\ ~Elems /\ pc' = "put" /\ ret' = [found |-> FALSE, node |-> key]
         /\ UNCHANGED locals
  BY DEF Grow, Return, Leave
<1> HIDE DEF new, b, N
<1>9. ptr.link = "eq" => mem[ptr.node].ch # 0
  BY <1>1, <1>2, ReachedFree
<1>10. /\ mem' \in Seq(Node) /\ Len(mem') = N + 1 /\ mem'[N + 1] = new
       /\ \A k \in 1..N :
            mem'[k] = IF ptr.link # "root" /\ k = ptr.node
                        THEN [mem[k] EXCEPT ![ptr.link] = N + 1] ELSE mem[k]
  BY <1>1, <1>4, <1>6, <1>7, <1>9, GrownMem DEF N
<1>11. DOMAIN mem' = 1..(N + 1) /\ Pointers' = 0..(N + 1)
  BY <1>10, LenProperties DEF Pointers
<1>12. PICK G : G = Added(N, g, Reached(g))
  OBVIOUS
<1>13. /\ MemTree(G)' /\ Rooted'
       /\ KeysOf(G)' = IF Char = 0 THEN KeysOf(g) \cup {key} ELSE KeysOf(g)
       /\ (Char # 0 /\ ptr' = LinkOf(N + 1, "eq") /\ rest' = After /\ key' = key)
            => OnWay(G)'
  BY <1>1, <1>2, <1>6, <1>7, <1>12, TreeGrows DEF N
<1>14. Stored = KeysOf(g) /\ key \notin KeysOf(g)
  BY <1>1, <1>2, StoredIs, SearchMisses DEF StoredRight
<1>15. Stored' = KeysOf(G)'
  <2>1. StoredRight'
    BY StoredIs, PTL
  <2>. QED
    BY <1>10, <1>13, <2>1 DEF StoredRight
<1>16. SearchOK'
  <2>1. Searching' => OnWay(G)'
    BY <1>1, <1>8, <1>13 DEF Searching
  <2>. QED
    BY <1>13, <2>1 DEF SearchOK
<1>17. \A n \in 0..N : n \in 0..(N + 1)
  BY <1>3 DEF N
<1>18. N + 1 \in 0..(N + 1) /\ 0 \in 0..(N + 1) /\ N + 1 \in 1..(N + 1)
  BY <1>3 DEF N
<1>19. Elems' = Elems /\ inserts' = inserts
  BY <1>7 DEF Elems
<1>20. ASSUME NEW n \in 1..(N + 1)
       PROVE  /\ mem'[n].up \in 0..(N + 1) /\ mem'[n].lo \in 0..(N + 1)
              /\ mem'[n].hi \in 0..(N + 1)
              /\ mem'[n].eq \in IF mem'[n].ch = 0 /\ ~Elems THEN 0..inserts ELSE 0..(N + 1)
  <2>1. CASE n = N + 1
    <3>1. 0 \in 0..inserts /\ Null = 0
      BY <1>1 DEF Null
    <3>. QED
      BY <1>5, <1>6, <1>10, <1>17, <1>18, <2>1, <3>1 DEF N
  <2>2. CASE n \in 1..N
    <3>1. /\ mem[n].up \in 0..N /\ mem[n].lo \in 0..N /\ mem[n].hi \in 0..N
          /\ mem[n].eq \in IF mem[n].ch = 0 /\ ~Elems THEN 0..inserts ELSE 0..N
          /\ mem[n] \in Node
      BY <1>1, <1>3, <2>2, MemFacts DEF TypeOK, N
    <3>2. CASE ptr.link # "root" /\ n = ptr.node
      <4> DEFINE p2 == [mem[n] EXCEPT ![ptr.link] = N + 1]
      <4>1. ptr.link \in Kid
        BY <1>4, <3>2 DEF PtrOK, RootLink
      <4>2. /\ p2 \in Node /\ p2.ch = mem[n].ch /\ p2.up = mem[n].up
            /\ p2.lo = IF ptr.link = "lo" THEN N + 1 ELSE mem[n].lo
            /\ p2.hi = IF ptr.link = "hi" THEN N + 1 ELSE mem[n].hi
            /\ p2.eq = IF ptr.link = "eq" THEN N + 1 ELSE mem[n].eq
        <5>1. N + 1 \in Nat
          BY <1>3 DEF N
        <5>. QED
          BY <3>1, <4>1, <5>1, LinkSet
      <4>3. mem'[n] = p2
        BY <1>10, <2>2, <3>2
      <4> HIDE DEF p2
      <4>4. ptr.link = "eq" => mem[n].ch # 0
        BY <1>9, <3>2
      <4>. QED
        BY <1>17, <1>18, <3>1, <4>2, <4>3, <4>4
    <3>3. CASE ~(ptr.link # "root" /\ n = ptr.node)
      <4>1. mem'[n] = mem[n]
        BY <1>10, <2>2, <3>3
      <4>. QED
        BY <1>17, <3>1, <4>1
    <3>. QED
      BY <3>2, <3>3
  <2>3. n = N + 1 \/ n \in 1..N
    BY <1>3 DEF N
  <2>. QED
    BY <2>1, <2>2, <2>3
<1>21. /\ up' \in 0..(N + 1) /\ base' \in 0..(N + 1) /\ root' \in 0..(N + 1)
       /\ q' \in 0..(N + 1)
  <2>1. up \in 0..N /\ base \in 0..N /\ root \in 0..N /\ q \in 0..N
    BY <1>1, <1>3 DEF N
  <2>2. up' \in {up, N + 1, 0} /\ base' \in {b, base, 0} /\ root' \in {root, N + 1} /\ q' = q
    BY <1>7, <1>8 DEF printer, locals, Null
  <2>3. b \in 0..(N + 1)
    BY <1>5 DEF N
  <2>. QED
    BY <1>17, <1>18, <2>1, <2>2, <2>3
<1>22. rest' \in Seq(1..255)
  <2>1. After \in Seq(1..255)
    BY <1>1, HeadTailProperties DEF After
  <2>. QED
    BY <1>1, <1>8, <2>1, EmptySeq DEF locals
<1>23. ptr' = RootLink \/ (ptr'.node \in 1..(N + 1) /\ ptr'.link \in {"lo", "hi", "eq"})
  <2>1. ptr = RootLink \/ (ptr.node \in 1..(N + 1) /\ ptr.link \in {"lo", "hi", "eq"})
    <3>1. \A n \in 1..N : n \in 1..(N + 1)
      BY <1>3 DEF N
    <3>. QED
      BY <1>4, <3>1 DEF PtrOK, Kid, N
  <2>2. ptr' = LinkOf(N + 1, "eq") => ptr'.node = N + 1 /\ ptr'.link = "eq"
    BY DEF LinkOf
  <2>. QED
    BY <1>8, <1>18, <2>1, <2>2 DEF locals
<1>24. ret' \in [found : BOOLEAN, node : Keys \cup {NoKey}]
  <2>1. \A x \in BOOLEAN, y \in Keys \cup {NoKey} :
          [found |-> x, node |-> y] \in [found : BOOLEAN, node : Keys \cup {NoKey}]
    OBVIOUS
  <2>2. ret' = ret \/ ret' = [found |-> FALSE, node |-> key]
    BY <1>8
  <2>3. ret \in [found : BOOLEAN, node : Keys \cup {NoKey}]
    BY <1>1 DEF TypeOK
  <2>. QED
    BY <1>4, <2>1, <2>2, <2>3, Zenon
<1>25. TypeOK'
  <2>1. /\ build' \in {"plain", "elems"} /\ str' \in Seq(1..255) /\ inserts' \in 0..MaxInserts
        /\ key' \in Keys \cup {NoKey}
        /\ pc' \in {"grow", "idle", "put"}
    BY <1>1, <1>4, <1>7, <1>8 DEF TypeOK, printer, locals
  <2>. QED
    BY <1>10, <1>11, <1>19, <1>20, <1>21, <1>22, <1>23, <1>24, <2>1 DEF TypeOK
<1>26. pc' = "put" => PutOK'
  <2> SUFFICES ASSUME pc' = "put" PROVE PutOK'
    OBVIOUS
  <2>1. Char = 0 /\ ~Elems /\ ptr' = ptr
    BY <1>1, <1>8 DEF locals
  <2>2. Here' = N + 1
    <3>1. CASE ptr.link = "root"
      BY <1>7, <2>1, <3>1 DEF Here, N
    <3>2. CASE ptr.link # "root"
      <4>1. ptr.link \in Kid /\ ptr.node \in 1..N
        BY <1>4, <3>2 DEF PtrOK, RootLink, N
      <4>2. mem'[ptr.node] = [mem[ptr.node] EXCEPT ![ptr.link] = N + 1]
        BY <1>10, <3>2, <4>1
      <4>3. mem[ptr.node] \in Node
        BY <1>1, <4>1, MemFacts DEF N
      <4>4. mem'[ptr.node][ptr.link] = N + 1
        BY <4>1, <4>2, <4>3 DEF Node, Kid
      <4>. QED
        BY <2>1, <3>2, <4>4 DEF Here
    <3>. QED
      BY <3>1, <3>2
  <2>. QED
    BY <1>6, <1>10, <1>18, <1>19, <2>1, <2>2 DEF PutOK
<1>27. PrinterOK' /\ pc' \in {"grow", "idle", "put"}
  BY <1>1, <1>8 DEF PrinterOK
<1>28. pc' = "grow" => Here' = Null
  <2> SUFFICES ASSUME pc' = "grow" PROVE Here' = Null
    OBVIOUS
  <2>1. Char # 0 /\ ptr' = LinkOf(N + 1, "eq")
    BY <1>8
  <2>2. mem'[N + 1].eq = Null
    BY <1>6, <1>10, <2>1
  <2>. QED
    BY <2>1, <2>2 DEF Here, LinkOf
<1>. QED
  BY <1>4, <1>13, <1>14, <1>15, <1>16, <1>25, <1>26, <1>27, <1>28 DEF TrieInv

\* The value of a line is no link.
LEMMA StepValue ==
  ASSUME TrieInv, SetValue
  PROVE  TrieInv' /\ Stored' = Stored
<1>1. /\ TypeOK /\ Rooted /\ mem \in Seq(Node) /\ pc = "put" /\ inserts \in Nat
      /\ ~Elems /\ Here \in 1..Len(mem) /\ mem[Here].ch = 0
  BY KeysAssumption DEF TrieInv, PutOK, TypeOK, SetValue
<1> DEFINE h == Here
           p == [mem[h] EXCEPT !.eq = inserts]
<1>2. /\ mem' = [mem EXCEPT ![h] = p]
      /\ pc' = "idle" /\ key' = NoKey /\ rest' = <<>> /\ ptr' = RootLink
      /\ up' = Null /\ base' = Null
      /\ UNCHANGED <<build, root, inserts, ret, printer>>
  BY DEF SetValue, Leave
<1>3. mem[h] \in Node /\ Len(mem) \in Nat /\ DOMAIN mem = 1..Len(mem)
  BY <1>1, MemFacts
<1>4. /\ p \in Node /\ p.ch = 0 /\ p.up = mem[h].up /\ p.lo = mem[h].lo /\ p.hi = mem[h].hi
      /\ p.eq = inserts
  <2>1. "eq" \in Kid /\ inserts \in Nat /\ mem[h] \in Node
    BY <1>1, <1>3 DEF Kid
  <2> HIDE DEF h
  <2>2. /\ p \in Node /\ p.ch = mem[h].ch /\ p.up = mem[h].up
        /\ p.lo = IF "eq" = "lo" THEN inserts ELSE mem[h].lo
        /\ p.hi = IF "eq" = "hi" THEN inserts ELSE mem[h].hi
        /\ p.eq = IF "eq" = "eq" THEN inserts ELSE mem[h].eq
    BY <2>1, LinkSet
  <2> HIDE DEF p
  <2>. QED
    BY <1>1, <2>2 DEF h
<1> HIDE DEF p, h
<1>5. /\ mem' \in Seq(Node) /\ Len(mem') = Len(mem)
      /\ \A n \in 1..Len(mem) : mem'[n] = IF n = h THEN p ELSE mem[n]
  BY <1>1, <1>2, <1>4, ExceptSeq DEF h
<1>6. DOMAIN mem' = DOMAIN mem /\ Pointers' = Pointers /\ Elems' = Elems
  BY <1>2, <1>3, <1>5, LenProperties DEF Pointers, Elems
<1>7. ASSUME NEW n \in 1..Len(mem)
      PROVE  /\ mem'[n].ch = mem[n].ch
             /\ \A l \in Kid : LinkTo(mem'[n], l) = LinkTo(mem[n], l)
  <2>1. CASE n = h
    BY <1>1, <1>4, <1>5, <2>1 DEF LinkTo, h
  <2>2. CASE n # h
    BY <1>5, <2>2
  <2>. QED
    BY <2>1, <2>2
<1>8. Chars' = Chars /\ Links' = Links
  BY <1>5, <1>7 DEF Chars, Links
<1>9. PICK g : MemTree(g)
  BY DEF TrieInv, SearchOK
<1>10. MemTree(g)' /\ KeysOf(g)' = KeysOf(g)
  BY <1>5, <1>8, <1>9 DEF MemTree, KeysOf
<1>11. mem # <<>> /\ mem' # <<>>
  <2>1. Len(mem) # 0
    BY <1>1
  <2>. QED
    BY <1>5, <2>1, EmptySeq
<1>12. Rooted'
  BY <1>1, <1>2, <1>11 DEF Rooted
<1>13. Stored' = Stored
  <2>1. Stored = KeysOf(g)
    BY <1>1, <1>9, StoredIs DEF StoredRight
  <2>2. StoredRight'
    BY StoredIs, PTL
  <2>3. Stored' = KeysOf(g)'
    BY <1>5, <1>10, <1>12, <2>2 DEF StoredRight
  <2>. QED
    BY <1>10, <2>1, <2>3
<1>14. \A n \in DOMAIN mem' :
         /\ mem'[n].up \in Pointers /\ mem'[n].lo \in Pointers /\ mem'[n].hi \in Pointers
         /\ mem'[n].eq \in IF mem'[n].ch = 0 /\ ~Elems THEN 0..inserts ELSE Pointers
  <2> SUFFICES ASSUME NEW n \in 1..Len(mem)
               PROVE  /\ mem'[n].up \in Pointers /\ mem'[n].lo \in Pointers
                      /\ mem'[n].hi \in Pointers
                      /\ mem'[n].eq \in IF mem'[n].ch = 0 /\ ~Elems THEN 0..inserts ELSE Pointers
    BY <1>3, <1>6
  <2>1. /\ mem[n].up \in Pointers /\ mem[n].lo \in Pointers /\ mem[n].hi \in Pointers
        /\ mem[n].eq \in IF mem[n].ch = 0 /\ ~Elems THEN 0..inserts ELSE Pointers
    BY <1>1, <1>3 DEF TypeOK
  <2>2. CASE n = h
    <3>1. inserts \in 0..inserts
      BY <1>1
    <3>. QED
      BY <1>1, <1>4, <1>5, <2>1, <2>2, <3>1
  <2>3. CASE n # h
    BY <1>5, <2>1, <2>3
  <2>. QED
    BY <2>2, <2>3
<1>15. TypeOK'
  <2>1. Null \in Pointers /\ <<>> \in Seq(1..255)
    BY <1>3, EmptySeq DEF Pointers, Null
  <2>2. /\ build' \in {"plain", "elems"} /\ root' \in Pointers /\ q' \in Pointers
        /\ inserts' \in 0..MaxInserts /\ str' \in Seq(1..255)
        /\ ret' \in [found : BOOLEAN, node : Keys \cup {NoKey}]
    BY <1>1, <1>2 DEF TypeOK, printer
  <2>. QED
    BY <1>2, <1>5, <1>6, <1>14, <2>1, <2>2 DEF TypeOK
<1>16. SearchOK'
  BY <1>2, <1>10 DEF SearchOK, Searching
<1>. QED
  BY <1>2, <1>12, <1>13, <1>15, <1>16 DEF TrieInv, PrinterOK
-----------------------------------------------------------------------------
LEMMA TrieStep == TrieInv /\ [Next]_vars => TrieInv'
<1> SUFFICES ASSUME TrieInv, [Next]_vars PROVE TrieInv'
  OBVIOUS
<1>1. ASSUME NEW k \in Keys, CallInsert(k) PROVE TrieInv'
  BY <1>1, StepCall
<1>2. ASSUME NEW k \in Keys, CallLookup(k) PROVE TrieInv'
  BY <1>2, StepCall
<1>3. CASE CallPrint
  BY <1>3, StepPrint
<1>4. ASSUME NEW n \in DOMAIN mem, CallPrintOne(n) PROVE TrieInv'
  BY <1>4, StepPrintOne
<1>5. CASE Insert
  BY <1>5, StepReturn, StepDown, StepEnd, StepGrow, StepValue DEF Insert
<1>6. CASE Lookup
  BY <1>6, StepDown, StepReturn DEF Lookup
<1>7. CASE PrintAll
  BY <1>7, StepPrint
<1>8. CASE PrintOne
  BY <1>8, StepPrintOne
<1>9. CASE NoMemory
  BY <1>9, StepEnd
<1>10. CASE UNCHANGED vars
  <2>1. UNCHANGED <<build, mem, root, pc, locals, inserts, ret, printer>>
    BY <1>10 DEF vars
  <2>2. /\ TypeOK' = TypeOK /\ PrinterOK' = PrinterOK /\ Rooted' = Rooted /\ Here' = Here
        /\ PutOK' = PutOK /\ Searching' = Searching
    BY <2>1 DEF TypeOK, PrinterOK, Rooted, Here, PutOK, Searching, locals, printer, Pointers,
                Elems, Frame
  <2>3. \A g : MemTree(g)' = MemTree(g) /\ OnWay(g)' = OnWay(g)
    BY <2>1, SameMem DEF OnWay, Reached, KeyWord, PtrOK, Chars, locals
  <2>. QED
    BY <2>1, <2>2, <2>3 DEF TrieInv, SearchOK
<1>11. CASE Stopped
  BY <1>10, <1>11 DEF Stopped
<1>12. Insertable \subseteq Keys
  BY DEF Insertable
<1>. QED
  BY <1>1, <1>2, <1>3, <1>4, <1>5, <1>6, <1>7, <1>8, <1>9, <1>10, <1>11, <1>12 DEF Next, Step

\* The invariant of the search trie holds in every state.
THEOREM TrieInvariance == Spec => []TrieInv
BY TrieInit, TrieStep, PTL DEF Spec

(***************************************************************************)
(* The types of the trie are right: every pointer the code follows leads to*)
(* a node, and the value in the union of a line's last node is never taken *)
(* for a pointer.                                                          *)
(***************************************************************************)
THEOREM TrieTypeCorrect == Spec => []TypeOK
<1>1. TrieInv => TypeOK
  BY DEF TrieInv
<1>. QED
  BY <1>1, TrieInvariance, PTL

-----------------------------------------------------------------------------
(***************************************************************************)
(* The refinement of KeySet.                                               *)
(***************************************************************************)
LEMMA KeySetInit == Init => Abstract!Init
<1> SUFFICES ASSUME Init PROVE Abstract!Init
  OBVIOUS
<1>1. mem = <<>> /\ root = Null /\ pc = "idle" /\ ret = NoResult
  BY DEF Init
<1>2. MemTree(<<>>) /\ KeysOf(<<>>) = {}
  BY <1>1, EmptyTree
<1>3. Stored = {}
  BY <1>1, <1>2, EmptySeq, StoredIs DEF StoredRight, Rooted
<1>. QED
  BY <1>1, <1>3 DEF Abstract!Init, Op, NoResult, Abstract!NoResult

\* What a returning call says is right.
LEMMA ReturnsRight ==
  ASSUME TrieInv, WalkFound \/ LookupEnd
  PROVE  Abstract!ReturnNode \/ Abstract!ReturnNull
<1>1. /\ Rooted /\ mem \in Seq(Node) /\ Searching
  BY DEF TrieInv, TypeOK, Searching, WalkFound, LookupEnd
<1>2. PICK g : MemTree(g) /\ OnWay(g)
  BY <1>1 DEF TrieInv, SearchOK
<1>3. Stored = KeysOf(g)
  BY <1>1, <1>2, StoredIs DEF StoredRight
<1>4. Stored' = Stored
  BY SameStored DEF WalkFound, LookupEnd
<1>5. Op' = "none"
  BY DEF Op, WalkFound, LookupEnd, Return, Leave
<1>6. ASSUME Here # Null, Char = 0, mem[Here].ch = 0, Return(TRUE, key), pc \in {"walk", "lookup"}
      PROVE  Abstract!ReturnNode
  <2>1. key \in Stored
    BY <1>1, <1>2, <1>3, <1>6, SearchFinds
  <2>. QED
    BY <1>4, <1>5, <1>6, <2>1 DEF Abstract!ReturnNode, Abstract!Return, Op, Return
<1>7. ASSUME Here = Null, Return(FALSE, NoKey), pc = "lookup"
      PROVE  Abstract!ReturnNull
  <2>1. key \notin Stored
    BY <1>1, <1>2, <1>3, <1>7, SearchMisses
  <2>. QED
    BY <1>4, <1>5, <1>7, <2>1
       DEF Abstract!ReturnNull, Abstract!Return, Abstract!NoResult, Op, Return
<1>. QED
  BY <1>6, <1>7 DEF WalkFound, LookupEnd

LEMMA KeySetStep == TrieInv /\ [Next]_vars => [Abstract!Next]_Abstract!vars
<1> SUFFICES ASSUME TrieInv, [Next]_vars PROVE Abstract!Next \/ UNCHANGED Abstract!vars
  OBVIOUS
<1> DEFINE Arg == IF Op = "none" THEN NoKey ELSE key
<1>1. ASSUME Stored' = Stored, Op' = Op, Op = "none" \/ key' = key, ret' = ret
      PROVE  UNCHANGED Abstract!vars
  BY <1>1 DEF Abstract!vars
<1>2. ASSUME NEW k \in Keys, NEW f \in {"insert", "lookup"},
             Stored' = Stored, Op = "none", Op' = f, key' = k, ret' = NoResult
      PROVE  Abstract!Next
  <2>1. Abstract!Call(f, k)
    BY <1>2 DEF Abstract!Call, NoResult, Abstract!NoResult
  <2>. QED
    BY <2>1 DEF Abstract!Next
<1>3. ASSUME NEW k \in Keys, CallInsert(k) PROVE Abstract!Next
  <2>1. Stored' = Stored
    BY <1>3, SameStored DEF CallInsert, Call
  <2>2. Op = "none" /\ Op' = "insert" /\ key' = k /\ ret' = NoResult
    BY <1>3 DEF CallInsert, Call, Op
  <2>. QED
    BY <1>2, <2>1, <2>2
<1>4. ASSUME NEW k \in Keys, CallLookup(k) PROVE Abstract!Next
  <2>1. Stored' = Stored
    BY <1>4, SameStored DEF CallLookup, Call
  <2>2. Op = "none" /\ Op' = "lookup" /\ key' = k /\ ret' = NoResult
    BY <1>4 DEF CallLookup, Call, Op
  <2>. QED
    BY <1>2, <2>1, <2>2
<1>5. CASE WalkFound \/ LookupEnd
  BY <1>5, ReturnsRight DEF Abstract!Next
<1>6. CASE WalkNext \/ LookupNext \/ WalkEnd \/ NoMemory
  <2>1. /\ mem' = mem /\ root' = root /\ key' = key /\ ret' = ret
        /\ \/ pc \in {"walk", "grow"} /\ pc' \in {"walk", "grow", "nomem"}
           \/ pc = "lookup" /\ pc' = "lookup"
    BY <1>6 DEF WalkNext, LookupNext, WalkEnd, NoMemory, locals
  <2>. QED
    BY <1>1, <2>1, SameStored DEF Op
<1>7. CASE Grow
  <2>1. /\ key \in Keys /\ key \notin Stored
        /\ Stored' = IF Char = 0 THEN Stored \cup {key} ELSE Stored
    BY <1>7, StepGrow
  <2>2. CASE Char # 0
    <3>1. Stored' = Stored /\ pc' = pc /\ key' = key /\ ret' = ret
      BY <1>7, <2>1, <2>2 DEF Grow
    <3>. QED
      BY <1>1, <3>1 DEF Op
  <2>3. CASE Char = 0
    <3>1. Op = "insert" /\ Op' = "none" /\ ret' = [found |-> FALSE, node |-> key]
      BY <1>7, <2>3 DEF Grow, Op, Return, Leave
    <3>2. Abstract!ReturnNew
      BY <2>1, <2>3, <3>1 DEF Abstract!ReturnNew, Abstract!Return
    <3>. QED
      BY <3>2 DEF Abstract!Next
  <2>. QED
    BY <2>2, <2>3
<1>8. CASE SetValue
  <2>1. Stored' = Stored
    BY <1>8, StepValue
  <2>2. Op = "none" /\ Op' = "none" /\ ret' = ret
    BY <1>8 DEF SetValue, Leave, Op
  <2>. QED
    BY <1>1, <2>1, <2>2
<1>9. CASE CallPrint \/ PrintAll \/ (\E n \in DOMAIN mem : CallPrintOne(n)) \/ PrintOne
  <2>1. UNCHANGED kept
    BY <1>9, StepPrint, StepPrintOne
  <2>2. Op = "none" /\ Op' = "none"
    BY <1>9 DEF CallPrint, PrintAll, CallPrintOne, PrintOne, PrintLo, PrintSelf, PrintPop,
                PrintHi, PrintDone, Climb, SpellOne, Spelled, Op
  <2>. QED
    BY <1>1, <2>1, <2>2, SameStored DEF kept
<1>10. CASE UNCHANGED vars
  BY <1>1, <1>10, SameStored DEF vars, locals, Op
<1>11. CASE Stopped
  BY <1>10, <1>11 DEF Stopped
<1>12. Insertable \subseteq Keys
  BY DEF Insertable
<1>. QED
  BY <1>3, <1>4, <1>5, <1>6, <1>7, <1>8, <1>9, <1>10, <1>11, <1>12
     DEF Next, Step, Insert, Lookup

(***************************************************************************)
(* The trie implements KeySet, for every set of strings and in both builds:*)
(* a string gets its node with its first insert and is never lost, and a   *)
(* lookup finds it and no other, although half an insert is already in the *)
(* tree.                                                                   *)
(***************************************************************************)
THEOREM TrieIsKeySet == Spec => ImplementsKeySet
<1>1. TrieInv /\ TrieInv' /\ [Next]_vars => [Abstract!Next]_Abstract!vars
  BY KeySetStep
<1>. QED
  BY <1>1, KeySetInit, TrieInvariance, PTL DEF Spec, ImplementsKeySet, Abstract!Spec

(***************************************************************************)
(* Printing.  A call at a node has ends left to print below it, and those  *)
(* of the calls above it on the stack come before them.                    *)
(***************************************************************************)
\* A word that is in a region with another, and smaller at the symbol after the
\* prefix, comes before it.
LEMMA WordBefore ==
  ASSUME NEW N, NEW ch, NEW lk, NEW g, TreeTypes(N, ch, lk, g),
         NEW a \in Ends(N, ch), NEW b \in Ends(N, ch), NEW r \in Region,
         In(r, WordOf(ch, g, a)), In(r, WordOf(ch, g, b)),
         WordOf(ch, g, a)[Len(r.pre) + 1] < WordOf(ch, g, b)[Len(r.pre) + 1]
  PROVE  Before(g[a].pre, g[b].pre)
<1> DEFINE d == Len(r.pre)
           v == WordOf(ch, g, a)
           w == WordOf(ch, g, b)
           x == g[a].pre
           y == g[b].pre
<1>1. d \in Nat
  BY PrefixIs
<1>2. a \in 1..N /\ b \in 1..N /\ ch[a] = 0 /\ ch[b] = 0
  BY DEF Ends
<1>3. /\ Len(x) \in Nat /\ Len(v) = Len(x) + 1 /\ v \in Words
      /\ \A j \in 1..Len(x) : v[j] = x[j]
  BY <1>2, WordAndString
<1>4. /\ Len(y) \in Nat /\ Len(w) = Len(y) + 1 /\ w \in Words
      /\ \A j \in 1..Len(y) : w[j] = y[j]
  BY <1>2, WordAndString
<1>5. v[Len(x) + 1] = 0 /\ w[Len(y) + 1] = 0
  <2>1. /\ Append(g[a].pre, ch[a])[Len(g[a].pre) + 1] = ch[a]
        /\ Append(g[b].pre, ch[b])[Len(g[b].pre) + 1] = ch[b]
    BY <1>2, WordType, PrefixIs
  <2>. QED
    BY <1>2, <2>1 DEF WordOf
<1>6. /\ d < Len(v) /\ \A j \in 1..d : v[j] = r.pre[j]
      /\ d < Len(w) /\ \A j \in 1..d : w[j] = r.pre[j]
  BY DEF In
<1>7. v[d + 1] < w[d + 1]
  OBVIOUS
<1> HIDE DEF d, v, w, x, y
<1>8. d + 1 \in 1..Len(v) /\ d + 1 \in 1..Len(w)
  BY <1>1, <1>3, <1>4, <1>6
<1>9. v[d + 1] \in Nat /\ w[d + 1] \in Nat
  BY <1>3, <1>4, <1>8, SymbolsOf
<1>10. d # Len(y)
  BY <1>5, <1>7, <1>9
<1>11. d \in 0..Len(x) /\ d < Len(y)
  BY <1>1, <1>3, <1>4, <1>6, <1>10
<1>12. \A j \in 1..d : x[j] = y[j]
  <2> TAKE j \in 1..d
  <2>1. j \in 1..Len(x) /\ j \in 1..Len(y)
    BY <1>1, <1>3, <1>4, <1>11
  <2>. QED
    BY <1>3, <1>4, <1>6, <2>1
<1>13. d = Len(x) \/ x[d + 1] < y[d + 1]
  <2> SUFFICES ASSUME d # Len(x) PROVE x[d + 1] < y[d + 1]
    OBVIOUS
  <2>1. d + 1 \in 1..Len(x) /\ d + 1 \in 1..Len(y)
    BY <1>1, <1>3, <1>4, <1>11
  <2>. QED
    BY <1>3, <1>4, <1>7, <2>1
<1>14. Before(x, y)
  BY <1>11, <1>12, <1>13 DEF Before
<1>. QED
  BY <1>14 DEF x, y

\* The ends in a region, those of the node itself and of its 'eq' link, and the
\* order they have.
EndsAt(N, ch, g, n, l) == Below(N, ch, g, At(ch, g, n, l))
OwnEnds(N, ch, g, n) == IF ch[n] = 0 THEN {n} ELSE EndsAt(N, ch, g, n, "eq")

AllBefore(g, A, B) == \A a \in A, b \in B : Before(g[a].pre, g[b].pre)

LEMMA NodeOrder ==
  ASSUME NEW N, NEW ch, NEW lk, NEW g, Tree(N, ch, lk, g), NEW n \in 1..N
  PROVE  /\ AllBefore(g, EndsAt(N, ch, g, n, "lo"), OwnEnds(N, ch, g, n) \cup EndsAt(N, ch, g, n, "hi"))
         /\ AllBefore(g, OwnEnds(N, ch, g, n), EndsAt(N, ch, g, n, "hi"))
         /\ Below(N, ch, g, g[n]) = EndsAt(N, ch, g, n, "lo") \cup OwnEnds(N, ch, g, n) \cup EndsAt(N, ch, g, n, "hi")
<1> DEFINE d == Len(g[n].pre)
           s(m) == WordOf(ch, g, m)[d + 1]
<1>1. TreeTypes(N, ch, lk, g) /\ TreeLinks(N, ch, lk, g)
  BY DEF Tree
<1>2. g[n] \in Region /\ ch[n] \in Symbol /\ g[n].lo < ch[n] /\ ch[n] < g[n].hi
  BY <1>1, WordType DEF TreeLinks
<1>3. Below(N, ch, g, g[n]) = EndsAt(N, ch, g, n, "lo") \cup OwnEnds(N, ch, g, n) \cup EndsAt(N, ch, g, n, "hi")
  BY BelowNode DEF EndsAt, OwnEnds
<1>4. \A m \in Below(N, ch, g, g[n]) : m \in Ends(N, ch) /\ In(g[n], WordOf(ch, g, m))
  BY DEF Below
<1>5. \A m \in Below(N, ch, g, g[n]) : s(m) \in Int
  <2> TAKE m \in Below(N, ch, g, g[n])
  <2>1. WordOf(ch, g, m) \in Words /\ d < Len(WordOf(ch, g, m)) /\ d \in Nat
    BY <1>1, <1>2, <1>4, WordType, PrefixIs DEF Ends, In
  <2>2. d + 1 \in 1..Len(WordOf(ch, g, m))
    BY <2>1, SymbolsOf
  <2>. QED
    BY <2>1, <2>2, SymbolsOf
<1>6. ASSUME NEW l \in Kid, NEW m \in EndsAt(N, ch, g, n, l) PROVE l = SideOf(s(m), ch[n])
  <2>1. m \in Ends(N, ch) /\ In(Part(g[n], ch[n], l), WordOf(ch, g, m))
    BY DEF EndsAt, Below, At
  <2>2. WordOf(ch, g, m) \in Words
    BY <1>1, <2>1, WordType DEF Ends
  <2>. QED
    BY <1>2, <2>1, <2>2, PartWithin
<1>7. ch[n] \in Int
  BY <1>2 DEF Symbol
<1>8. ASSUME NEW m \in OwnEnds(N, ch, g, n) PROVE s(m) = ch[n]
  <2>1. CASE ch[n] = 0
    <3>1. m = n
      BY <2>1 DEF OwnEnds
    <3>2. Append(g[n].pre, ch[n])[Len(g[n].pre) + 1] = ch[n]
      BY <1>2, PrefixIs
    <3>. QED
      BY <3>1, <3>2 DEF WordOf
  <2>2. CASE ch[n] # 0
    <3>1. m \in EndsAt(N, ch, g, n, "eq") /\ "eq" \in Kid
      BY <2>2 DEF OwnEnds, Kid
    <3>2. "eq" = SideOf(s(m), ch[n])
      BY <1>6, <3>1
    <3>. QED
      BY <3>2 DEF SideOf
  <2>. QED
    BY <2>1, <2>2
<1>9. ASSUME NEW m \in EndsAt(N, ch, g, n, "lo") PROVE s(m) < ch[n]
  <2>1. "lo" = SideOf(s(m), ch[n])
    BY <1>6 DEF Kid
  <2>. QED
    BY <2>1 DEF SideOf
<1>10. ASSUME NEW m \in EndsAt(N, ch, g, n, "hi") PROVE ch[n] < s(m)
  <2>1. "hi" = SideOf(s(m), ch[n])
    BY <1>6 DEF Kid
  <2>2. s(m) # ch[n] /\ ~(s(m) < ch[n])
    BY <2>1 DEF SideOf
  <2>. QED
    BY <1>3, <1>5, <1>7, <2>2
<1>11. ASSUME NEW a \in Below(N, ch, g, g[n]), NEW b \in Below(N, ch, g, g[n]), s(a) < s(b)
       PROVE  Before(g[a].pre, g[b].pre)
  BY <1>1, <1>2, <1>4, <1>11, WordBefore
<1> HIDE DEF s, d
<1>12. AllBefore(g, EndsAt(N, ch, g, n, "lo"), OwnEnds(N, ch, g, n) \cup EndsAt(N, ch, g, n, "hi"))
  <2> SUFFICES ASSUME NEW a \in EndsAt(N, ch, g, n, "lo"),
                      NEW b \in OwnEnds(N, ch, g, n) \cup EndsAt(N, ch, g, n, "hi")
               PROVE  Before(g[a].pre, g[b].pre)
    BY DEF AllBefore
  <2>1. s(a) < s(b)
    BY <1>3, <1>5, <1>7, <1>8, <1>9, <1>10
  <2>. QED
    BY <1>3, <1>11, <2>1
<1>13. AllBefore(g, OwnEnds(N, ch, g, n), EndsAt(N, ch, g, n, "hi"))
  <2> SUFFICES ASSUME NEW a \in OwnEnds(N, ch, g, n), NEW b \in EndsAt(N, ch, g, n, "hi")
               PROVE  Before(g[a].pre, g[b].pre)
    BY DEF AllBefore
  <2>1. s(a) < s(b)
    BY <1>8, <1>10
  <2>. QED
    BY <1>3, <1>11, <2>1
<1>. QED
  BY <1>3, <1>12, <1>13

LEMMA AllInWhole ==
  ASSUME NEW N, NEW ch, NEW lk, NEW g, TreeTypes(N, ch, lk, g)
  PROVE  Below(N, ch, g, Whole) = Ends(N, ch)
<1>1. Whole.pre = <<>> /\ Len(Whole.pre) = 0 /\ Whole.lo = -1 /\ Whole.hi = 256
  BY EmptySeq DEF Whole
<1>2. ASSUME NEW n \in 1..N PROVE In(Whole, WordOf(ch, g, n))
  <2> DEFINE w == WordOf(ch, g, n)
  <2>1. w \in Words /\ Len(w) \in Nat /\ Len(w) > 0
    <3>1. Len(g[n].pre) \in Nat /\ w \in Words /\ Len(w) = Len(g[n].pre) + 1
      BY WordAndString
    <3>. QED
      BY <3>1
  <2> HIDE DEF w
  <2>2. 1 \in 1..Len(w)
    BY <2>1
  <2>3. w[1] \in Symbol
    BY <2>1, <2>2, SymbolsOf
  <2>4. \A s \in Symbol : -1 < s /\ s < 256
    BY DEF Symbol
  <2>5. 0 + 1 = 1 /\ 1..0 = {}
    OBVIOUS
  <2>6. -1 < w[1] /\ w[1] < 256
    BY <2>3, <2>4
  <2>. QED
    BY <1>1, <2>1, <2>5, <2>6 DEF In, w
<1>. QED
  BY <1>2 DEF Below, Ends

LEMMA NotBefore == ASSUME NEW a \in Seq(1..255) PROVE ~Before(a, a)
<1> SUFFICES ASSUME NEW i \in 0..Len(a), i < Len(a), i = Len(a) \/ a[i + 1] < a[i + 1]
             PROVE  FALSE
  BY DEF Before
<1>1. Len(a) \in Nat
  BY LenProperties
<1>2. i + 1 \in 1..Len(a)
  BY <1>1
<1>3. a[i + 1] \in 1..255
  BY <1>2, ElementOfSeq
<1>4. \A x \in 1..255 : ~(x < x)
  OBVIOUS
<1>5. \A x \in Nat : x < x => FALSE
  OBVIOUS
<1>. QED
  BY <1>1, <1>3, <1>4, <1>5

(***************************************************************************)
(* The calls in progress.  At each, the prefix printed so far is that of   *)
(* its node, with the node's character while the strings that begin with it*)
(* are printed; the ends the calls below it are to print are those of the  *)
(* link they were made for.                                                *)
(***************************************************************************)
Places == {"lo", "self", "pop", "hi"}
CallsOf(N) == [node : 1..N, at : Places]

Prefix(ch, g, f) == IF f.at = "pop" THEN Append(g[f.node].pre, ch[f.node]) ELSE g[f.node].pre

\* The ends that are left to the call, without those of the call it waits for.
Left(N, ch, g, f) ==
  IF f.at = "lo" THEN Below(N, ch, g, g[f.node])
  ELSE IF f.at = "self" THEN OwnEnds(N, ch, g, f.node) \cup EndsAt(N, ch, g, f.node, "hi")
  ELSE EndsAt(N, ch, g, f.node, "hi")

\* The ends that are printed while the call waits.
Busy(N, ch, g, f) == EndsAt(N, ch, g, f.node, IF f.at = "self" THEN "lo" ELSE "eq")

Waits(f) == f.at \in {"self", "pop"}

AllLeft(N, ch, g, fs) == UNION {Left(N, ch, g, fs[i]) : i \in 1..Len(fs)}

Shape(N, ch, g, fs, s) ==
  /\ fs \in Seq(CallsOf(N))
  /\ \A i \in 1..Len(fs) : fs[i].at = "pop" => ch[fs[i].node] # 0
  /\ \A i, j \in 1..Len(fs) : i < j =>
       Waits(fs[i]) /\ Below(N, ch, g, g[fs[j].node]) \subseteq Busy(N, ch, g, fs[i])
  /\ \A i, j \in 1..Len(fs) : j = i + 1 => g[fs[j].node].pre = Prefix(ch, g, fs[i])
  /\ \A i \in 1..Len(fs) : i = Len(fs) => s = Prefix(ch, g, fs[i])

\* All calls may wait for one at the region r.
Open(N, ch, g, fs, r) ==
  \A i \in 1..Len(fs) : Waits(fs[i]) /\ Below(N, ch, g, r) \subseteq Busy(N, ch, g, fs[i])

\* A call is made for a region, at the node m if there is one.
LEMMA CallMade ==
  ASSUME NEW N, NEW ch, NEW g, NEW fs, NEW s, Shape(N, ch, g, fs, s),
         NEW r, Open(N, ch, g, fs, r), r.pre = s, NEW m,
         m = Null => Below(N, ch, g, r) = {},
         m # Null => m \in 1..N /\ g[m] = r
  PROVE  /\ Shape(N, ch, g, Enter(fs, m), s)
         /\ AllLeft(N, ch, g, Enter(fs, m)) = AllLeft(N, ch, g, fs) \cup Below(N, ch, g, r)
<1>1. CASE m = Null
  BY <1>1 DEF Enter
<1>2. CASE m # Null
  <2> DEFINE f == [node |-> m, at |-> "lo"]
             k == Len(fs)
             t == Append(fs, f)
  <2>1. Enter(fs, m) = t
    BY <1>2 DEF Enter
  <2>2. f \in CallsOf(N) /\ f.node = m /\ f.at = "lo" /\ g[m] = r
    BY <1>2 DEF CallsOf, Places
  <2>3. fs \in Seq(CallsOf(N)) /\ k \in Nat
    BY LenProperties DEF Shape
  <2> HIDE DEF f
  <2>4. /\ t \in Seq(CallsOf(N)) /\ Len(t) = k + 1 /\ t[k + 1] = f
        /\ \A i \in 1..k : t[i] = fs[i]
    BY <2>2, <2>3, AppendProperties
  <2> HIDE DEF t
  <2>5. \A i \in 1..(k + 1) : i = k + 1 \/ (i \in 1..k /\ i # k + 1)
    BY <2>3
  <2>6. \A i, j \in 1..(k + 1) : i < j => i \in 1..k
    BY <2>3
  <2>7. \A i \in 1..(k + 1) : t[i].at = "pop" => ch[t[i].node] # 0
    BY <2>2, <2>4, <2>5 DEF Shape
  <2>8. ASSUME NEW i \in 1..(k + 1), NEW j \in 1..(k + 1), i < j
        PROVE  Waits(t[i]) /\ Below(N, ch, g, g[t[j].node]) \subseteq Busy(N, ch, g, t[i])
    <3>1. i \in 1..k /\ t[i] = fs[i]
      BY <2>4, <2>6, <2>8
    <3>2. CASE j = k + 1
      BY <2>2, <2>4, <3>1, <3>2 DEF Open
    <3>3. CASE j \in 1..k
      BY <2>4, <2>8, <3>1, <3>3 DEF Shape
    <3>. QED
      BY <2>5, <3>2, <3>3
  <2>9. ASSUME NEW i \in 1..(k + 1), NEW j \in 1..(k + 1), j = i + 1
        PROVE  g[t[j].node].pre = Prefix(ch, g, t[i])
    <3>1. i \in 1..k /\ t[i] = fs[i]
      <4>1. i < j
        BY <2>9
      <4>. QED
        BY <2>4, <2>6, <4>1
    <3>2. CASE j = k + 1
      <4>1. i = k
        BY <2>3, <2>9, <3>1, <3>2
      <4>2. s = Prefix(ch, g, fs[i])
        BY <3>1, <4>1 DEF Shape
      <4>. QED
        BY <2>2, <2>4, <3>1, <3>2, <4>2
    <3>3. CASE j \in 1..k
      BY <2>4, <2>9, <3>1, <3>3 DEF Shape
    <3>. QED
      BY <2>5, <3>2, <3>3
  <2>10. \A i \in 1..(k + 1) : i = k + 1 => s = Prefix(ch, g, t[i])
    BY <2>2, <2>4 DEF Prefix
  <2>11. Shape(N, ch, g, t, s)
    BY <2>4, <2>7, <2>8, <2>9, <2>10 DEF Shape
  <2>12. AllLeft(N, ch, g, t) = AllLeft(N, ch, g, fs) \cup Below(N, ch, g, r)
    <3>1. Left(N, ch, g, f) = Below(N, ch, g, r)
      BY <2>2 DEF Left
    <3>2. k + 1 \in 1..(k + 1) /\ \A i \in 1..k : i \in 1..(k + 1)
      BY <2>3
    <3>. QED
      BY <2>4, <2>5, <3>1, <3>2 DEF AllLeft
  <2>. QED
    BY <2>1, <2>11, <2>12
<1>. QED
  BY <1>1, <1>2

\* The top call comes to its next place.
GoneOn(fs, at, f, t) == /\ f = [node |-> fs[Len(fs)].node, at |-> at]
                        /\ t = [fs EXCEPT ![Len(fs)].at = at]

LEMMA CallGoesOn ==
  ASSUME NEW N, NEW ch, NEW g, NEW fs, NEW s, Shape(N, ch, g, fs, s), fs # <<>>,
         NEW at \in Places, at = "pop" => ch[fs[Len(fs)].node] # 0,
         NEW f, NEW t, GoneOn(fs, at, f, t)
  PROVE  /\ Shape(N, ch, g, t, Prefix(ch, g, f))
         /\ AllLeft(N, ch, g, t) = AllLeft(N, ch, g, Pop(fs)) \cup Left(N, ch, g, f)
         /\ Len(t) = Len(fs) /\ t[Len(fs)] = f /\ \A i \in 1..(Len(fs) - 1) : t[i] = fs[i]
<1> DEFINE k == Len(fs)
<1>1. fs \in Seq(CallsOf(N)) /\ k \in Nat \ {0} /\ k \in 1..k
  <2>1. fs \in Seq(CallsOf(N)) /\ k \in Nat \ {0}
    BY EmptySeq, LenProperties DEF Shape
  <2>. QED
    BY <2>1
<1>2. fs[k] \in CallsOf(N)
  BY <1>1, ElementOfSeq
<1>3. f \in CallsOf(N) /\ f = [fs[k] EXCEPT !.at = at] /\ f.node = fs[k].node /\ f.at = at
  BY <1>2 DEF CallsOf, GoneOn
<1>4. t = [fs EXCEPT ![k] = f]
  BY <1>3 DEF GoneOn
<1>5. t \in Seq(CallsOf(N)) /\ Len(t) = k /\ \A i \in 1..k : t[i] = IF i = k THEN f ELSE fs[i]
  <2> HIDE DEF k
  <2>1. /\ [fs EXCEPT ![k] = f] \in Seq(CallsOf(N))
        /\ Len([fs EXCEPT ![k] = f]) = Len(fs)
        /\ \A i \in 1..Len(fs) : [fs EXCEPT ![k] = f][i] = IF i = k THEN f ELSE fs[i]
    BY <1>1, <1>3, ExceptSeq DEF k
  <2>. QED
    BY <1>4, <2>1 DEF k
<1>6. \A i \in 1..(k - 1) : i \in 1..k /\ i # k
  BY <1>1
<1>7. \A i, j \in 1..k : (i < j \/ j = i + 1) => i # k
  BY <1>1
<1>8. \A i \in 1..k : t[i].node = fs[i].node
  BY <1>3, <1>5
<1>9. Shape(N, ch, g, t, Prefix(ch, g, f))
  <2>1. \A i \in 1..k : t[i].at = "pop" => ch[t[i].node] # 0
    BY <1>3, <1>5 DEF Shape
  <2>2. \A i, j \in 1..k : i < j =>
          Waits(t[i]) /\ Below(N, ch, g, g[t[j].node]) \subseteq Busy(N, ch, g, t[i])
    BY <1>5, <1>7, <1>8 DEF Shape
  <2>3. \A i, j \in 1..k : j = i + 1 => g[t[j].node].pre = Prefix(ch, g, t[i])
    BY <1>5, <1>7, <1>8 DEF Shape
  <2>4. \A i \in 1..k : i = k => Prefix(ch, g, f) = Prefix(ch, g, t[i])
    BY <1>5
  <2> HIDE DEF k
  <2>. QED
    BY <1>5, <2>1, <2>2, <2>3, <2>4 DEF Shape
<1>10. /\ Len(Pop(fs)) = k - 1 /\ \A i \in 1..(k - 1) : Pop(fs)[i] = fs[i]
  <2>1. \A j \in 1..(k - 1) : fs[j] \in CallsOf(N)
    BY <1>1, <1>6, ElementOfSeq
  <2>2. 1 \in Int /\ k - 1 \in Int /\ (k - 1) - 1 + 1 = k - 1 /\ 1 <= (k - 1) + 1
    BY <1>1
  <2>3. \A i \in 1..(k - 1) : 1 + i - 1 = i
    OBVIOUS
  <2>. QED
    BY <2>1, <2>2, <2>3, SubSeqProperties DEF Pop
<1>11. \A i \in 1..k : i = k \/ i \in 1..(k - 1)
  BY <1>1
<1>12. AllLeft(N, ch, g, t) = AllLeft(N, ch, g, Pop(fs)) \cup Left(N, ch, g, f)
  BY <1>1, <1>5, <1>6, <1>10, <1>11 DEF AllLeft
<1>13. Len(t) = k /\ t[k] = f /\ \A i \in 1..(k - 1) : t[i] = fs[i]
  BY <1>1, <1>5, <1>6
<1>. QED
  BY <1>9, <1>12, <1>13

\* The top call returns.
LEMMA CallReturns ==
  ASSUME NEW N, NEW ch, NEW g, NEW fs, NEW s, Shape(N, ch, g, fs, s), fs # <<>>,
         NEW f, f = fs[Len(fs)]
  PROVE  /\ f \in CallsOf(N) /\ s = Prefix(ch, g, f) /\ (f.at = "pop" => ch[f.node] # 0)
         /\ AllLeft(N, ch, g, fs) = AllLeft(N, ch, g, Pop(fs)) \cup Left(N, ch, g, f)
         /\ Shape(N, ch, g, Pop(fs), g[f.node].pre)
         /\ Open(N, ch, g, Pop(fs), g[f.node])
<1> DEFINE k == Len(fs)
           t == Pop(fs)
<1>1. fs \in Seq(CallsOf(N)) /\ k \in Nat \ {0} /\ k \in 1..k
  <2>1. fs \in Seq(CallsOf(N)) /\ k \in Nat \ {0}
    BY EmptySeq, LenProperties DEF Shape
  <2>. QED
    BY <2>1
<1>2. f \in CallsOf(N)
  BY <1>1, ElementOfSeq
<1>3. s = Prefix(ch, g, f) /\ (f.at = "pop" => ch[f.node] # 0)
  BY <1>1 DEF Shape
<1>4. \A i \in 1..(k - 1) : i \in 1..k /\ i < k
  BY <1>1
<1>5. t \in Seq(CallsOf(N)) /\ Len(t) = k - 1 /\ \A i \in 1..(k - 1) : t[i] = fs[i]
  <2>1. \A j \in 1..(k - 1) : fs[j] \in CallsOf(N)
    BY <1>1, <1>4, ElementOfSeq
  <2>2. 1 \in Int /\ k - 1 \in Int
    BY <1>1
  <2> HIDE DEF k
  <2>3. /\ SubSeq(fs, 1, k - 1) \in Seq(CallsOf(N))
        /\ Len(SubSeq(fs, 1, k - 1)) = IF 1 <= k - 1 THEN (k - 1) - 1 + 1 ELSE 0
        /\ \A i \in 1..((k - 1) - 1 + 1) : SubSeq(fs, 1, k - 1)[i] = fs[1 + i - 1]
    BY <2>1, <2>2, SubSeqProperties
  <2>4. t = SubSeq(fs, 1, k - 1)
    BY DEF Pop, k
  <2> HIDE DEF t
  <2>5. Len(t) = k - 1
    BY <1>1, <2>3, <2>4
  <2>6. (k - 1) - 1 + 1 = k - 1
    BY <1>1
  <2>7. \A i \in 1..(k - 1) : t[i] = fs[i]
    BY <1>1, <2>3, <2>4, <2>6
  <2>. QED
    BY <2>3, <2>4, <2>5, <2>7
<1>6. \A i \in 1..k : i = k \/ i \in 1..(k - 1)
  BY <1>1
<1>7. AllLeft(N, ch, g, fs) = AllLeft(N, ch, g, t) \cup Left(N, ch, g, f)
  BY <1>1, <1>4, <1>5, <1>6 DEF AllLeft
<1>8. \A i \in 1..(k - 1) : i = k - 1 => g[f.node].pre = Prefix(ch, g, t[i])
  <2> SUFFICES ASSUME NEW i \in 1..(k - 1), i = k - 1 PROVE g[f.node].pre = Prefix(ch, g, t[i])
    OBVIOUS
  <2>1. k = i + 1
    BY <1>1
  <2>. QED
    BY <1>1, <1>4, <1>5, <2>1 DEF Shape
<1>9. Shape(N, ch, g, t, g[f.node].pre)
  <2>1. \A i \in 1..(k - 1) : t[i].at = "pop" => ch[t[i].node] # 0
    BY <1>4, <1>5 DEF Shape
  <2>2. \A i, j \in 1..(k - 1) : i < j =>
          Waits(t[i]) /\ Below(N, ch, g, g[t[j].node]) \subseteq Busy(N, ch, g, t[i])
    BY <1>4, <1>5 DEF Shape
  <2>3. \A i, j \in 1..(k - 1) : j = i + 1 => g[t[j].node].pre = Prefix(ch, g, t[i])
    BY <1>4, <1>5 DEF Shape
  <2> HIDE DEF t, k
  <2>. QED
    BY <1>5, <1>8, <2>1, <2>2, <2>3 DEF Shape
<1>10. Open(N, ch, g, t, g[f.node])
  BY <1>1, <1>4, <1>5 DEF Open, Shape
<1> HIDE DEF k
<1>. QED
  BY <1>2, <1>3, <1>7, <1>9, <1>10, Zenon

\* What is printed below the top call comes before what the others have left.
LEMMA OthersLater ==
  ASSUME NEW N, NEW ch, NEW lk, NEW g, Tree(N, ch, lk, g),
         NEW fs, NEW s, Shape(N, ch, g, fs, s), NEW r, Open(N, ch, g, fs, r)
  PROVE  AllBefore(g, Below(N, ch, g, r), AllLeft(N, ch, g, fs))
<1> SUFFICES ASSUME NEW i \in 1..Len(fs), NEW a \in Below(N, ch, g, r),
                    NEW b \in Left(N, ch, g, fs[i])
             PROVE  Before(g[a].pre, g[b].pre)
  BY DEF AllBefore, AllLeft
<1> DEFINE n == fs[i].node
<1>1. fs[i] \in CallsOf(N)
  BY ElementOfSeq DEF Shape
<1>2. n \in 1..N
  BY <1>1 DEF CallsOf
<1>3. Waits(fs[i]) /\ a \in Busy(N, ch, g, fs[i])
  BY DEF Open
<1>4. CASE fs[i].at = "self"
  <2>1. a \in EndsAt(N, ch, g, n, "lo")
    BY <1>3, <1>4 DEF Busy
  <2>2. b \in OwnEnds(N, ch, g, n) \cup EndsAt(N, ch, g, n, "hi")
    BY <1>4 DEF Left
  <2>. QED
    BY <1>2, <2>1, <2>2, NodeOrder DEF AllBefore
<1>5. CASE fs[i].at = "pop"
  <2>1. a \in EndsAt(N, ch, g, n, "eq")
    BY <1>3, <1>5 DEF Busy
  <2>2. ch[n] # 0
    BY <1>5 DEF Shape
  <2>3. a \in OwnEnds(N, ch, g, n)
    BY <2>1, <2>2 DEF OwnEnds
  <2>4. b \in EndsAt(N, ch, g, n, "hi")
    BY <1>5 DEF Left
  <2>. QED
    BY <1>2, <2>3, <2>4, NodeOrder DEF AllBefore
<1>. QED
  BY <1>3, <1>4, <1>5 DEF Waits
-----------------------------------------------------------------------------
(***************************************************************************)
(* The print: what was printed are the strings of the ends that no call has*)
(* left, and they come before those of the ends that are left.             *)
(***************************************************************************)
Printed(g) == Ends(Len(mem), Chars) \ AllLeft(Len(mem), Chars, g, frames)

Rising(s) == \A i, j \in DOMAIN s : i < j => Before(s[i], s[j])

Printing(g) ==
  /\ Shape(Len(mem), Chars, g, frames, str)
  /\ out \in Seq(Seq(1..255))
  /\ {out[i] : i \in DOMAIN out} = {g[n].pre : n \in Printed(g)}
  /\ Rising(out)
  /\ AllBefore(g, Printed(g), AllLeft(Len(mem), Chars, g, frames))

PrintInv ==
  /\ pc \notin {"print", "printed", "climb", "spell", "spelled", "assert"} =>
       str = <<>> /\ out = <<>>
  /\ pc = "print" => \E g : MemTree(g) /\ Printing(g)
  /\ PrintsSorted

\* A step that prints no string.
LEMMA PrintsNone ==
  ASSUME UNCHANGED kept, out' = out, NEW g, MemTree(g), Printing(g),
         Shape(Len(mem), Chars, g, frames', str'),
         AllLeft(Len(mem), Chars, g, frames') = AllLeft(Len(mem), Chars, g, frames)
  PROVE  MemTree(g)' /\ Printing(g)'
<1>1. mem' = mem /\ root' = root
  BY DEF kept
<1>2. Chars' = Chars /\ Len(mem') = Len(mem)
  BY <1>1 DEF Chars
<1>3. MemTree(g)'
  BY <1>1, SameMem
<1>4. Printed(g)' = Printed(g)
  BY <1>2 DEF Printed
<1>. QED
  BY <1>2, <1>3, <1>4 DEF Printing

\* The links of a node are there if something is below them.
LEMMA LinkLeads ==
  ASSUME NEW N, NEW ch, NEW lk, NEW g, Tree(N, ch, lk, g), NEW n \in 1..N, NEW l \in Kid,
         NEW m, m = lk[n][l]
  PROVE  /\ m = Null => EndsAt(N, ch, g, n, l) = {}
         /\ m # Null => m \in 1..N /\ g[m] = At(ch, g, n, l)
<1>1. TreeLinks(N, ch, lk, g) /\ FreeOfNodes(N, ch, lk, g)
  BY DEF Tree
<1>2. m = Null => EndsAt(N, ch, g, n, l) = {}
  BY <1>1 DEF FreeOfNodes, EndsAt, Below, Ends
<1>. QED
  BY <1>1, <1>2 DEF TreeLinks

\* What is known of the call that runs, at node n.
AtTop(g, N, n) ==
  /\ Shape(N, Chars, g, frames, str) /\ Tree(N, Chars, Links, g)
  /\ Top \in CallsOf(N) /\ n \in 1..N /\ str = Prefix(Chars, g, Top)
  /\ Top.at = "pop" => Chars[n] # 0
  /\ AllLeft(N, Chars, g, frames) =
       AllLeft(N, Chars, g, Pop(frames)) \cup Left(N, Chars, g, Top)
  /\ Shape(N, Chars, g, Pop(frames), g[n].pre)
  /\ Open(N, Chars, g, Pop(frames), g[n])
  /\ g[n].pre \in Seq(1..255)
  /\ Chars[n] = mem[n].ch /\ Chars[n] \in Symbol
  /\ Links[n]["lo"] = mem[n].lo /\ Links[n]["hi"] = mem[n].hi
  /\ Chars[n] # 0 => Links[n]["eq"] = mem[n].eq

\* What the call on top has to do with the tree.
LEMMA TopCall ==
  ASSUME TypeOK, NEW g, MemTree(g), Printing(g), frames # <<>>,
         NEW N, N = Len(mem), NEW n, n = Top.node
  PROVE  AtTop(g, N, n)
<1>1. Shape(N, Chars, g, frames, str) /\ Tree(N, Chars, Links, g)
  BY DEF Printing, MemTree
<1>2. /\ Top \in CallsOf(N) /\ str = Prefix(Chars, g, Top)
      /\ Top.at = "pop" => Chars[n] # 0
      /\ AllLeft(N, Chars, g, frames) =
           AllLeft(N, Chars, g, Pop(frames)) \cup Left(N, Chars, g, Top)
      /\ Shape(N, Chars, g, Pop(frames), g[n].pre)
      /\ Open(N, Chars, g, Pop(frames), g[n])
  BY <1>1, CallReturns DEF Top
<1>3. n \in 1..N
  BY <1>2 DEF CallsOf
<1>4. g[n].pre \in Seq(1..255) /\ Chars[n] \in Symbol
  BY <1>1, <1>3 DEF Tree, TreeTypes
<1>5. Chars[n] = mem[n].ch
  BY <1>3 DEF Chars
<1>6. /\ Links[n]["lo"] = mem[n].lo /\ Links[n]["hi"] = mem[n].hi
      /\ mem[n].ch # 0 => Links[n]["eq"] = mem[n].eq
  BY <1>3 DEF Links, LinkTo, Kid
<1>. QED
  BY <1>1, <1>2, <1>3, <1>4, <1>5, <1>6 DEF AtTop

\* A call of which the region is part of the top call's.
LEMMA PartOpen ==
  ASSUME NEW N, NEW ch, NEW lk, NEW g, Tree(N, ch, lk, g), NEW n \in 1..N, NEW l \in Kid,
         ch[n] = 0 => l # "eq"
  PROVE  /\ EndsAt(N, ch, g, n, l) \subseteq Below(N, ch, g, g[n])
         /\ At(ch, g, n, l).pre = IF l = "eq" THEN Append(g[n].pre, ch[n]) ELSE g[n].pre
<1>1. EndsAt(N, ch, g, n, l) \subseteq Below(N, ch, g, g[n])
  <2>1. Below(N, ch, g, g[n]) = EndsAt(N, ch, g, n, "lo") \cup OwnEnds(N, ch, g, n)
                                \cup EndsAt(N, ch, g, n, "hi")
    BY NodeOrder
  <2>2. ch[n] # 0 => OwnEnds(N, ch, g, n) = EndsAt(N, ch, g, n, "eq")
    BY DEF OwnEnds
  <2>3. l = "lo" \/ l = "hi" \/ (l = "eq" /\ ch[n] # 0)
    BY DEF Kid
  <2>. QED
    BY <2>1, <2>2, <2>3
<1>2. At(ch, g, n, l).pre = IF l = "eq" THEN Append(g[n].pre, ch[n]) ELSE g[n].pre
  BY DEF At, Part, Kid
<1>. QED
  BY <1>1, <1>2

LEMMA CallWaits ==
  ASSUME NEW N, NEW ch, NEW g, NEW fs, NEW s, Shape(N, ch, g, fs, s), fs # <<>>,
         NEW f, Waits(f), NEW t, Len(t) = Len(fs), t[Len(fs)] = f,
         \A i \in 1..(Len(fs) - 1) : t[i] = fs[i],
         NEW r, Below(N, ch, g, r) \subseteq Busy(N, ch, g, f),
         Below(N, ch, g, r) \subseteq Below(N, ch, g, g[fs[Len(fs)].node])
  PROVE  Open(N, ch, g, t, r)
<1> DEFINE k == Len(fs)
<1>1. k \in Nat \ {0}
  BY EmptySeq, LenProperties DEF Shape
<1>2. \A i \in 1..k : i = k \/ (i \in 1..(k - 1) /\ i < k)
  BY <1>1
<1>3. k \in 1..k
  BY <1>1
<1>4. \A i \in 1..k : i < k =>
        Waits(fs[i]) /\ Below(N, ch, g, g[fs[k].node]) \subseteq Busy(N, ch, g, fs[i])
  BY <1>3 DEF Shape
<1> HIDE DEF k
<1>5. ASSUME NEW i \in 1..k PROVE Waits(t[i]) /\ Below(N, ch, g, r) \subseteq Busy(N, ch, g, t[i])
  <2>1. CASE i = k
    BY <2>1 DEF k
  <2>2. CASE i # k
    <3>1. i \in 1..(k - 1) /\ i < k
      BY <1>2, <2>2
    <3>2. t[i] = fs[i]
      BY <3>1 DEF k
    <3>3. Below(N, ch, g, g[fs[k].node]) \subseteq Busy(N, ch, g, fs[i]) /\ Waits(fs[i])
      BY <1>4, <3>1
    <3>. QED
      BY <3>2, <3>3 DEF k
  <2>. QED
    BY <2>1, <2>2
<1>. QED
  BY <1>5 DEF Open, k

LEMMA TopGoesOn ==
  ASSUME NEW N, NEW ch, NEW g, Shape(N, ch, g, frames, str), frames # <<>>,
         NEW at \in Places, at = "pop" => ch[Top.node] # 0,
         NEW f, f = [node |-> Top.node, at |-> at],
         NEW t, t = GoOn(at)
  PROVE  /\ Shape(N, ch, g, t, Prefix(ch, g, f))
         /\ AllLeft(N, ch, g, t) = AllLeft(N, ch, g, Pop(frames)) \cup Left(N, ch, g, f)
         /\ \A r : /\ Waits(f) /\ Below(N, ch, g, r) \subseteq Busy(N, ch, g, f)
                  /\ Below(N, ch, g, r) \subseteq Below(N, ch, g, g[Top.node])
                  => Open(N, ch, g, t, r)
<1>1. GoneOn(frames, at, f, t)
  BY DEF Top, GoOn, GoneOn
<1>3. at = "pop" => ch[frames[Len(frames)].node] # 0
  BY DEF Top
<1>4. /\ Shape(N, ch, g, t, Prefix(ch, g, f))
      /\ AllLeft(N, ch, g, t) = AllLeft(N, ch, g, Pop(frames)) \cup Left(N, ch, g, f)
      /\ Len(t) = Len(frames) /\ t[Len(frames)] = f
      /\ \A i \in 1..(Len(frames) - 1) : t[i] = frames[i]
  BY <1>1, <1>3, CallGoesOn
<1>5. ASSUME NEW r, Waits(f), Below(N, ch, g, r) \subseteq Busy(N, ch, g, f),
             Below(N, ch, g, r) \subseteq Below(N, ch, g, g[Top.node])
      PROVE  Open(N, ch, g, t, r)
  <2>1. Below(N, ch, g, r) \subseteq Below(N, ch, g, g[frames[Len(frames)].node])
    BY <1>5 DEF Top
  <2>. QED
    BY <1>4, <1>5, <2>1, CallWaits, Zenon
<1>. QED
  BY <1>4, <1>5, Zenon

LEMMA PopAppend ==
  ASSUME NEW S, NEW s \in Seq(S), NEW x \in S
  PROVE  Pop(Append(s, x)) = s
<1> DEFINE k == Len(s)
           t == Append(s, x)
<1>1. k \in Nat /\ t \in Seq(S) /\ Len(t) = k + 1 /\ \A i \in 1..k : t[i] = s[i]
  BY AppendProperties, LenProperties
<1> HIDE DEF t, k
<1>2. Pop(t) = SubSeq(t, 1, k)
  <2>1. (k + 1) - 1 = k
    BY <1>1
  <2>. QED
    BY <1>1, <2>1 DEF Pop
<1>3. \A i \in 1..k : t[i] \in S
  BY <1>1, ElementOfSeq DEF k
<1>4. 1 \in Int /\ k \in Int /\ k - 1 + 1 = k
  BY <1>1
<1>5. /\ SubSeq(t, 1, k) \in Seq(S) /\ Len(SubSeq(t, 1, k)) = IF 1 <= k THEN k - 1 + 1 ELSE 0
      /\ \A i \in 1..(k - 1 + 1) : SubSeq(t, 1, k)[i] = t[1 + i - 1]
  BY <1>3, <1>4, SubSeqProperties
<1>6. Len(SubSeq(t, 1, k)) = k /\ \A i \in 1..k : SubSeq(t, 1, k)[i] = s[i]
  BY <1>1, <1>4, <1>5
<1>7. SubSeq(t, 1, k) = s
  BY <1>5, <1>6, SeqEqual DEF k
<1>. QED
  BY <1>2, <1>7 DEF t

LEMMA PrintLoStep ==
  ASSUME TrieInv, NEW g, MemTree(g), Printing(g), PrintLo
  PROVE  MemTree(g)' /\ Printing(g)'
<1> DEFINE N == Len(mem)
           n == Top.node
           f == [node |-> n, at |-> "self"]
           t == GoOn("self")
           m == mem[n].lo
           r == At(Chars, g, n, "lo")
<1>1. TypeOK /\ frames # <<>> /\ Top.at = "lo" /\ UNCHANGED kept /\ out' = out /\ str' = str
  BY DEF TrieInv, PrintLo
<1>2. /\ Shape(N, Chars, g, frames, str) /\ Tree(N, Chars, Links, g)
      /\ n \in 1..N /\ str = Prefix(Chars, g, Top)
      /\ AllLeft(N, Chars, g, frames) =
           AllLeft(N, Chars, g, Pop(frames)) \cup Left(N, Chars, g, Top)
      /\ Open(N, Chars, g, Pop(frames), g[n])
      /\ m = Links[n]["lo"]
  <2>1. N = Len(mem) /\ n = Top.node
    OBVIOUS
  <2> HIDE DEF N, n, m
  <2>2. AtTop(g, N, n)
    BY <1>1, <2>1, TopCall, Zenon
  <2>. QED
    BY <1>1, <2>1, <2>2 DEF AtTop, m
<1>3. /\ Shape(N, Chars, g, t, Prefix(Chars, g, f))
      /\ AllLeft(N, Chars, g, t) = AllLeft(N, Chars, g, Pop(frames)) \cup Left(N, Chars, g, f)
      /\ \A x : /\ Waits(f) /\ Below(N, Chars, g, x) \subseteq Busy(N, Chars, g, f)
               /\ Below(N, Chars, g, x) \subseteq Below(N, Chars, g, g[n])
               => Open(N, Chars, g, t, x)
  <2>1. "self" \in Places
    BY DEF Places
  <2> HIDE DEF f, t
  <2>2. f = [node |-> Top.node, at |-> "self"] /\ t = GoOn("self")
    BY DEF f, t
  <2>. QED
    BY <1>1, <1>2, <2>1, <2>2, TopGoesOn
<1>4. Prefix(Chars, g, f) = g[n].pre /\ str = g[n].pre /\ Left(N, Chars, g, Top) = Below(N, Chars, g, g[n])
  BY <1>1, <1>2 DEF Prefix, Left
<1>5. /\ EndsAt(N, Chars, g, n, "lo") \subseteq Below(N, Chars, g, g[n])
      /\ r.pre = str /\ Below(N, Chars, g, r) = EndsAt(N, Chars, g, n, "lo")
  BY <1>2, <1>4, PartOpen DEF Kid, EndsAt
<1>6. Open(N, Chars, g, t, r)
  <2>1. Waits(f) /\ Busy(N, Chars, g, f) = EndsAt(N, Chars, g, n, "lo")
    BY DEF Waits, Busy
  <2>. QED
    BY <1>3, <1>5, <2>1
<1>7. /\ m = Null => Below(N, Chars, g, r) = {}
      /\ m # Null => m \in 1..N /\ g[m] = r
  BY <1>2, <1>5, LinkLeads DEF Kid
<1>8. Shape(N, Chars, g, t, str)
  BY <1>3, <1>4
<1> HIDE DEF t, r, m, f, n
<1>9. /\ Shape(N, Chars, g, Enter(t, m), str)
      /\ AllLeft(N, Chars, g, Enter(t, m)) = AllLeft(N, Chars, g, t) \cup Below(N, Chars, g, r)
  BY <1>5, <1>6, <1>7, <1>8, CallMade
<1>10. frames' = Enter(t, m)
  BY DEF PrintLo, t, m, n
<1>11. Left(N, Chars, g, f) = OwnEnds(N, Chars, g, n) \cup EndsAt(N, Chars, g, n, "hi")
  BY DEF Left, f
<1>12. AllLeft(N, Chars, g, frames') = AllLeft(N, Chars, g, frames)
  <2>1. Below(N, Chars, g, g[n]) = EndsAt(N, Chars, g, n, "lo") \cup OwnEnds(N, Chars, g, n)
                                   \cup EndsAt(N, Chars, g, n, "hi")
    BY <1>2, NodeOrder
  <2>. QED
    BY <1>2, <1>3, <1>4, <1>5, <1>9, <1>10, <1>11, <2>1
<1>. QED
  BY <1>1, <1>9, <1>10, <1>12, PrintsNone

\* The strings with the node's character are printed, or the one that ends here.
LEMMA PrintSelfStep ==
  ASSUME TrieInv, NEW g, MemTree(g), Printing(g), PrintSelf
  PROVE  MemTree(g)' /\ Printing(g)'
<1> DEFINE N == Len(mem)
           n == Top.node
           at == IF Chars[n] = 0 THEN "hi" ELSE "pop"
           f == [node |-> n, at |-> at]
           t == GoOn(at)
           rs == AllLeft(N, Chars, g, Pop(frames))
           hi == EndsAt(N, Chars, g, n, "hi")
           own == OwnEnds(N, Chars, g, n)
<1>1. TypeOK /\ frames # <<>> /\ Top.at = "self" /\ UNCHANGED kept
  BY DEF TrieInv, PrintSelf
<1>2. /\ Shape(N, Chars, g, frames, str) /\ Tree(N, Chars, Links, g)
      /\ n \in 1..N /\ str = Prefix(Chars, g, Top)
      /\ AllLeft(N, Chars, g, frames) = rs \cup Left(N, Chars, g, Top)
      /\ Shape(N, Chars, g, Pop(frames), g[n].pre)
      /\ Open(N, Chars, g, Pop(frames), g[n])
      /\ g[n].pre \in Seq(1..255) /\ Chars[n] = mem[n].ch
      /\ Chars[n] # 0 => Links[n]["eq"] = mem[n].eq
  <2>1. N = Len(mem) /\ n = Top.node
    OBVIOUS
  <2> HIDE DEF N, n, rs
  <2>2. AtTop(g, N, n)
    BY <1>1, <2>1, TopCall, Zenon
  <2>. QED
    BY <1>1, <2>1, <2>2 DEF AtTop, rs
<1>3. /\ Shape(N, Chars, g, t, Prefix(Chars, g, f))
      /\ AllLeft(N, Chars, g, t) = rs \cup Left(N, Chars, g, f)
      /\ \A x : /\ Waits(f) /\ Below(N, Chars, g, x) \subseteq Busy(N, Chars, g, f)
               /\ Below(N, Chars, g, x) \subseteq Below(N, Chars, g, g[n])
               => Open(N, Chars, g, t, x)
  <2>1. at \in Places /\ (at = "pop" => Chars[n] # 0)
    BY DEF Places
  <2> HIDE DEF f, t, at
  <2>2. f = [node |-> Top.node, at |-> at] /\ t = GoOn(at)
    BY DEF f, t
  <2>. QED
    BY <1>1, <1>2, <2>1, <2>2, TopGoesOn
<1>4. str = g[n].pre /\ Left(N, Chars, g, Top) = own \cup hi
  BY <1>1, <1>2 DEF Prefix, Left
<1>5. Left(N, Chars, g, f) = hi
  BY DEF Left
<1>6. /\ AllBefore(g, own, hi)
      /\ Below(N, Chars, g, g[n]) = EndsAt(N, Chars, g, n, "lo") \cup own \cup hi
  BY <1>2, NodeOrder
<1>7. CASE Chars[n] = 0
  <2>1. own = {n} /\ n \in Ends(N, Chars)
    BY <1>2, <1>7 DEF OwnEnds, Ends
  <2>2. Prefix(Chars, g, f) = g[n].pre /\ at = "hi"
    BY <1>7 DEF Prefix
  <2>3. frames' = t /\ str' = str /\ out' = Append(out, str) /\ pc' = pc
    BY <1>2, <1>7 DEF PrintSelf
  <2> DEFINE R == AllLeft(N, Chars, g, frames)
             R2 == AllLeft(N, Chars, g, frames')
  <2>4. R = rs \cup hi \cup {n} /\ R2 = rs \cup hi
    BY <1>2, <1>3, <1>4, <1>5, <2>1, <2>3
  <2>5. ASSUME NEW b \in R2 PROVE Before(g[n].pre, g[b].pre)
    <3>1. AllBefore(g, Below(N, Chars, g, g[n]), rs)
      BY <1>2, OthersLater
    <3>. QED
      BY <1>6, <2>1, <2>4, <3>1 DEF AllBefore
  <2>6. n \notin R2
    BY <1>2, <2>5, NotBefore
  <2>7. Ends(N, Chars) \ R2 = (Ends(N, Chars) \ R) \cup {n}
    BY <2>1, <2>4, <2>6
  <2>8. mem' = mem /\ root' = root
    BY <1>1 DEF kept
  <2>9. Chars' = Chars /\ Len(mem') = N /\ MemTree(g)'
    BY <2>8, SameMem DEF Chars
  <2>10. Printed(g)' = Printed(g) \cup {n}
    BY <2>7, <2>9 DEF Printed
  <2>11. /\ out \in Seq(Seq(1..255)) /\ {out[i] : i \in DOMAIN out} = {g[m].pre : m \in Printed(g)}
         /\ Rising(out) /\ AllBefore(g, Printed(g), R)
    BY DEF Printing
  <2>12. /\ out' \in Seq(Seq(1..255)) /\ Len(out) \in Nat /\ Len(out') = Len(out) + 1
         /\ out'[Len(out) + 1] = str /\ \A i \in 1..Len(out) : out'[i] = out[i]
    BY <1>2, <1>4, <2>3, <2>11, AppendProperties, LenProperties
  <2>13. DOMAIN out = 1..Len(out) /\ DOMAIN out' = 1..(Len(out) + 1)
    BY <2>11, <2>12, LenProperties
  <2>14. \A i \in 1..(Len(out) + 1) : i = Len(out) + 1 \/ (i \in 1..Len(out) /\ i < Len(out) + 1)
    BY <2>12
  <2>15. Len(out) + 1 \in 1..(Len(out) + 1) /\ \A i \in 1..Len(out) : i \in 1..(Len(out) + 1)
    BY <2>12
  <2>16. {out'[i] : i \in DOMAIN out'} = {g[m].pre : m \in Printed(g)'}
    <3>1. {out'[i] : i \in DOMAIN out'} = {out[i] : i \in DOMAIN out} \cup {str}
      BY <2>12, <2>13, <2>14, <2>15
    <3>2. {g[m].pre : m \in Printed(g) \cup {n}} = {g[m].pre : m \in Printed(g)} \cup {g[n].pre}
      OBVIOUS
    <3>. QED
      BY <1>4, <2>10, <2>11, <3>1, <3>2
  <2>17. \A i \in DOMAIN out : Before(out[i], str)
    <3> SUFFICES ASSUME NEW i \in DOMAIN out PROVE Before(out[i], str)
      OBVIOUS
    <3>1. PICK m \in Printed(g) : out[i] = g[m].pre
      BY <2>11
    <3>2. Before(g[m].pre, g[n].pre)
      BY <2>4, <2>11 DEF AllBefore
    <3>. QED
      BY <1>4, <3>1, <3>2
  <2>18. Rising(out)'
    <3> SUFFICES ASSUME NEW i \in DOMAIN out', NEW j \in DOMAIN out', i < j
                 PROVE  Before(out'[i], out'[j])
      BY DEF Rising
    <3>1. i \in 1..Len(out)
      BY <2>12, <2>13
    <3>2. CASE j \in 1..Len(out)
      BY <2>11, <2>12, <2>13, <3>1, <3>2 DEF Rising
    <3>3. CASE j = Len(out) + 1
      BY <2>12, <2>13, <2>17, <3>1, <3>3
    <3>. QED
      BY <2>13, <2>14, <3>2, <3>3
  <2>19. AllBefore(g, Printed(g)', R2)
    <3> SUFFICES ASSUME NEW a \in Printed(g) \cup {n}, NEW b \in R2
                 PROVE  Before(g[a].pre, g[b].pre)
      BY <2>10 DEF AllBefore
    <3>1. b \in R
      BY <2>4
    <3>. QED
      BY <2>5, <2>11, <3>1 DEF AllBefore
  <2>20. Shape(N, Chars, g, frames', str')
    BY <1>3, <1>4, <2>2, <2>3
  <2> HIDE DEF R2, N
  <2>. QED
    BY <2>9, <2>12, <2>16, <2>18, <2>19, <2>20 DEF Printing, R2, N
<1>8. CASE Chars[n] # 0
  <2> DEFINE m == mem[n].eq
             r == At(Chars, g, n, "eq")
             s == Append(str, Chars[n])
  <2>1. frames' = Enter(t, m) /\ str' = s /\ out' = out
    BY <1>2, <1>8 DEF PrintSelf
  <2>2. Prefix(Chars, g, f) = s
    BY <1>4, <1>8 DEF Prefix
  <2>3. own = EndsAt(N, Chars, g, n, "eq")
    BY <1>8 DEF OwnEnds
  <2>4. r.pre = s /\ Below(N, Chars, g, r) = EndsAt(N, Chars, g, n, "eq")
    <3>1. r.pre = Append(g[n].pre, Chars[n])
      BY DEF At, Part
    <3>. QED
      BY <1>4, <3>1 DEF EndsAt
  <2>5. Open(N, Chars, g, t, r)
    <3>1. Waits(f) /\ Busy(N, Chars, g, f) = EndsAt(N, Chars, g, n, "eq")
      BY <1>8 DEF Waits, Busy
    <3>. QED
      BY <1>3, <1>6, <2>3, <2>4, <3>1
  <2>6. /\ m = Null => Below(N, Chars, g, r) = {}
        /\ m # Null => m \in 1..N /\ g[m] = r
    BY <1>2, <1>8, <2>4, LinkLeads DEF Kid
  <2>7. Shape(N, Chars, g, t, s)
    BY <1>3, <2>2
  <2> HIDE DEF t, r, m, f, n, s, own, hi, rs
  <2>8. /\ Shape(N, Chars, g, Enter(t, m), s)
        /\ AllLeft(N, Chars, g, Enter(t, m)) = AllLeft(N, Chars, g, t) \cup Below(N, Chars, g, r)
    BY <2>4, <2>5, <2>6, <2>7, CallMade
  <2>9. AllLeft(N, Chars, g, frames') = AllLeft(N, Chars, g, frames)
    BY <1>2, <1>3, <1>4, <1>5, <2>1, <2>3, <2>4, <2>8
  <2>. QED
    BY <1>1, <2>1, <2>8, <2>9, PrintsNone
<1>. QED
  BY <1>7, <1>8

LEMMA PrintPopStep ==
  ASSUME TrieInv, NEW g, MemTree(g), Printing(g), PrintPop
  PROVE  MemTree(g)' /\ Printing(g)'
<1> DEFINE N == Len(mem)
           n == Top.node
           f == [node |-> n, at |-> "hi"]
           t == GoOn("hi")
<1>1. /\ TypeOK /\ frames # <<>> /\ Top.at = "pop" /\ UNCHANGED kept /\ out' = out
      /\ frames' = t /\ str' = Pop(str)
  BY DEF TrieInv, PrintPop
<1>2. /\ Shape(N, Chars, g, frames, str) /\ n \in 1..N /\ str = Prefix(Chars, g, Top)
      /\ AllLeft(N, Chars, g, frames) = AllLeft(N, Chars, g, Pop(frames)) \cup Left(N, Chars, g, Top)
      /\ g[n].pre \in Seq(1..255) /\ Chars[n] \in Symbol /\ Chars[n] # 0
  <2>1. N = Len(mem) /\ n = Top.node
    OBVIOUS
  <2> HIDE DEF N, n
  <2>2. AtTop(g, N, n)
    BY <1>1, <2>1, TopCall, Zenon
  <2>. QED
    BY <1>1, <2>1, <2>2 DEF AtTop
<1>3. /\ Shape(N, Chars, g, t, Prefix(Chars, g, f))
      /\ AllLeft(N, Chars, g, t) = AllLeft(N, Chars, g, Pop(frames)) \cup Left(N, Chars, g, f)
  <2>1. "hi" \in Places
    BY DEF Places
  <2> HIDE DEF f, t
  <2>2. f = [node |-> Top.node, at |-> "hi"] /\ t = GoOn("hi")
    BY DEF f, t
  <2>. QED
    BY <1>1, <1>2, <2>1, <2>2, TopGoesOn
<1>4. /\ str = Append(g[n].pre, Chars[n]) /\ Prefix(Chars, g, f) = g[n].pre
      /\ Left(N, Chars, g, f) = Left(N, Chars, g, Top)
  BY <1>1, <1>2 DEF Prefix, Left
<1>5. Pop(str) = g[n].pre
  <2>1. Chars[n] \in 1..255
    BY <1>2 DEF Symbol
  <2>2. g[n].pre \in Seq(1..255)
    BY <1>2
  <2> HIDE DEF n
  <2>3. Pop(Append(g[n].pre, Chars[n])) = g[n].pre
    BY <2>1, <2>2, PopAppend
  <2>. QED
    BY <1>4, <2>3
<1>6. Shape(N, Chars, g, frames', str') /\ UNCHANGED kept /\ out' = out
  <2> HIDE DEF f, t, n, N
  <2>1. str' = Prefix(Chars, g, f)
    BY <1>1, <1>4, <1>5
  <2>. QED
    BY <1>1, <1>3, <2>1
<1>7. AllLeft(N, Chars, g, frames') = AllLeft(N, Chars, g, frames)
  BY <1>1, <1>2, <1>3, <1>4
<1>. QED
  BY <1>6, <1>7, PrintsNone

LEMMA PrintHiStep ==
  ASSUME TrieInv, NEW g, MemTree(g), Printing(g), PrintHi
  PROVE  MemTree(g)' /\ Printing(g)'
<1> DEFINE N == Len(mem)
           n == Top.node
           t == Pop(frames)
           m == mem[n].hi
           r == At(Chars, g, n, "hi")
<1>1. /\ TypeOK /\ frames # <<>> /\ Top.at = "hi" /\ UNCHANGED kept /\ out' = out /\ str' = str
      /\ frames' = Enter(t, m)
  BY DEF TrieInv, PrintHi
<1>2. /\ Tree(N, Chars, Links, g) /\ n \in 1..N /\ str = Prefix(Chars, g, Top)
      /\ AllLeft(N, Chars, g, frames) = AllLeft(N, Chars, g, t) \cup Left(N, Chars, g, Top)
      /\ Shape(N, Chars, g, t, g[n].pre)
      /\ Open(N, Chars, g, t, g[n])
      /\ m = Links[n]["hi"]
  <2>1. N = Len(mem) /\ n = Top.node
    OBVIOUS
  <2> HIDE DEF N, n, m, t
  <2>2. AtTop(g, N, n)
    BY <1>1, <2>1, TopCall, Zenon
  <2>. QED
    BY <1>1, <2>1, <2>2 DEF AtTop, m, t
<1>3. /\ str = g[n].pre /\ Left(N, Chars, g, Top) = EndsAt(N, Chars, g, n, "hi")
  BY <1>1, <1>2 DEF Prefix, Left
<1>4. /\ EndsAt(N, Chars, g, n, "hi") \subseteq Below(N, Chars, g, g[n])
      /\ r.pre = str /\ Below(N, Chars, g, r) = EndsAt(N, Chars, g, n, "hi")
  BY <1>2, <1>3, PartOpen DEF Kid, EndsAt
<1>5. Open(N, Chars, g, t, r)
  BY <1>2, <1>4 DEF Open
<1>6. /\ m = Null => Below(N, Chars, g, r) = {}
      /\ m # Null => m \in 1..N /\ g[m] = r
  BY <1>2, <1>4, LinkLeads DEF Kid
<1>7. Shape(N, Chars, g, t, str)
  BY <1>2, <1>3
<1> HIDE DEF t, r, m, n
<1>8. /\ Shape(N, Chars, g, Enter(t, m), str)
      /\ AllLeft(N, Chars, g, Enter(t, m)) = AllLeft(N, Chars, g, t) \cup Below(N, Chars, g, r)
  BY <1>4, <1>5, <1>6, <1>7, CallMade
<1>9. AllLeft(N, Chars, g, frames') = AllLeft(N, Chars, g, frames)
  BY <1>1, <1>2, <1>3, <1>4, <1>8
<1>10. Shape(N, Chars, g, frames', str') /\ UNCHANGED kept /\ out' = out
  BY <1>1, <1>8
<1>. QED
  BY <1>9, <1>10, PrintsNone

LEMMA PrintBegins ==
  ASSUME TrieInv, PrintInv, CallPrint, NEW g, MemTree(g)
  PROVE  MemTree(g)' /\ Printing(g)'
<1> DEFINE N == Len(mem)
           t == Enter(<<>>, root)
<1>1. /\ pc = "idle" /\ UNCHANGED kept /\ out' = out /\ str' = str /\ frames' = t
  BY DEF CallPrint
<1>2. str = <<>> /\ out = <<>>
  BY <1>1 DEF PrintInv
<1>3. Tree(N, Chars, Links, g) /\ mem \in Seq(Node) /\ Rooted
  BY DEF MemTree, TrieInv, TypeOK
<1>4. TreeTypes(N, Chars, Links, g) /\ TreeLinks(N, Chars, Links, g) /\ N \in Nat
  BY <1>3, MemFacts DEF Tree
<1>5. Below(N, Chars, g, Whole) = Ends(N, Chars)
  BY <1>4, AllInWhole
<1>6. /\ root = Null => Below(N, Chars, g, Whole) = {}
      /\ root # Null => root \in 1..N /\ g[root] = Whole
  <2>1. CASE mem = <<>>
    <3>1. N = 0 /\ root = Null
      BY <1>3, <2>1, EmptySeq DEF Rooted
    <3>2. 1..N = {}
      BY <3>1
    <3>. QED
      BY <1>5, <3>1, <3>2 DEF Ends
  <2>2. CASE mem # <<>>
    <3>1. root = 1 /\ N # 0
      BY <1>3, <2>2, EmptySeq DEF Rooted
    <3>2. N > 0 /\ 1 \in 1..N
      BY <1>4, <3>1
    <3>. QED
      BY <1>4, <3>1, <3>2 DEF TreeLinks, Null
  <2>. QED
    BY <2>1, <2>2
<1>7. Len(<<>>) = 0 /\ 1..0 = {} /\ DOMAIN <<>> = {}
      /\ <<>> \in Seq(CallsOf(N)) /\ <<>> \in Seq(Seq(1..255))
  BY EmptySeq
<1>8. Shape(N, Chars, g, <<>>, <<>>) /\ Open(N, Chars, g, <<>>, Whole)
      /\ AllLeft(N, Chars, g, <<>>) = {}
  BY <1>7 DEF Shape, Open, AllLeft
<1>9. Whole.pre = <<>>
  BY DEF Whole
<1>10. /\ Shape(N, Chars, g, t, <<>>)
       /\ AllLeft(N, Chars, g, t) = AllLeft(N, Chars, g, <<>>) \cup Below(N, Chars, g, Whole)
  BY <1>6, <1>8, <1>9, CallMade
<1>11. mem' = mem /\ root' = root
  BY <1>1 DEF kept
<1>12. Chars' = Chars /\ Len(mem') = N /\ MemTree(g)'
  BY <1>11, SameMem DEF Chars
<1>13. Printed(g)' = {}
  <2>1. AllLeft(N, Chars, g, frames') = Ends(N, Chars)
    BY <1>1, <1>5, <1>8, <1>10
  <2>. QED
    BY <1>12, <2>1 DEF Printed
<1>14. /\ {out'[i] : i \in DOMAIN out'} = {g[m].pre : m \in Printed(g)'}
       /\ Rising(out)' /\ out' \in Seq(Seq(1..255))
       /\ AllBefore(g, Printed(g)', AllLeft(N, Chars, g, frames'))
  BY <1>1, <1>2, <1>7, <1>13 DEF Rising, AllBefore
<1>15. Shape(N, Chars, g, frames', str')
  BY <1>1, <1>2, <1>10
<1> HIDE DEF t, N
<1>. QED
  BY <1>12, <1>14, <1>15 DEF Printing, N

\* When no call is left, all strings are printed.
LEMMA PrintEnds ==
  ASSUME TrieInv, PrintDone, NEW g, MemTree(g), Printing(g)
  PROVE  PrintsSorted'
<1>1. UNCHANGED kept /\ out' = out /\ frames = <<>>
  BY DEF PrintDone, printer
<1>2. mem' = mem /\ root' = root
  BY <1>1 DEF kept
<1>3. MemTree(g)' /\ Rooted' /\ KeysOf(g)' = KeysOf(g)
  BY <1>2, SameMem DEF TrieInv
<1>4. mem' \in Seq(Node)
  BY <1>2 DEF TrieInv, TypeOK
<1>5. Stored' = KeysOf(g)'
  <2>1. StoredRight'
    BY StoredIs, PTL
  <2>. QED
    BY <1>3, <1>4, <2>1 DEF StoredRight
<1>6. Printed(g) = Ends(Len(mem), Chars)
  <2>1. Len(<<>>) = 0 /\ 1..0 = {}
    BY EmptySeq
  <2>. QED
    BY <1>1, <2>1 DEF Printed, AllLeft
<1>7. {out[i] : i \in DOMAIN out} = KeysOf(g) /\ Rising(out)
  BY <1>6 DEF Printing, KeysOf
<1>. QED
  BY <1>1, <1>3, <1>5, <1>7 DEF PrintsSorted, Rising

LEMMA PrintInit == Init => PrintInv
BY DEF Init, PrintInv, PrintsSorted

LEMMA PrintStep == TrieInv /\ PrintInv /\ [Next]_vars => PrintInv'
<1> SUFFICES ASSUME TrieInv, PrintInv, [Next]_vars PROVE PrintInv'
  OBVIOUS
<1> DEFINE busy == {"print", "printed", "climb", "spell", "spelled", "assert"}
<1>1. ASSUME pc' = "print", \E g : MemTree(g)' /\ Printing(g)' PROVE PrintInv'
  BY <1>1 DEF PrintInv, PrintsSorted
<1>2. ASSUME pc \notin busy, UNCHANGED printer, pc' \notin {"print", "printed"} PROVE PrintInv'
  BY <1>2 DEF PrintInv, PrintsSorted, printer
<1>3. ASSUME NEW k \in Keys, CallInsert(k) PROVE PrintInv'
  BY <1>2, <1>3 DEF CallInsert, Call
<1>4. ASSUME NEW k \in Keys, CallLookup(k) PROVE PrintInv'
  BY <1>2, <1>4 DEF CallLookup, Call
<1>5. CASE Insert
  <2>1. /\ pc \in {"walk", "grow", "put"} /\ UNCHANGED printer
        /\ pc' \in {"idle", "walk", "grow", "put"}
    BY <1>5 DEF Insert, WalkFound, WalkNext, WalkEnd, Grow, SetValue, Return, Leave
  <2>. QED
    BY <1>2, <2>1
<1>6. CASE Lookup
  <2>1. pc = "lookup" /\ UNCHANGED printer /\ pc' \in {"idle", "lookup"}
    BY <1>6 DEF Lookup, LookupNext, LookupEnd, Return, Leave
  <2>. QED
    BY <1>2, <2>1
<1>7. CASE NoMemory
  BY <1>2, <1>7 DEF NoMemory
<1>8. CASE CallPrint
  <2>1. PICK g : MemTree(g)
    BY DEF TrieInv, SearchOK
  <2>2. pc' = "print" /\ MemTree(g)' /\ Printing(g)'
    BY <1>8, <2>1, PrintBegins DEF CallPrint
  <2>. QED
    BY <1>1, <2>2
<1>9. CASE PrintAll
  <2>1. pc = "print"
    BY <1>9 DEF PrintAll, PrintLo, PrintSelf, PrintPop, PrintHi, PrintDone
  <2>2. PICK g : MemTree(g) /\ Printing(g)
    BY <2>1 DEF PrintInv
  <2>3. CASE PrintDone
    <3>1. pc' = "printed" /\ PrintsSorted'
      BY <2>2, <2>3, PrintEnds DEF PrintDone
    <3>. QED
      BY <3>1 DEF PrintInv
  <2>4. CASE PrintLo \/ PrintSelf \/ PrintPop \/ PrintHi
    <3>1. MemTree(g)' /\ Printing(g)'
      BY <2>2, <2>4, PrintLoStep, PrintSelfStep, PrintPopStep, PrintHiStep
    <3>2. pc' = "print"
      BY <2>4 DEF PrintLo, PrintSelf, PrintPop, PrintHi, kept
    <3>. QED
      BY <1>1, <3>1, <3>2
  <2>. QED
    BY <1>9, <2>3, <2>4 DEF PrintAll
<1>10. ASSUME NEW n \in DOMAIN mem, CallPrintOne(n) PROVE PrintInv'
  BY <1>10 DEF CallPrintOne, PrintInv, PrintsSorted
<1>11. CASE PrintOne
  <2>1. \/ pc' \in {"climb", "spell", "spelled", "assert"}
        \/ pc' = "idle" /\ str' = <<>> /\ out' = <<>>
    BY <1>11 DEF PrintOne, Climb, SpellOne, Spelled
  <2>. QED
    BY <2>1 DEF PrintInv, PrintsSorted
<1>12. CASE UNCHANGED vars
  <2>1. mem' = mem /\ root' = root /\ frames' = frames /\ str' = str /\ out' = out /\ pc' = pc
    BY <1>12 DEF vars, printer
  <2>2. Chars' = Chars
    BY <2>1 DEF Chars
  <2>3. \A g : MemTree(g)' = MemTree(g)
    BY <2>1, SameMem
  <2>4. ASSUME NEW g, Printing(g) PROVE Printing(g)'
    BY <2>1, <2>2, <2>4 DEF Printing, Printed
  <2>5. Stored' = Stored
    BY <2>1 DEF Stored, Strings, Pointers
  <2>6. PrintsSorted' = PrintsSorted
    BY <2>1, <2>5 DEF PrintsSorted
  <2>. QED
    BY <2>1, <2>3, <2>4, <2>6 DEF PrintInv
<1>13. CASE Stopped
  BY <1>12, <1>13 DEF Stopped
<1>14. Insertable \subseteq Keys
  BY DEF Insertable
<1>. QED
  BY <1>3, <1>4, <1>5, <1>6, <1>7, <1>8, <1>9, <1>10, <1>11, <1>12, <1>13, <1>14 DEF Next, Step

(***************************************************************************)
(* TRIE_PRINT prints each string of the set once, in the order of their    *)
(* bytes: the walk leaves at each of its calls ends that come after all    *)
(* those of the calls below.                                               *)
(***************************************************************************)
THEOREM PrintedInOrder == Spec => []PrintsSorted
<1>1. PrintInv => PrintsSorted
  BY DEF PrintInv
<1>2. Init => TrieInv /\ PrintInv
  BY TrieInit, PrintInit
<1>3. TrieInv /\ PrintInv /\ [Next]_vars => (TrieInv /\ PrintInv)'
  BY TrieStep, PrintStep
<1>. QED
  BY <1>1, <1>2, <1>3, PTL DEF Spec

(***************************************************************************)
(* Printing one element.  Each node knows the one above it, and the last   *)
(* node of an element the one with its first character.                    *)
(***************************************************************************)
\* Node b has the first character of s.
Begins(N, ch, g, b, s) == /\ b \in 1..N /\ g[b].pre = <<>>
                          /\ Len(s) >= 1 /\ ch[b] = s[1]

Ups ==
  \A n \in 1..Len(mem) :
    IF n = 1 THEN mem[n].up = Null
    ELSE /\ mem[n].up \in 1..Len(mem)
         /\ \E l \in Kid : Links[mem[n].up][l] = n

Bases(g) == \A n \in Ends(Len(mem), Chars) : Begins(Len(mem), Chars, g, mem[n].eq, g[n].pre)

\* The locals 'up' and 'base' on the way down.
Locals(g) == /\ key # <<>> /\ up = ptr.node
             /\ IF Len(Reached(g).pre) = 0 THEN base = Null
                ELSE Begins(Len(mem), Chars, g, base, key)

\* s is what comes after the first d symbols of p, from its end.
Reversed(s, p, d) == /\ Len(s) = Len(p) - d
                     /\ \A i \in 1..Len(s) : s[i] = p[Len(p) + 1 - i]

\* On the way up, the node reached is on the way down to the element.
Climbing(g) ==
  /\ frames[1] \in Ends(Len(mem), Chars)
  /\ q \in 1..Len(mem)
  /\ In(g[q], WordOf(Chars, g, frames[1]))
  /\ Reversed(str, g[frames[1]].pre, Len(g[q].pre))
  /\ pc = "spell" <=> Len(g[q].pre) = 0

ElemTree(g) ==
  /\ MemTree(g) /\ Ups /\ Bases(g)
  /\ pc \in {"walk", "grow"} => OnWay(g) /\ Locals(g)
  /\ pc \in {"climb", "spell"} => Climbing(g)

ElemInv == /\ Elems => \E g : ElemTree(g)
           /\ pc \in {"climb", "spell"} => Elems
           /\ PrintsElement

\* As long as the nodes stay, so does what is known of them.
LEMMA SameElems ==
  ASSUME mem' = mem, root' = root, NEW g, MemTree(g), Ups, Bases(g)
  PROVE  MemTree(g)' /\ Ups' /\ Bases(g)' /\ Chars' = Chars /\ Len(mem') = Len(mem)
<1>1. MemTree(g)'
  BY SameMem
<1>2. Chars' = Chars /\ Links' = Links /\ Len(mem') = Len(mem)
  BY DEF Chars, Links
<1>. QED
  BY <1>1, <1>2 DEF Ups, Bases

\* A step at which nothing is searched or climbed.
LEMMA ElemsRest ==
  ASSUME ElemInv, mem' = mem, root' = root, build' = build,
         pc' \notin {"walk", "grow", "climb", "spell", "spelled", "assert"}
  PROVE  ElemInv'
<1>1. Elems' = Elems
  BY DEF Elems
<1>2. ASSUME Elems PROVE \E g : ElemTree(g)'
  <2>1. PICK g : ElemTree(g)
    BY <1>2 DEF ElemInv
  <2>2. ElemTree(g)'
    BY <2>1, SameElems DEF ElemTree
  <2>. QED
    BY <2>2
<1>. QED
  BY <1>1, <1>2 DEF ElemInv, PrintsElement

LEMMA ElemsCall ==
  ASSUME TrieInv, ElemInv, NEW k \in Insertable, CallInsert(k)
  PROVE  ElemInv'
<1>1. /\ key' = k /\ rest' = k /\ ptr' = RootLink /\ up' = Null /\ base' = Null
      /\ pc' = "walk" /\ mem' = mem /\ root' = root /\ build' = build
  BY DEF Call, CallInsert
<1>2. Elems' = Elems /\ k \in Keys /\ (Elems => k # <<>>)
  BY <1>1 DEF Elems, Insertable
<1>3. ASSUME Elems PROVE \E g : ElemTree(g)'
  <2>1. PICK g : ElemTree(g)
    BY <1>3 DEF ElemInv
  <2>2. MemTree(g)' /\ Ups' /\ Bases(g)'
    BY <1>1, <2>1, SameElems DEF ElemTree
  <2>3. OnWay(g)'
    BY <1>1, <1>2, SearchStarts
  <2>4. Locals(g)'
    <3>1. Reached(g)' = Whole
      BY <1>1 DEF Reached, RootLink
    <3>2. Len(Whole.pre) = 0
      BY EmptySeq DEF Whole
    <3>. QED
      BY <1>1, <1>2, <1>3, <3>1, <3>2 DEF Locals, RootLink
  <2>5. ElemTree(g)'
    BY <1>1, <2>2, <2>3, <2>4 DEF ElemTree
  <2>. QED
    BY <2>5
<1>. QED
  BY <1>1, <1>2, <1>3 DEF ElemInv, PrintsElement

LEMMA ElemsWalk ==
  ASSUME TrieInv, ElemInv, WalkNext
  PROVE  ElemInv'
<1>1. /\ pc = "walk" /\ pc' = "walk" /\ Here # Null /\ (Char # 0 \/ mem[Here].ch # 0)
      /\ ptr' = LinkOf(Here, Side(Char, Here))
      /\ rest' = IF Side(Char, Here) = "eq" THEN After ELSE rest
      /\ base' = IF Side(Char, Here) = "eq" /\ Elems /\ base = Null THEN Here ELSE base
      /\ up' = IF Elems THEN Here ELSE up
      /\ mem' = mem /\ root' = root /\ build' = build /\ key' = key
  BY DEF WalkNext
<1>2. Elems' = Elems /\ mem \in Seq(Node) /\ Rooted
  BY <1>1 DEF Elems, TrieInv, TypeOK
<1>3. ASSUME Elems PROVE \E g : ElemTree(g)'
  <2>1. PICK g : ElemTree(g)
    BY <1>3 DEF ElemInv
  <2>2. MemTree(g) /\ OnWay(g) /\ Locals(g)
    BY <1>1, <2>1 DEF ElemTree
  <2>3. MemTree(g)' /\ Ups' /\ Bases(g)' /\ Chars' = Chars /\ Len(mem') = Len(mem)
    BY <1>1, <2>1, SameElems DEF ElemTree
  <2>4. OnWay(g)'
    BY <1>1, <1>2, <2>2, SearchGoesOn
  <2> DEFINE n == Here
             N == Len(mem)
             d == Len(g[n].pre)
             l == Side(Char, n)
  <2>5. /\ n \in 1..N /\ g[n] = Reached(g) /\ g[n] \in Region /\ Chars[n] \in Symbol
        /\ Chars[n] = mem[n].ch /\ d \in 0..Len(key) /\ CharAt(key, d, rest, KeyWord)
    BY <1>1, <1>2, <2>2, Arrived
  <2>6. /\ key \in Keys /\ key \in Seq(1..255) /\ key # <<>>
        /\ \A j \in 1..Len(key) : KeyWord[j] = key[j]
        /\ Len(key) \in Nat \ {0}
    BY <2>2, KeyWordIs, EmptySeq DEF OnWay, Locals
  <2>7. l \in Kid /\ (l = "eq" => Char = Chars[n])
    BY <2>5 DEF Side, Kid
  <2>8. Reached(g)' = At(Chars, g, n, l)
    BY <1>1, <2>3, <2>7 DEF Reached, LinkOf, Kid
  <2>9. CASE l = "eq"
    <3>1. At(Chars, g, n, l).pre = Append(g[n].pre, Chars[n])
      BY <2>9 DEF At, Part
    <3>2. Len(At(Chars, g, n, l).pre) # 0
      <4>1. Len(Append(g[n].pre, Chars[n])) = d + 1 /\ d \in Nat
        BY <2>5, PrefixIs
      <4>. QED
        BY <3>1, <4>1
    <3>3. Begins(N, Chars, g, base', key)
      <4>1. CASE d = 0
        <5>1. base' = n
          BY <1>1, <1>3, <2>2, <2>5, <2>9, <4>1 DEF Locals
        <5>2. g[n].pre = <<>>
          BY <2>5, <4>1, EmptySeq DEF Region, Words
        <5>3. Char = KeyWord[d + 1]
          BY <2>5 DEF Char, CharAt
        <5>4. d + 1 = 1 /\ 1 \in 1..Len(key) /\ Len(key) >= 1
          BY <2>6, <4>1
        <5>5. Chars[n] = key[1]
          BY <2>6, <2>7, <2>9, <5>3, <5>4
        <5>. QED
          BY <2>5, <5>1, <5>2, <5>4, <5>5 DEF Begins
      <4>2. CASE d # 0
        <5>1. Begins(N, Chars, g, base, key)
          BY <2>2, <2>5, <4>2 DEF Locals
        <5>2. base # Null
          BY <5>1 DEF Begins, Null
        <5>. QED
          BY <1>1, <5>1, <5>2
      <4>. QED
        BY <4>1, <4>2
    <3>4. up' = ptr'.node
      BY <1>1, <1>3 DEF LinkOf
    <3>. QED
      BY <1>1, <2>1, <2>3, <2>4, <2>6, <2>8, <3>2, <3>3, <3>4 DEF ElemTree, Locals
  <2>10. CASE l # "eq"
    <3>1. At(Chars, g, n, l).pre = Reached(g).pre
      BY <2>5, <2>7, <2>10 DEF At, Part, Kid
    <3>2. up' = ptr'.node /\ base' = base
      BY <1>1, <1>3, <2>10 DEF LinkOf
    <3>3. Locals(g)'
      BY <1>1, <2>2, <2>3, <2>6, <2>8, <3>1, <3>2 DEF Locals
    <3>. QED
      BY <1>1, <2>3, <2>4, <3>3 DEF ElemTree
  <2>. QED
    BY <2>9, <2>10
<1>. QED
  BY <1>1, <1>2, <1>3 DEF ElemInv, PrintsElement

LEMMA ElemsWalkEnd ==
  ASSUME ElemInv, WalkEnd
  PROVE  ElemInv'
<1>1. /\ pc = "walk" /\ pc' = "grow"
      /\ mem' = mem /\ root' = root /\ build' = build /\ UNCHANGED locals
  BY DEF WalkEnd
<1>2. Elems' = Elems
  BY <1>1 DEF Elems
<1>3. ASSUME Elems PROVE \E g : ElemTree(g)'
  <2>1. PICK g : ElemTree(g)
    BY <1>3 DEF ElemInv
  <2>2. OnWay(g) /\ Locals(g)
    BY <1>1, <2>1 DEF ElemTree
  <2>3. MemTree(g)' /\ Ups' /\ Bases(g)' /\ Chars' = Chars /\ Len(mem') = Len(mem)
    BY <1>1, <2>1, SameElems DEF ElemTree
  <2>4. Reached(g)' = Reached(g) /\ KeyWord' = KeyWord /\ PtrOK' = PtrOK
    BY <1>1, <2>3 DEF Reached, KeyWord, PtrOK, locals
  <2>5. OnWay(g)' /\ Locals(g)'
    BY <1>1, <2>2, <2>3, <2>4 DEF OnWay, Locals, locals
  <2>6. ElemTree(g)'
    BY <1>1, <2>3, <2>5 DEF ElemTree
  <2>. QED
    BY <2>6
<1>. QED
  BY <1>1, <1>2, <1>3 DEF ElemInv, PrintsElement

\* One step up from the node c to u, on the way to the node b at which the element
\* of the end n begins.
StepUp(g, n, b, c, u) ==
  /\ u \in 1..Len(mem) /\ In(g[u], WordOf(Chars, g, n))
  /\ IF mem[u].ch # 0 /\ mem[u].eq = c
       THEN /\ Len(g[c].pre) = Len(g[u].pre) + 1
            /\ Len(g[c].pre) \in 1..Len(g[n].pre)
            /\ mem[u].ch = g[n].pre[Len(g[c].pre)]
       ELSE Len(g[u].pre) = Len(g[c].pre)
  /\ u = b <=> Len(g[u].pre) = 0

LEMMA OneUp ==
  ASSUME mem \in Seq(Node), NEW g, MemTree(g), Ups,
         NEW n \in Ends(Len(mem), Chars), NEW b, Begins(Len(mem), Chars, g, b, g[n].pre),
         NEW c \in 1..Len(mem), In(g[c], WordOf(Chars, g, n)), Len(g[c].pre) >= 1,
         NEW u, u = mem[c].up
  PROVE  StepUp(g, n, b, c, u)
<1> DEFINE N == Len(mem)
           w == WordOf(Chars, g, n)
           d == Len(g[u].pre)
<1>1. /\ TreeTypes(N, Chars, Links, g) /\ TreeLinks(N, Chars, Links, g)
      /\ WordsDiffer(N, Chars, g) /\ n \in 1..N /\ N \in Nat
  BY MemFacts DEF MemTree, Tree, Ends
<1>2. c # 1
  <2>1. Len(Whole.pre) = 0
    BY EmptySeq DEF Whole
  <2>2. c = 1 => g[c] = Whole
    <3>1. N > 0
      BY <1>1
    <3>. QED
      BY <1>1, <3>1 DEF TreeLinks
  <2>. QED
    BY <2>1, <2>2
<1>3. u \in 1..N /\ \E l \in Kid : Links[u][l] = c
  BY <1>2 DEF Ups
<1>4. PICK l \in Kid : Links[u][l] = c
  BY <1>3
<1>5. \A k \in Kid : Links[u][k] = c => g[c] = At(Chars, g, u, k)
  BY <1>3 DEF TreeLinks, Null, MemTree, Tree
<1>6. /\ g[u] \in Region /\ Chars[u] \in Symbol /\ g[u].lo < Chars[u] /\ Chars[u] < g[u].hi
      /\ g[u].pre \in Words /\ d \in Nat /\ w \in Words
      /\ Len(Append(g[u].pre, Chars[u])) = d + 1
      /\ \A j \in 1..d : Append(g[u].pre, Chars[u])[j] = g[u].pre[j]
      /\ Append(g[u].pre, Chars[u])[d + 1] = Chars[u]
  <2>1. g[u] \in Region /\ Chars[u] \in Symbol /\ g[u].lo < Chars[u] /\ Chars[u] < g[u].hi
    BY <1>1, <1>3, WordType DEF TreeLinks
  <2>2. w \in Words
    BY <1>1, WordType
  <2>3. g[u].pre \in Words
    BY <2>1 DEF Region
  <2> HIDE DEF w
  <2>. QED
    BY <2>1, <2>2, <2>3, PrefixIs
<1>7. In(Part(g[u], Chars[u], l), w)
  BY <1>4, <1>5 DEF At
<1>8. In(g[u], w) /\ l = SideOf(w[d + 1], Chars[u])
  BY <1>6, <1>7, PartWithin
<1>9. Chars[u] = mem[u].ch
  BY <1>3 DEF Chars
<1>10. /\ g[n].pre \in Seq(1..255) /\ Len(g[n].pre) \in Nat /\ Len(w) = Len(g[n].pre) + 1
       /\ \A j \in 1..Len(g[n].pre) : w[j] = g[n].pre[j]
  BY <1>1, WordAndString
<1> DEFINE L == Len(g[n].pre)
           D == Len(g[c].pre)
<1>11. D \in Nat /\ D < L + 1
  <2>1. D < Len(w) /\ g[c] \in Region
    BY <1>1, WordType DEF In
  <2>. QED
    BY <1>10, <2>1, PrefixIs, <1>6
<1>12. D \in 1..L
  BY <1>10, <1>11
<1>13. CASE l = "eq"
  <2>1. g[c].pre = Append(g[u].pre, Chars[u])
    <3>1. g[c] = At(Chars, g, u, "eq")
      BY <1>4, <1>5, <1>13
    <3>2. At(Chars, g, u, "eq").pre = Append(g[u].pre, Chars[u])
      BY DEF At, Part
    <3>. QED
      BY <3>1, <3>2
  <2>2. D = d + 1
    BY <1>6, <2>1
  <2>3. Chars[u] = w[d + 1] /\ w[d + 1] = g[n].pre[d + 1]
    <3>1. l = "eq" => w[d + 1] = Chars[u]
      BY <1>8 DEF SideOf
    <3>2. d + 1 \in 1..L
      BY <1>12, <2>2
    <3>. QED
      BY <1>10, <1>13, <3>1, <3>2
  <2>4. mem[u].ch # 0 /\ mem[u].eq = c
    <3>1. Links[u]["eq"] = c /\ c # Null
      BY <1>4, <1>13 DEF Null
    <3>2. Links[u]["eq"] = IF mem[u].ch = 0 THEN Null ELSE mem[u].eq
      BY <1>3 DEF Links, LinkTo, Kid
    <3>. QED
      BY <3>1, <3>2
  <2>5. u = b <=> d = 0
    <3>1. ASSUME u = b PROVE d = 0
      BY <3>1, EmptySeq DEF Begins
    <3>2. ASSUME d = 0 PROVE u = b
      <4>1. g[u].pre = <<>> /\ g[b].pre = <<>> /\ b \in 1..N /\ Chars[b] = g[n].pre[1]
        BY <1>6, <3>2, EmptySeq DEF Begins, Words
      <4>2. Chars[u] = g[n].pre[1]
        BY <2>3, <3>2
      <4>3. WordOf(Chars, g, u) = WordOf(Chars, g, b)
        BY <4>1, <4>2 DEF WordOf
      <4>. QED
        BY <1>1, <1>3, <4>1, <4>3 DEF WordsDiffer
    <3>. QED
      BY <3>1, <3>2
  <2>. QED
    BY <1>3, <1>8, <1>9, <1>12, <2>2, <2>3, <2>4, <2>5 DEF StepUp
<1>14. CASE l # "eq"
  <2>1. D = d
    <3>1. g[c] = At(Chars, g, u, l)
      BY <1>4, <1>5
    <3>2. g[c].pre = g[u].pre
      BY <1>14, <3>1 DEF At, Part, Kid
    <3>. QED
      BY <3>2
  <2>2. ~(mem[u].ch # 0 /\ mem[u].eq = c)
    <3> SUFFICES ASSUME mem[u].ch # 0, mem[u].eq = c PROVE FALSE
      OBVIOUS
    <3>1. Links[u]["eq"] = c
      BY <1>3 DEF Links, LinkTo, Kid
    <3>2. g[c] = At(Chars, g, u, "eq")
      BY <1>5, <3>1 DEF Kid
    <3>3. At(Chars, g, u, "eq").pre = Append(g[u].pre, Chars[u])
      BY DEF At, Part
    <3>4. Len(g[c].pre) = d + 1
      BY <1>6, <3>2, <3>3
    <3>5. d \in Nat /\ D = d
      BY <1>6, <2>1
    <3> HIDE DEF d, D
    <3>6. D = d + 1
      BY <3>4 DEF D
    <3>. QED
      BY <3>5, <3>6
  <2>3. u # b
    <3>1. d # 0
      BY <1>12, <2>1
    <3>2. Len(g[b].pre) = 0
      BY EmptySeq DEF Begins
    <3>. QED
      BY <3>1, <3>2
  <2>4. d # 0
    BY <1>12, <2>1
  <2>. QED
    BY <1>3, <1>8, <2>1, <2>2, <2>3, <2>4 DEF StepUp
<1>. QED
  BY <1>13, <1>14

\* The words of all elements.
LEMMA StringsOfRoot ==
  ASSUME mem \in Seq(Node), Rooted, NEW g, MemTree(g), NEW n \in Ends(Len(mem), Chars)
  PROVE  <<g[n].pre, n>> \in Strings(root)
<1> DEFINE N == Len(mem)
<1>1. TreeTypes(N, Chars, Links, g) /\ TreeLinks(N, Chars, Links, g) /\ N \in Nat /\ n \in 1..N
  BY MemFacts DEF MemTree, Tree, Ends
<1>2. root = 1 /\ N > 0 /\ 1 \in Pointers
  BY <1>1, EmptySeq DEF Rooted, Pointers
<1>3. g[1] = Whole /\ Whole.pre = <<>> /\ Len(Whole.pre) = 0
  BY <1>1, <1>2, EmptySeq DEF TreeLinks, Whole
<1>4. Strings(root) = Endings(N, Chars, g, Whole)
  <2>1. Strings(root) = StringsBelow(N, Chars, g, root)
    BY <1>2, StringsAre
  <2>. QED
    BY <1>2, <1>3, <2>1 DEF StringsBelow, Null
<1>5. n \in Below(N, Chars, g, Whole)
  BY <1>1, AllInWhole
<1>6. Suffix(g[n].pre, Len(Whole.pre)) = g[n].pre
  <2>1. g[n].pre \in Seq(1..255)
    BY <1>1, WordAndString
  <2>2. SubSeq(g[n].pre, 1, Len(g[n].pre)) = g[n].pre
    BY <2>1, SubSeqFull
  <2>3. 0 + 1 = 1
    OBVIOUS
  <2>. QED
    BY <1>3, <2>2, <2>3 DEF Suffix
<1>. QED
  BY <1>4, <1>5, <1>6 DEF Endings

LEMMA ElemsClimb ==
  ASSUME TrieInv, ElemInv, Climb
  PROVE  ElemInv'
<1> DEFINE N == Len(mem)
           n == frames[1]
           u == mem[q].up
<1>1. /\ pc = "climb" /\ q' = u /\ mem' = mem /\ root' = root /\ build' = build
      /\ frames' = frames /\ out' = out
      /\ u # Null => /\ str' = IF mem[u].ch # 0 /\ mem[u].eq = q THEN Append(str, mem[u].ch) ELSE str
                     /\ pc' = IF u = mem[n].eq THEN "spell" ELSE "climb"
  BY DEF Climb, kept
<1>2. /\ Elems /\ Elems' = Elems /\ mem \in Seq(Node) /\ str \in Seq(1..255)
  BY <1>1 DEF Elems, TrieInv, TypeOK, ElemInv
<1>3. PICK g : ElemTree(g)
  BY <1>2 DEF ElemInv
<1>4. MemTree(g) /\ Ups /\ Bases(g) /\ Climbing(g)
  BY <1>1, <1>3 DEF ElemTree
<1> DEFINE p == g[n].pre
           D == Len(g[q].pre)
           d == Len(g[u].pre)
<1>5. /\ n \in Ends(N, Chars) /\ q \in 1..N /\ In(g[q], WordOf(Chars, g, n))
      /\ Reversed(str, p, D) /\ D # 0
      /\ Begins(N, Chars, g, mem[n].eq, p)
  BY <1>1, <1>4 DEF Climbing, Bases
<1>6. /\ n \in 1..N /\ p \in Seq(1..255) /\ Len(p) \in Nat /\ D \in Nat
  <2>1. TreeTypes(N, Chars, Links, g) /\ n \in 1..N
    BY <1>4, <1>5 DEF MemTree, Tree, Ends
  <2>2. g[q] \in Region /\ Chars[q] \in Symbol
    BY <1>5, <2>1, WordType
  <2>. QED
    BY <1>5, <2>1, <2>2, WordAndString, PrefixIs
<1>7. D >= 1
  BY <1>5, <1>6
<1>8. /\ u \in 1..N /\ In(g[u], WordOf(Chars, g, n))
      /\ IF mem[u].ch # 0 /\ mem[u].eq = q
           THEN D = d + 1 /\ D \in 1..Len(p) /\ mem[u].ch = p[D]
           ELSE d = D
      /\ u = mem[n].eq <=> d = 0
  <2>1. u = mem[q].up /\ Begins(Len(mem), Chars, g, mem[n].eq, g[n].pre)
        /\ q \in 1..Len(mem) /\ Len(g[q].pre) >= 1
    BY <1>5, <1>7
  <2>2. StepUp(g, n, mem[n].eq, q, u)
    <3> HIDE DEF u, n, N
    <3>. QED
      BY <1>2, <1>4, <1>5, <2>1, OneUp DEF N
  <2>. QED
    BY <2>2 DEF StepUp
<1>9. u # Null
  BY <1>8 DEF Null
<1>10. d \in Nat
  <2>1. TreeTypes(N, Chars, Links, g)
    BY <1>4 DEF MemTree, Tree
  <2>2. g[u] \in Region /\ Chars[u] \in Symbol
    BY <1>8, <2>1, WordType
  <2>. QED
    BY <2>2, PrefixIs
<1>11. Reversed(str', p, d)
  <2>1. CASE mem[u].ch # 0 /\ mem[u].eq = q
    <3>1. str' = Append(str, p[D]) /\ D = d + 1 /\ D \in 1..Len(p)
      BY <1>1, <1>8, <1>9, <2>1
    <3>2. p[D] \in 1..255
      BY <1>6, <3>1, ElementOfSeq
    <3>3. /\ Len(str') = Len(str) + 1 /\ str'[Len(str) + 1] = p[D]
          /\ \A i \in 1..Len(str) : str'[i] = str[i]
          /\ Len(str) \in Nat
      <4> DEFINE x == p[D]
      <4> HIDE DEF x
      <4>1. str' = Append(str, x) /\ x \in 1..255
        BY <3>1, <3>2 DEF x
      <4>2. /\ Len(str') = Len(str) + 1 /\ str'[Len(str) + 1] = x
            /\ \A i \in 1..Len(str) : str'[i] = str[i]
            /\ Len(str) \in Nat
        BY <1>2, <4>1, AppendProperties, LenProperties
      <4>. QED
        BY <4>2 DEF x
    <3> HIDE DEF p, D, d, n, u
    <3>4. Len(str) = Len(p) - D /\ \A i \in 1..Len(str) : str[i] = p[Len(p) + 1 - i]
      BY <1>5 DEF Reversed
    <3>5. Len(str') = Len(p) - d
      BY <1>6, <1>10, <3>1, <3>3, <3>4
    <3>6. Len(p) + 1 - (Len(str) + 1) = D
      BY <1>6, <3>3, <3>4
    <3>7. \A i \in 1..(Len(str) + 1) : i = Len(str) + 1 \/ i \in 1..Len(str)
      BY <3>3
    <3>8. \A i \in 1..Len(str') : str'[i] = p[Len(p) + 1 - i]
      <4> TAKE i \in 1..Len(str')
      <4>1. CASE i = Len(str) + 1
        BY <3>3, <3>6, <4>1
      <4>2. CASE i \in 1..Len(str)
        BY <3>3, <3>4, <4>2
      <4>. QED
        BY <3>3, <3>7, <4>1, <4>2
    <3>. QED
      BY <3>5, <3>8 DEF Reversed
  <2>2. CASE ~(mem[u].ch # 0 /\ mem[u].eq = q)
    <3>1. str' = str /\ d = D
      BY <1>1, <1>8, <1>9, <2>2
    <3>. QED
      BY <1>5, <3>1
  <2>. QED
    BY <2>1, <2>2
<1>12. pc' = "spell" <=> d = 0
  BY <1>1, <1>8, <1>9
<1>13. MemTree(g)' /\ Ups' /\ Bases(g)' /\ Chars' = Chars /\ Len(mem') = Len(mem)
  BY <1>1, <1>4, SameElems
<1>14. Climbing(g)'
  <2>1. frames'[1] = n /\ q' = u
    BY <1>1
  <2> HIDE DEF n, u, p, d, N
  <2>. QED
    BY <1>5, <1>8, <1>11, <1>12, <1>13, <2>1 DEF Climbing, p, d, N
<1>15. ElemTree(g)' /\ pc' \in {"climb", "spell"}
  BY <1>1, <1>9, <1>13, <1>14 DEF ElemTree
<1>. QED
  BY <1>2, <1>15 DEF ElemInv, PrintsElement

LEMMA ElemsCallOne ==
  ASSUME TrieInv, ElemInv, NEW n \in DOMAIN mem, CallPrintOne(n)
  PROVE  ElemInv'
<1> DEFINE N == Len(mem)
<1>1. /\ Elems /\ mem[n].ch = 0 /\ pc' = "climb" /\ frames' = <<n>> /\ q' = n /\ str' = <<>>
      /\ mem' = mem /\ root' = root /\ build' = build
  BY DEF CallPrintOne, kept
<1>2. Elems' = Elems /\ mem \in Seq(Node)
  BY <1>1 DEF Elems, TrieInv, TypeOK
<1>3. PICK g : ElemTree(g)
  BY <1>1 DEF ElemInv
<1>4. MemTree(g) /\ Ups /\ Bases(g)
  BY <1>3 DEF ElemTree
<1>5. n \in 1..N /\ n \in Ends(N, Chars)
  BY <1>1, <1>2, MemFacts DEF Ends, Chars
<1>6. TreeTypes(N, Chars, Links, g) /\ TreeLinks(N, Chars, Links, g)
  BY <1>4 DEF MemTree, Tree
<1>7. In(g[n], WordOf(Chars, g, n))
  <2>1. g[n] \in Region /\ Chars[n] \in Symbol /\ g[n].lo < Chars[n] /\ Chars[n] < g[n].hi
    BY <1>5, <1>6, WordType DEF TreeLinks
  <2>. QED
    BY <2>1, OwnWord DEF WordOf
<1>8. Len(g[n].pre) \in Nat /\ Len(g[n].pre) # 0
  <2>1. Len(g[n].pre) \in Nat
    BY <1>5, <1>6, WordAndString
  <2>2. Len(g[n].pre) >= 1
    BY <1>4, <1>5 DEF Bases, Begins
  <2>. QED
    BY <2>1, <2>2
<1>9. Reversed(<<>>, g[n].pre, Len(g[n].pre))
  <2>1. Len(<<>>) = 0 /\ 1..0 = {}
    BY EmptySeq
  <2>. QED
    BY <1>8, <2>1 DEF Reversed
<1>10. MemTree(g)' /\ Ups' /\ Bases(g)' /\ Chars' = Chars /\ Len(mem') = N
  BY <1>1, <1>4, SameElems
<1>11. frames'[1] = n
  BY <1>1
<1>12. Climbing(g)'
  BY <1>1, <1>5, <1>7, <1>8, <1>9, <1>10, <1>11 DEF Climbing
<1>13. ElemTree(g)'
  BY <1>1, <1>10, <1>12 DEF ElemTree
<1>. QED
  BY <1>1, <1>2, <1>13 DEF ElemInv, PrintsElement

LEMMA ElemsSpell ==
  ASSUME TrieInv, ElemInv, SpellOne
  PROVE  ElemInv'
<1> DEFINE n == frames[1]
           rev == [i \in 1..Len(str) |-> str[Len(str) + 1 - i]]
<1>1. /\ pc = "spell" /\ mem' = mem /\ root' = root /\ build' = build /\ frames' = frames
  BY DEF SpellOne, kept
<1>2. /\ Elems /\ Elems' = Elems /\ mem \in Seq(Node) /\ Rooted /\ str \in Seq(1..255)
  BY <1>1 DEF Elems, TrieInv, TypeOK, ElemInv
<1>3. PICK g : ElemTree(g)
  BY <1>2 DEF ElemInv
<1>4. MemTree(g) /\ Ups /\ Bases(g) /\ Climbing(g)
  BY <1>1, <1>3 DEF ElemTree
<1> DEFINE p == g[n].pre
<1>5. n \in Ends(Len(mem), Chars) /\ Reversed(str, p, 0) /\ Len(p) >= 1
  <2>1. n \in Ends(Len(mem), Chars) /\ Reversed(str, p, Len(g[q].pre)) /\ Len(g[q].pre) = 0
    BY <1>1, <1>4 DEF Climbing
  <2>2. Len(p) >= 1
    BY <1>4, <2>1 DEF Bases, Begins
  <2>. QED
    BY <2>1, <2>2
<1>6. p \in Seq(1..255) /\ Len(p) \in Nat
  <2>1. TreeTypes(Len(mem), Chars, Links, g) /\ n \in 1..Len(mem)
    BY <1>4, <1>5 DEF MemTree, Tree, Ends
  <2>. QED
    BY <2>1, WordAndString
<1>7. Len(str) = Len(p) /\ \A i \in 1..Len(p) : str[i] = p[Len(p) + 1 - i]
  BY <1>5, <1>6 DEF Reversed
<1>8. str # <<>>
  BY <1>5, <1>7, EmptySeq
<1>9. rev = p
  <2> HIDE DEF p
  <2>1. \A i \in 1..Len(p) : Len(p) + 1 - i \in 1..Len(p) /\ Len(p) + 1 - (Len(p) + 1 - i) = i
    BY <1>6
  <2>2. \A i \in 1..Len(p) : str[Len(p) + 1 - i] = p[i]
    BY <1>7, <2>1
  <2>3. rev = [i \in 1..Len(p) |-> p[i]]
    BY <1>7, <2>2
  <2>. QED
    BY <1>6, <2>3, LenProperties
<1>10. out' = <<rev>> /\ pc' = "spelled"
  BY <1>8 DEF SpellOne
<1>11. out'[1] = p
  <2> HIDE DEF rev, p
  <2>. QED
    BY <1>9, <1>10
<1>12. <<p, n>> \in Strings(root)
  BY <1>2, <1>4, <1>5, StringsOfRoot
<1>13. Strings(root)' = Strings(root)
  BY <1>1 DEF Strings, Pointers
<1>14. PrintsElement'
  BY <1>1, <1>10, <1>11, <1>12, <1>13 DEF PrintsElement
<1>15. MemTree(g)' /\ Ups' /\ Bases(g)'
  BY <1>1, <1>4, SameElems
<1>16. ElemTree(g)'
  BY <1>10, <1>15 DEF ElemTree
<1>. QED
  BY <1>2, <1>10, <1>14, <1>16 DEF ElemInv

\* The strings of an element's first characters: the prefix reached is the key's.
LEMMA ReachedPrefix ==
  ASSUME mem \in Seq(Node), NEW g, MemTree(g), OnWay(g), key # <<>>,
         NEW r, r = Reached(g), NEW d, d = Len(r.pre)
  PROVE  /\ d \in 0..Len(key) /\ Len(key) \in Nat /\ Len(key) >= 1
         /\ r.pre \in Words /\ (d = 0 => r.pre = <<>>)
         /\ d # 0 => r.pre[1] = key[1]
         /\ d = 0 => Char = key[1]
         /\ Char = 0 => d = Len(key)
<1>1. /\ r \in Region /\ d \in 0..Len(key) /\ Char = KeyWord[d + 1]
  BY ReachedIs
<1>2. /\ key \in Seq(1..255) /\ Len(key) \in Nat /\ KeyWord \in Words
      /\ \A j \in 1..Len(key) : KeyWord[j] = key[j] /\ key[j] \in 1..255
  BY KeyWordIs DEF OnWay
<1>3. Len(key) # 0
  BY <1>2, EmptySeq
<1>4. Len(key) >= 1 /\ 1 \in 1..Len(key)
  BY <1>2, <1>3
<1>5. r.pre \in Words
  BY <1>1 DEF Region
<1>6. d = 0 => r.pre = <<>>
  BY <1>5, EmptySeq DEF Words
<1>7. d # 0 => r.pre[1] = key[1]
  <2> SUFFICES ASSUME d # 0 PROVE r.pre[1] = key[1]
    OBVIOUS
  <2>1. 1 \in 1..d
    BY <1>1, <1>2
  <2>2. \A j \in 1..d : KeyWord[j] = r.pre[j]
    BY DEF OnWay, In
  <2>. QED
    BY <1>2, <1>4, <2>1, <2>2
<1>8. d = 0 => Char = key[1]
  <2> SUFFICES ASSUME d = 0 PROVE Char = key[1]
    OBVIOUS
  <2>1. d + 1 = 1
    OBVIOUS
  <2>. QED
    BY <1>1, <1>2, <1>4, <2>1
<1>9. Char = 0 => d = Len(key)
  <2> SUFFICES ASSUME Char = 0, d # Len(key) PROVE FALSE
    OBVIOUS
  <2>1. d + 1 \in 1..Len(key)
    BY <1>1, <1>2
  <2>2. KeyWord[d + 1] \in 1..255
    BY <1>2, <2>1
  <2>3. 0 \notin 1..255
    OBVIOUS
  <2>. QED
    BY <1>1, <2>2, <2>3, Zenon
<1>. QED
  BY <1>1, <1>2, <1>4, <1>5, <1>6, <1>7, <1>8, <1>9

\* With one node more, the old ones begin what they began.
LEMMA StillBegins ==
  ASSUME NEW N \in Nat, NEW ch, NEW g, NEW b, NEW s, Begins(N, ch, g, b, s), NEW c, NEW r
  PROVE  Begins(N + 1, Added(N, ch, c), Added(N, g, r), b, s)
<1>1. b \in 1..(N + 1) /\ b # N + 1
  BY DEF Begins
<1>. QED
  BY <1>1 DEF Begins, Added

LEMMA ElemsGrow ==
  ASSUME TrieInv, ElemInv, Grow, Elems
  PROVE  ElemInv'
<1> DEFINE N == Len(mem)
           b == IF base = Null THEN N + 1 ELSE base
           new == IF Char = 0 THEN [NewNode(Char) EXCEPT !.eq = b] ELSE NewNode(Char)
<1>1. /\ mem \in Seq(Node) /\ Rooted /\ pc = "grow" /\ Here = Null
      /\ up \in Nat /\ base \in Nat /\ N \in Nat
  BY MemFacts DEF TrieInv, TypeOK, Grow, Pointers
<1>2. PICK g : ElemTree(g)
  BY DEF ElemInv
<1>3. MemTree(g) /\ Ups /\ Bases(g) /\ OnWay(g) /\ Locals(g)
  BY <1>1, <1>2 DEF ElemTree
<1>4. key # <<>> /\ up = ptr.node
  BY <1>3 DEF Locals
<1> DEFINE r == Reached(g)
           d == Len(r.pre)
<1>5. /\ d \in 0..Len(key) /\ Len(key) \in Nat /\ Len(key) >= 1
      /\ r.pre \in Words /\ (d = 0 => r.pre = <<>>)
      /\ d # 0 => r.pre[1] = key[1]
      /\ d = 0 => Char = key[1]
      /\ Char = 0 => d = Len(key)
  BY <1>1, <1>3, <1>4, ReachedPrefix
<1>6. IF d = 0 THEN base = Null ELSE Begins(N, Chars, g, base, key) /\ base # Null
  BY <1>3 DEF Locals, Begins, Null
<1>7. Char \in Symbol
  BY <1>1, <1>3, ReachedIs
<1>8. /\ new \in Node /\ new.ch = Char /\ new.up = up /\ new.lo = Null /\ new.hi = Null
      /\ new.eq = IF Char = 0 THEN b ELSE Null
  <2>1. Char \in 0..255 /\ up \in Nat /\ b \in Nat /\ Null \in Nat
    BY <1>1, <1>7 DEF Symbol, Null
  <2> HIDE DEF b
  <2>. QED
    BY <2>1 DEF NewNode, Node
<1>9. /\ root' = IF ptr.link = "root" THEN N + 1 ELSE root
      /\ mem' = Append(LinkedMem(N + 1), new) /\ build' = build
  BY DEF Grow, LinkedMem
<1>10. \/ /\ Char # 0 /\ ptr' = LinkOf(N + 1, "eq") /\ rest' = After
          /\ up' = N + 1 /\ base' = b /\ key' = key /\ pc' = "grow"
       \/ Char = 0 /\ pc' = "idle"
  BY <1>1 DEF Grow, Return, Leave
<1> HIDE DEF new, b, N, r, d
<1>11. ptr.link = "eq" => mem[ptr.node].ch # 0
  BY <1>1, <1>3, ReachedFree
<1>12. PtrOK
  BY <1>3 DEF OnWay
<1>13. /\ mem' \in Seq(Node) /\ Len(mem') = N + 1 /\ mem'[N + 1] = new
       /\ \A k \in 1..N :
            mem'[k] = IF ptr.link # "root" /\ k = ptr.node
                        THEN [mem[k] EXCEPT ![ptr.link] = N + 1] ELSE mem[k]
       /\ Chars' = Added(N, Chars, Char)
       /\ ptr.link # "root" => Links' = Linked(N, Links, ptr.node, ptr.link)
  BY <1>1, <1>8, <1>9, <1>11, <1>12, GrownMem DEF N
<1>14. PICK G : G = Added(N, g, r)
  OBVIOUS
<1>15. /\ MemTree(G)'
       /\ (Char # 0 /\ ptr' = LinkOf(N + 1, "eq") /\ rest' = After /\ key' = key)
            => OnWay(G)'
  BY <1>1, <1>3, <1>8, <1>9, <1>14, TreeGrows DEF N, r
<1>16. N + 1 \in 1..(N + 1) /\ \A k \in 1..N : k \in 1..(N + 1) /\ k # N + 1
  BY <1>1
<1>17. /\ Chars'[N + 1] = Char /\ \A k \in 1..N : Chars'[k] = Chars[k]
       /\ G[N + 1] = r /\ \A k \in 1..N : G[k] = g[k]
  BY <1>13, <1>14, <1>16 DEF Added
<1>18. ASSUME NEW k \in 1..N
       PROVE  /\ mem'[k].up = mem[k].up
              /\ Chars[k] = 0 => mem'[k].eq = mem[k].eq
  <2>1. CASE ptr.link # "root" /\ k = ptr.node
    <3>1. ptr.link \in Kid
      BY <1>12, <2>1 DEF PtrOK, RootLink
    <3>2. mem[k] \in Node
      BY <1>1, MemFacts DEF N
    <3> DEFINE p2 == [mem[k] EXCEPT ![ptr.link] = N + 1]
    <3>3. /\ p2 \in Node /\ p2.ch = mem[k].ch /\ p2.up = mem[k].up
          /\ p2.lo = IF ptr.link = "lo" THEN N + 1 ELSE mem[k].lo
          /\ p2.hi = IF ptr.link = "hi" THEN N + 1 ELSE mem[k].hi
          /\ p2.eq = IF ptr.link = "eq" THEN N + 1 ELSE mem[k].eq
      <4>1. N + 1 \in Nat
        BY <1>1
      <4>. QED
        BY <3>1, <3>2, <4>1, LinkSet
    <3>4. Chars[k] = 0 => ptr.link # "eq"
      BY <1>11, <2>1 DEF Chars, N
    <3>5. mem'[k] = p2
      BY <1>13, <2>1
    <3> HIDE DEF p2
    <3>. QED
      BY <3>3, <3>4, <3>5
  <2>2. CASE ~(ptr.link # "root" /\ k = ptr.node)
    <3>1. mem'[k] = mem[k]
      BY <1>13, <2>2
    <3>. QED
      BY <3>1
  <2>. QED
    BY <2>1, <2>2
<1>19. Ups'
  <2>1. CASE ptr.link = "root"
    <3>1. N = 0 /\ up = Null
      <4>1. root = Null /\ ptr = RootLink
        BY <1>1, <1>12, <2>1 DEF Here, PtrOK, RootLink, Kid
      <4>2. mem = <<>>
        BY <1>1, <4>1 DEF Rooted, Null
      <4>. QED
        BY <1>4, <4>1, <4>2, EmptySeq DEF N, RootLink
    <3>2. 1..(N + 1) = {1} /\ N + 1 = 1
      BY <3>1
    <3>3. mem'[1].up = Null
      BY <1>8, <1>13, <3>1, <3>2
    <3>. QED
      BY <1>13, <3>2, <3>3 DEF Ups
  <2>2. CASE ptr.link # "root"
    <3> DEFINE i == ptr.node
               l0 == ptr.link
    <3>1. /\ i \in 1..N /\ l0 \in Kid /\ Links[i][l0] = Null
      BY <1>1, <1>3, <2>2, ReachedFree DEF N
    <3>2. Links' = Linked(N, Links, i, l0)
      BY <1>13, <2>2
    <3> HIDE DEF i, l0
    <3>3. \A p \in 1..N, l \in Kid :
            Links'[p][l] = IF p = i /\ l = l0 THEN N + 1 ELSE Links[p][l]
      <4>1. Links \in [1..N -> [Kid -> Nat]]
        BY <1>3 DEF MemTree, Tree, TreeTypes, N
      <4> TAKE p \in 1..N, l \in Kid
      <4>2. Links[p] \in [Kid -> Nat]
        BY <4>1
      <4>3. p \in 1..(N + 1) /\ p # N + 1
        BY <1>16
      <4>4. Links'[p] = IF p = i THEN [k \in Kid |-> IF k = l0 THEN N + 1 ELSE Links[p][k]]
                                 ELSE Links[p]
        BY <3>2, <4>3 DEF Linked, Added
      <4>. QED
        BY <4>2, <4>4
    <3>4. ASSUME NEW k \in 1..(N + 1)
          PROVE  IF k = 1 THEN mem'[k].up = Null
                 ELSE /\ mem'[k].up \in 1..(N + 1)
                      /\ \E l \in Kid : Links'[mem'[k].up][l] = k
      <4>1. CASE k = N + 1
        <5>1. mem'[k].up = i
          BY <1>4, <1>8, <1>13, <4>1 DEF i
        <5>2. k # 1 /\ i \in 1..(N + 1)
          BY <1>1, <3>1, <4>1
        <5>3. Links'[i][l0] = k
          BY <3>1, <3>3, <4>1
        <5>. QED
          BY <3>1, <5>1, <5>2, <5>3
      <4>2. CASE k \in 1..N
        <5>1. mem'[k].up = mem[k].up
          BY <1>18, <4>2
        <5>2. CASE k = 1
          BY <1>3, <4>2, <5>1, <5>2 DEF Ups, N
        <5>3. CASE k # 1
          <6>1. mem[k].up \in 1..N /\ \E l \in Kid : Links[mem[k].up][l] = k
            BY <1>3, <4>2, <5>3 DEF Ups, N
          <6>2. PICK l \in Kid : Links[mem[k].up][l] = k
            BY <6>1
          <6>3. ~(mem[k].up = i /\ l = l0)
            <7>1. k # Null
              BY <4>2 DEF Null
            <7>. QED
              BY <3>1, <6>2, <7>1
          <6>4. Links'[mem[k].up][l] = k
            BY <3>3, <6>1, <6>2, <6>3
          <6>5. mem[k].up \in 1..(N + 1)
            BY <1>16, <6>1
          <6>. QED
            BY <5>1, <5>3, <6>4, <6>5
        <5>. QED
          BY <5>2, <5>3
      <4>. QED
        BY <1>1, <4>1, <4>2
    <3>. QED
      BY <1>13, <3>4 DEF Ups
  <2>. QED
    BY <2>1, <2>2
<1>20. Begins(N, Chars, g, base, key) => Begins(N + 1, Chars', G, base, key)
  BY <1>1, <1>13, <1>14, StillBegins
<1>21. Begins(N + 1, Chars', G, b, key)
  <2>1. CASE d = 0
    <3>1. b = N + 1
      BY <1>6, <2>1 DEF b
    <3>. QED
      BY <1>5, <1>16, <1>17, <2>1, <3>1 DEF Begins
  <2>2. CASE d # 0
    BY <1>6, <1>20, <2>2 DEF b
  <2>. QED
    BY <2>1, <2>2
<1>22. Bases(G)'
  <2> SUFFICES ASSUME NEW n \in 1..(N + 1), Chars'[n] = 0
               PROVE  Begins(N + 1, Chars', G, mem'[n].eq, G[n].pre)
    BY <1>13 DEF Bases, Ends
  <2>1. CASE n = N + 1
    <3>1. Char = 0 /\ mem'[n].eq = b /\ G[n].pre = r.pre
      BY <1>8, <1>13, <1>17, <2>1
    <3>2. d = Len(key) /\ d # 0 /\ Len(r.pre) >= 1
      BY <1>5, <3>1 DEF d
    <3>3. r.pre[1] = key[1]
      BY <1>5, <3>2
    <3>. QED
      BY <1>21, <3>1, <3>2, <3>3 DEF Begins
  <2>2. CASE n \in 1..N
    <3>1. Chars[n] = 0 /\ mem'[n].eq = mem[n].eq /\ G[n] = g[n]
      BY <1>17, <1>18, <2>2
    <3>2. Begins(N, Chars, g, mem[n].eq, g[n].pre)
      BY <1>3, <2>2, <3>1 DEF Bases, Ends, N
    <3>. QED
      BY <1>1, <1>13, <1>14, <3>1, <3>2, StillBegins
  <2>. QED
    BY <1>1, <2>1, <2>2
<1>23. pc' = "grow" => OnWay(G)' /\ Locals(G)'
  <2> SUFFICES ASSUME pc' = "grow" PROVE OnWay(G)' /\ Locals(G)'
    OBVIOUS
  <2>1. /\ Char # 0 /\ ptr' = LinkOf(N + 1, "eq") /\ rest' = After
        /\ up' = N + 1 /\ base' = b /\ key' = key
    BY <1>10
  <2>2. OnWay(G)'
    BY <1>15, <2>1
  <2>3. Reached(G)' = At(Chars', G, N + 1, "eq")
    BY <2>1 DEF Reached, LinkOf
  <2>4. At(Chars', G, N + 1, "eq").pre = Append(r.pre, Char)
    BY <1>17 DEF At, Part
  <2>5. Len(Append(r.pre, Char)) = d + 1 /\ d \in Nat
    BY <1>5, <1>7, AppendProperties DEF Words, d
  <2>6. Len((Reached(G)').pre) # 0
    BY <2>3, <2>4, <2>5
  <2>7. up' = ptr'.node
    BY <2>1 DEF LinkOf
  <2>8. Locals(G)'
    BY <1>4, <1>13, <1>21, <2>1, <2>6, <2>7 DEF Locals
  <2>. QED
    BY <2>2, <2>8
<1>24. ElemTree(G)'
  BY <1>10, <1>15, <1>19, <1>22, <1>23 DEF ElemTree
<1>25. Elems' = Elems
  BY <1>9 DEF Elems
<1>. QED
  BY <1>10, <1>24, <1>25 DEF ElemInv, PrintsElement

LEMMA ElemInit == Init => ElemInv
<1> SUFFICES ASSUME Init PROVE ElemInv
  OBVIOUS
<1>1. mem = <<>> /\ pc = "idle"
  BY DEF Init
<1>2. Len(mem) = 0 /\ 1..0 = {}
  BY <1>1, EmptySeq
<1>3. MemTree(<<>>) /\ Ups /\ Bases(<<>>)
  BY <1>1, <1>2, EmptyTree DEF Ups, Bases, Ends
<1>4. ElemTree(<<>>)
  BY <1>1, <1>3 DEF ElemTree
<1>. QED
  BY <1>1, <1>4 DEF ElemInv, PrintsElement

LEMMA ElemStep == TrieInv /\ ElemInv /\ [Next]_vars => ElemInv'
<1> SUFFICES ASSUME TrieInv, ElemInv, [Next]_vars PROVE ElemInv'
  OBVIOUS
<1> DEFINE quiet == {"idle", "put", "lookup", "print", "printed", "nomem"}
<1>1. ASSUME UNCHANGED <<build, mem, root>>, pc' \in quiet PROVE ElemInv'
  BY <1>1, ElemsRest
<1>2. ASSUME NEW k \in Insertable, CallInsert(k) PROVE ElemInv'
  BY <1>2, ElemsCall
<1>3. ASSUME NEW k \in Keys, CallLookup(k) PROVE ElemInv'
  BY <1>1, <1>3 DEF CallLookup, Call
<1>4. CASE CallPrint
  BY <1>1, <1>4 DEF CallPrint, kept
<1>5. ASSUME NEW n \in DOMAIN mem, CallPrintOne(n) PROVE ElemInv'
  BY <1>5, ElemsCallOne
<1>6. CASE WalkFound
  BY <1>1, <1>6 DEF WalkFound, Return, Leave
<1>7. CASE WalkNext
  BY <1>7, ElemsWalk
<1>8. CASE WalkEnd
  BY <1>8, ElemsWalkEnd
<1>9. CASE Grow
  <2>1. CASE Elems
    BY <1>9, <2>1, ElemsGrow
  <2>2. CASE ~Elems
    <3>1. Elems' = Elems /\ pc' \in {"grow", "put"}
      BY <1>9, <2>2 DEF Grow, Elems
    <3>. QED
      BY <2>2, <3>1 DEF ElemInv, PrintsElement
  <2>. QED
    BY <2>1, <2>2
<1>10. CASE SetValue
  <2>1. ~Elems /\ Elems' = Elems /\ pc' = "idle"
    BY <1>10 DEF SetValue, TrieInv, PutOK, Elems, Leave
  <2>. QED
    BY <2>1 DEF ElemInv, PrintsElement
<1>11. CASE Lookup
  BY <1>1, <1>11 DEF Lookup, LookupNext, LookupEnd, Return, Leave
<1>12. CASE PrintAll
  BY <1>1, <1>12 DEF PrintAll, PrintLo, PrintSelf, PrintPop, PrintHi, PrintDone, kept
<1>13. CASE PrintOne
  <2>1. CASE Spelled
    BY <1>1, <2>1 DEF Spelled, kept
  <2>. QED
    BY <1>13, <2>1, ElemsClimb, ElemsSpell DEF PrintOne
<1>14. CASE NoMemory
  BY <1>1, <1>14 DEF NoMemory
<1>15. CASE UNCHANGED vars
  <2>1. UNCHANGED <<build, mem, root, pc, locals, inserts, ret, printer>>
    BY <1>15 DEF vars
  <2>2. Elems' = Elems /\ PrintsElement' = PrintsElement
    BY <2>1 DEF Elems, PrintsElement, printer, Strings, Pointers
  <2>3. ASSUME Elems PROVE \E g : ElemTree(g)'
    <3>1. PICK g : ElemTree(g)
      BY <2>3 DEF ElemInv
    <3>2. MemTree(g)' /\ Ups' /\ Bases(g)' /\ Chars' = Chars /\ Len(mem') = Len(mem)
      BY <2>1, <3>1, SameElems DEF ElemTree
    <3>3. Reached(g)' = Reached(g) /\ KeyWord' = KeyWord /\ PtrOK' = PtrOK
      BY <2>1, <3>2 DEF Reached, KeyWord, PtrOK, locals
    <3>4. OnWay(g)' = OnWay(g) /\ Locals(g)' = Locals(g) /\ Climbing(g)' = Climbing(g)
      BY <2>1, <3>2, <3>3 DEF OnWay, Locals, Climbing, locals, printer
    <3>5. ElemTree(g)'
      BY <2>1, <3>1, <3>2, <3>4 DEF ElemTree
    <3>. QED
      BY <3>5
  <2>. QED
    BY <2>1, <2>2, <2>3 DEF ElemInv
<1>16. CASE Stopped
  BY <1>15, <1>16 DEF Stopped
<1>. QED
  BY <1>2, <1>3, <1>4, <1>5, <1>6, <1>7, <1>8, <1>9, <1>10, <1>11, <1>12, <1>13, <1>14, <1>15,
     <1>16 DEF Next, Step, Insert

(***************************************************************************)
(* An element is spelled as it was inserted, and no assertion fails on the *)
(* way: the walk up from its last node follows its word back, since each   *)
(* node is the one above those its links lead to, and ends at the only node*)
(* with the first character of the element and nothing before it.          *)
(***************************************************************************)
THEOREM ElementsSpelled == Spec => []PrintsElement
<1>1. ElemInv => PrintsElement
  BY DEF ElemInv
<1>2. Init => TrieInv /\ ElemInv
  BY TrieInit, ElemInit
<1>3. TrieInv /\ ElemInv /\ [Next]_vars => (TrieInv /\ ElemInv)'
  BY TrieStep, ElemStep
<1>. QED
  BY <1>1, <1>2, <1>3, PTL DEF Spec
=============================================================================
