-------------------------- MODULE TemplatesProofs --------------------------
(***************************************************************************)
(* Proofs about Templates: the index and the leaves of the parse tree      *)
(* agree, the dictionary explains the stored logs, and a line keeps its    *)
(* leaf.                                                                   *)
(***************************************************************************)
EXTENDS Templates, FiniteSetTheorems, SequenceTheorems, WellFoundedInduction, TLAPS

-----------------------------------------------------------------------------
(* Lists, and the cluster that gives way.                                  *)

\* A set of naturals that has an element has a smallest one.
LEMMA HasSmallest ==
  ASSUME NEW S \in SUBSET Nat, S # {}
  PROVE  \E x \in S : \A y \in S : x <= y
<1>1. IsWellFoundedOn(OpToRel(<, Nat), Nat)
  BY NatLessThanWellFounded, Zenon
<1>2. PICK x \in S : \A y \in S : <<y, x>> \notin OpToRel(<, Nat)
  BY <1>1, WFMin, Zenon
<1>3. \A y \in S : ~(y < x)
  BY <1>2 DEF OpToRel
<1> QED
  BY <1>3

\* The least recently matched cluster is one of those it is chosen from.
LEMMA LeastRecentIsOne ==
  ASSUME NEW index, NEW ids, ids # {}, \A x \in ids : index[x].gen \in Nat
  PROVE  /\ LeastRecent(index, ids) \in ids
         /\ \A y \in ids : index[LeastRecent(index, ids)].gen <= index[y].gen
<1> DEFINE Gens == {index[x].gen : x \in ids}
<1>1. PICK g \in Gens : \A h \in Gens : g <= h
  BY HasSmallest
<1>2. \E x \in ids : \A y \in ids : index[x].gen <= index[y].gen
  BY <1>1
<1> QED
  BY <1>2 DEF LeastRecent

\* What is left of a list when its i-th element is taken out.
Shortened(list, i) == [j \in 1 .. Len(list) - 1 |-> IF j < i THEN list[j] ELSE list[j + 1]]

\* An element of a concatenation behind its first part.
LEMMA BehindTheHead ==
  ASSUME NEW S, NEW s \in Seq(S), NEW t \in Seq(S), NEW j \in Int, j - Len(s) \in 1 .. Len(t)
  PROVE  (s \o t)[j] = t[j - Len(s)]
<1>1. PICK k \in Nat, m \in Nat : k = Len(s) /\ m = Len(t)
  OBVIOUS
<1>2. j \in 1 .. k + m /\ ~(j <= k)
  BY <1>1
<1>3. (s \o t)[j] = IF j <= k THEN s[j] ELSE t[j - k]
  BY <1>1, <1>2, ConcatProperties
<1> QED
  BY <1>1, <1>2, <1>3

LEMMA RemovedIsShortened ==
  ASSUME NEW S, NEW list \in Seq(S), NEW i \in DOMAIN list,
         \A j \in DOMAIN list : list[j] = list[i] => j = i
  PROVE  RemoveFirst(list, list[i]) = Shortened(list, i)
<1> DEFINE I == {j \in 1 .. Len(list) : list[j] = list[i]}
<1>1. I = {i} /\ i \in Nat
  OBVIOUS
<1>2. Min(I) = i
  BY <1>1 DEF Min
<1>3. SelectInSeq(list, LAMBDA v : v = list[i]) = i
  BY <1>1, <1>2 DEF SelectInSeq
<1>4. RemoveFirst(list, list[i]) = RemoveAt(list, i)
  BY <1>3 DEF RemoveFirst
<1>5. RemoveAt(list, i) = Shortened(list, i)
  <2> DEFINE head == SubSeq(list, 1, i - 1)
             tail == SubSeq(list, i + 1, Len(list))
  <2>1. /\ head \in Seq(S) /\ Len(head) = i - 1
        /\ \A j \in 1 .. i - 1 : head[j] = list[j]
    BY <1>1
  <2>2. /\ tail \in Seq(S) /\ Len(tail) = Len(list) - i
        /\ \A j \in 1 .. Len(list) - i : tail[j] = list[j + i]
    BY <1>1
  <2> HIDE DEF head, tail
  <2>3. PICK whole : whole = head \o tail
    OBVIOUS
  <2>4. whole \in Seq(S) /\ Len(whole) = Len(list) - 1
    BY <1>1, <2>1, <2>2, <2>3
  <2>5. PICK n \in Nat : n = Len(list) - 1
    BY <1>1
  <2>6. whole = [j \in 1 .. n |-> whole[j]]
    <3>1. whole \in [1 .. n -> S]
      BY <2>4, <2>5
    <3> QED
      BY <3>1, Zenon
  <2>7. ASSUME NEW j \in 1 .. n
        PROVE  whole[j] = IF j < i THEN list[j] ELSE list[j + 1]
    <3>1. CASE j < i
      <4>1. whole[j] = head[j]
        BY <1>1, <2>1, <2>2, <2>3, <3>1
      <4> QED
        BY <1>1, <2>1, <3>1, <4>1
    <3>2. CASE ~(j < i)
      <4>1. j - (i - 1) \in 1 .. Len(tail) /\ (j - (i - 1)) + i = j + 1
        <5>1. PICK m \in Nat : m = Len(list) /\ i \in 1 .. m
          BY <1>1
        <5> QED
          BY <2>2, <2>5, <3>2, <5>1
      <4>2. whole[j] = tail[j - (i - 1)]
        <5>1. j \in Int /\ j - Len(head) \in 1 .. Len(tail)
          BY <2>1, <4>1
        <5>2. (head \o tail)[j] = tail[j - Len(head)]
          BY <2>1, <2>2, <5>1, BehindTheHead
        <5> QED
          BY <2>1, <2>3, <5>2
      <4>3. tail[j - (i - 1)] = list[(j - (i - 1)) + i]
        BY <2>2, <4>1
      <4> QED
        BY <3>2, <4>1, <4>2, <4>3
    <3> QED
      BY <3>1, <3>2
  <2>8. whole = [j \in 1 .. n |-> IF j < i THEN list[j] ELSE list[j + 1]]
    <3>1. \A j \in 1 .. n : whole[j] = IF j < i THEN list[j] ELSE list[j + 1]
      BY <2>7
    <3> QED
      BY <2>6, <3>1, Zenon
  <2>9. RemoveAt(list, i) = whole
    BY <2>3 DEF RemoveAt, head, tail
  <2> QED
    BY <2>5, <2>8, <2>9 DEF Shortened
<1> QED
  BY <1>4, <1>5

LEMMA NothingRemoved ==
  ASSUME NEW S, NEW list \in Seq(S), NEW e, e \notin Range(list)
  PROVE  RemoveFirst(list, e) = list
BY DEF RemoveFirst, Range
\* A list in which nothing stands twice loses an element, and no other.
LEMMA OneIsRemoved ==
  ASSUME NEW S, NEW list \in Seq(S), NEW id, NEW new, new = RemoveFirst(list, id),
         \A i, j \in DOMAIN list : list[i] = list[j] => i = j
  PROVE  /\ new \in Seq(S)
         /\ \A j \in DOMAIN new : \E k \in DOMAIN list : new[j] = list[k] /\ list[k] # id
         /\ \A k \in DOMAIN list : list[k] # id => \E j \in DOMAIN new : new[j] = list[k]
         /\ \A i, j \in DOMAIN new : new[i] = new[j] => i = j
         /\ Len(new) <= Len(list)
         /\ id \in Range(list) => Len(new) = Len(list) - 1
<1>1. CASE id \notin Range(list)
  <2>1. new = list
    BY <1>1, NothingRemoved
  <2> QED
    BY <1>1, <2>1 DEF Range
<1>2. CASE id \in Range(list)
  <2>1. PICK i \in DOMAIN list : list[i] = id
    BY <1>2 DEF Range
  <2>2. PICK n \in Nat : n = Len(list) /\ i \in 1 .. n /\ n - 1 \in Nat
    OBVIOUS
  <2>3. new = Shortened(list, i)
    BY <2>1, RemovedIsShortened
  <2>4. new = [j \in 1 .. n - 1 |-> IF j < i THEN list[j] ELSE list[j + 1]]
    BY <2>2, <2>3 DEF Shortened
  <2>5. /\ DOMAIN new = 1 .. n - 1
        /\ \A j \in 1 .. n - 1 : j < i => new[j] = list[j]
        /\ \A j \in 1 .. n - 1 : ~(j < i) => new[j] = list[j + 1]
    BY <2>4
  <2>6. \A j \in 1 .. n - 1 : j < i => j \in DOMAIN list
    BY <2>2
  <2>7. \A j \in 1 .. n - 1 : ~(j < i) => j + 1 \in DOMAIN list
    BY <2>2
  <2>8. \A j \in 1 .. n - 1 : new[j] \in S
    BY <2>5, <2>6, <2>7
  <2>9. new \in Seq(S) /\ Len(new) = n - 1
    <3>1. new \in [1 .. n - 1 -> S]
      BY <2>4, <2>5, <2>8, Zenon
    <3> QED
      BY <2>2, <3>1, SeqDef
  <2>10. ASSUME NEW j \in DOMAIN new
         PROVE  \E k \in DOMAIN list : new[j] = list[k] /\ list[k] # id
    BY <2>1, <2>2, <2>5, <2>6, <2>7
  <2>11. ASSUME NEW k \in DOMAIN list, list[k] # id
         PROVE  \E j \in DOMAIN new : new[j] = list[k]
    <3>0. k \in 1 .. n /\ k # i
      BY <2>1, <2>2, <2>11
    <3>1. CASE k < i
      <4>1. k \in 1 .. n - 1
        BY <2>2, <3>0, <3>1
      <4> QED
        BY <2>5, <3>1, <4>1
    <3>2. CASE k > i
      <4>1. k - 1 \in 1 .. n - 1 /\ ~(k - 1 < i) /\ (k - 1) + 1 = k
        BY <2>2, <3>0, <3>2
      <4>2. new[k - 1] = list[(k - 1) + 1]
        BY <2>5, <4>1
      <4> QED
        BY <2>5, <4>1, <4>2
    <3> QED
      BY <2>2, <3>0, <3>1, <3>2
  <2>12. ASSUME NEW j \in DOMAIN new, NEW k \in DOMAIN new, new[j] = new[k]
         PROVE  j = k
    <3>1. j \in 1 .. n - 1 /\ k \in 1 .. n - 1
      BY <2>5, <2>12
    <3>2. CASE j < i /\ k < i
      BY <2>2, <2>5, <2>6, <2>12, <3>1, <3>2
    <3>3. CASE ~(j < i) /\ ~(k < i)
      <4>1. list[j + 1] = list[k + 1] /\ j + 1 \in DOMAIN list /\ k + 1 \in DOMAIN list
        BY <2>5, <2>7, <2>12, <3>1, <3>3
      <4>2. j + 1 = k + 1
        BY <2>2, <4>1
      <4> QED
        BY <3>1, <4>2
    <3>4. CASE j < i /\ ~(k < i)
      <4>1. list[j] = list[k + 1] /\ j \in DOMAIN list /\ k + 1 \in DOMAIN list
        BY <2>5, <2>6, <2>7, <2>12, <3>1, <3>4
      <4>2. j = k + 1
        BY <2>2, <4>1
      <4> QED
        BY <2>2, <3>1, <3>4, <4>2
    <3>5. CASE ~(j < i) /\ k < i
      <4>1. list[j + 1] = list[k] /\ j + 1 \in DOMAIN list /\ k \in DOMAIN list
        BY <2>5, <2>6, <2>7, <2>12, <3>1, <3>5
      <4>2. j + 1 = k
        BY <2>2, <4>1
      <4> QED
        BY <2>2, <3>1, <3>5, <4>2
    <3> QED
      BY <3>2, <3>3, <3>4, <3>5
  <2> QED
    BY <2>2, <2>9, <2>10, <2>11, <2>12
<1> QED
  BY <1>1, <1>2
-----------------------------------------------------------------------------
(* The tree: index and lists, and what eviction and a new cluster do.      *)

Text == Seq(Token \cup {Wildcard})

TreeTyped(tree, n, g) ==
  /\ DOMAIN tree.clusters \subseteq 1 .. n
  /\ \A p \in DOMAIN tree.leaf : tree.leaf[p] \in Seq(1 .. n)
  /\ \A x \in DOMAIN tree.clusters :
       tree.clusters[x].gen \in 0 .. g /\ tree.clusters[x].text \in Text

\* A list names clusters of the index, whose texts have the length of its lines.
Listed(tree) ==
  \A p \in DOMAIN tree.leaf : \A i \in DOMAIN tree.leaf[p] :
    /\ tree.leaf[p][i] \in DOMAIN tree.clusters
    /\ Len(tree.clusters[tree.leaf[p][i]].text) = p[1]

Placed(tree) ==
  \A x \in DOMAIN tree.clusters :
    \E p \in DOMAIN tree.leaf : \E i \in DOMAIN tree.leaf[p] : tree.leaf[p][i] = x

TreeInv(tree, n, g) ==
  TreeTyped(tree, n, g) /\ Listed(tree) /\ Placed(tree) /\ ListedOnce(tree.leaf)

\* Eviction (evictLRU, evictLeafLRU) takes a cluster out of both.
LEMMA EvictionAgrees ==
  ASSUME NEW n \in Nat, NEW g \in Nat, NEW tree, TreeInv(tree, n, g), NEW id,
         NEW new, new = EvictCluster(tree, id)
  PROVE  /\ TreeInv(new, n, g)
         /\ DOMAIN new.clusters = DOMAIN tree.clusters \ {id}
         /\ \A x \in DOMAIN new.clusters : new.clusters[x] = tree.clusters[x]
         /\ DOMAIN new.leaf = DOMAIN tree.leaf
         /\ \A p \in DOMAIN new.leaf :
              /\ Len(new.leaf[p]) <= Len(tree.leaf[p])
              /\ id \in Range(tree.leaf[p]) => Len(new.leaf[p]) = Len(tree.leaf[p]) - 1
<1>1. /\ DOMAIN new.leaf = DOMAIN tree.leaf
      /\ \A p \in DOMAIN tree.leaf : new.leaf[p] = RemoveFirst(tree.leaf[p], id)
      /\ DOMAIN new.clusters = DOMAIN tree.clusters \ {id}
      /\ \A x \in DOMAIN new.clusters : new.clusters[x] = tree.clusters[x]
  BY DEF EvictCluster
<1>2. ASSUME NEW p \in DOMAIN tree.leaf
      PROVE  LET old == tree.leaf[p]
                 list == new.leaf[p]
             IN  /\ list \in Seq(1 .. n)
                 /\ \A j \in DOMAIN list : \E k \in DOMAIN old : list[j] = old[k] /\ old[k] # id
                 /\ \A k \in DOMAIN old : old[k] # id => \E j \in DOMAIN list : list[j] = old[k]
                 /\ \A i, j \in DOMAIN list : list[i] = list[j] => i = j
                 /\ Len(list) <= Len(old)
                 /\ id \in Range(old) => Len(list) = Len(old) - 1
  <2>1. tree.leaf[p] \in Seq(1 .. n)
    BY DEF TreeInv, TreeTyped
  <2>2. \A i, j \in DOMAIN tree.leaf[p] : tree.leaf[p][i] = tree.leaf[p][j] => i = j
    BY DEF TreeInv, ListedOnce
  <2>3. PICK old, list : old = tree.leaf[p] /\ list = new.leaf[p]
    OBVIOUS
  <2>4. old \in Seq(1 .. n) /\ list = RemoveFirst(old, id)
        /\ \A i, j \in DOMAIN old : old[i] = old[j] => i = j
    BY <1>1, <2>1, <2>2, <2>3
  <2>5. /\ list \in Seq(1 .. n)
        /\ \A j \in DOMAIN list : \E k \in DOMAIN old : list[j] = old[k] /\ old[k] # id
        /\ \A k \in DOMAIN old : old[k] # id => \E j \in DOMAIN list : list[j] = old[k]
        /\ \A i, j \in DOMAIN list : list[i] = list[j] => i = j
        /\ Len(list) <= Len(old)
        /\ id \in Range(old) => Len(list) = Len(old) - 1
    BY <2>4, OneIsRemoved
  <2> QED
    BY <2>3, <2>5
<1>3. TreeTyped(new, n, g)
  BY <1>1, <1>2 DEF TreeInv, TreeTyped
<1>4. Listed(new)
  <2> SUFFICES ASSUME NEW p \in DOMAIN new.leaf, NEW i \in DOMAIN new.leaf[p]
               PROVE  /\ new.leaf[p][i] \in DOMAIN new.clusters
                      /\ Len(new.clusters[new.leaf[p][i]].text) = p[1]
    BY DEF Listed
  <2>1. p \in DOMAIN tree.leaf
    BY <1>1
  <2>2. PICK k \in DOMAIN tree.leaf[p] :
          new.leaf[p][i] = tree.leaf[p][k] /\ tree.leaf[p][k] # id
    BY <1>2, <2>1
  <2>3. PICK x : x = new.leaf[p][i]
    OBVIOUS
  <2>4. x \in DOMAIN tree.clusters /\ Len(tree.clusters[x].text) = p[1] /\ x # id
    BY <2>1, <2>2, <2>3 DEF TreeInv, Listed
  <2>5. x \in DOMAIN new.clusters /\ new.clusters[x] = tree.clusters[x]
    BY <1>1, <2>4
  <2> QED
    BY <2>3, <2>4, <2>5
<1>5. Placed(new)
  BY <1>1, <1>2 DEF TreeInv, Placed
<1>6. ListedOnce(new.leaf)
  <2> SUFFICES ASSUME NEW p \in DOMAIN new.leaf, NEW q \in DOMAIN new.leaf,
                      NEW i \in DOMAIN new.leaf[p], NEW j \in DOMAIN new.leaf[q],
                      new.leaf[p][i] = new.leaf[q][j]
               PROVE  p = q /\ i = j
    BY DEF ListedOnce
  <2>1. PICK k \in DOMAIN tree.leaf[p] : new.leaf[p][i] = tree.leaf[p][k]
    BY <1>1, <1>2
  <2>2. PICK m \in DOMAIN tree.leaf[q] : new.leaf[q][j] = tree.leaf[q][m]
    BY <1>1, <1>2
  <2>3. p = q
    <3>1. p \in DOMAIN tree.leaf /\ q \in DOMAIN tree.leaf
      BY <1>1
    <3>2. tree.leaf[p][k] = tree.leaf[q][m]
      BY <2>1, <2>2
    <3> QED
      BY <3>1, <3>2, Zenon DEF TreeInv, ListedOnce
  <2> QED
    BY <1>1, <1>2, <2>3
<1> QED
  BY <1>1, <1>2, <1>3, <1>4, <1>5, <1>6 DEF TreeInv

\* A new cluster stands at the end of its leaf's list.
LEMMA AdditionAgrees ==
  ASSUME NEW n \in Nat, NEW g \in Nat, NEW tree, TreeInv(tree, n, g),
         NEW path, NEW line \in Text, path[1] = Len(line),
         NEW new, new = AddCluster(tree, path, n + 1, [text |-> line, gen |-> g + 1])
  PROVE  /\ TreeInv(new, n + 1, g + 1)
         /\ DOMAIN new.clusters = DOMAIN tree.clusters \cup {n + 1}
         /\ \A x \in DOMAIN tree.clusters : new.clusters[x] = tree.clusters[x]
         /\ new.clusters[n + 1] = [text |-> line, gen |-> g + 1]
         /\ DOMAIN new.leaf = DOMAIN tree.leaf \cup {path}
         /\ \A p \in DOMAIN tree.leaf \ {path} : new.leaf[p] = tree.leaf[p]
         /\ path \in DOMAIN tree.leaf => Len(new.leaf[path]) = Len(tree.leaf[path]) + 1
         /\ path \notin DOMAIN tree.leaf => Len(new.leaf[path]) = 1
<1> DEFINE old == IF path \in DOMAIN tree.leaf THEN tree.leaf[path] ELSE <<>>
<1>1. /\ DOMAIN new.clusters = DOMAIN tree.clusters \cup {n + 1}
      /\ \A x \in DOMAIN tree.clusters \ {n + 1} : new.clusters[x] = tree.clusters[x]
      /\ new.clusters[n + 1] = [text |-> line, gen |-> g + 1]
  BY DEF AddCluster, Put
<1>2. n + 1 \notin DOMAIN tree.clusters
  BY DEF TreeInv, TreeTyped
<1>3. /\ DOMAIN new.leaf = DOMAIN tree.leaf \cup {path}
      /\ \A p \in DOMAIN tree.leaf \ {path} : new.leaf[p] = tree.leaf[p]
      /\ new.leaf[path] = Append(old, n + 1)
  BY DEF AddCluster, Put
<1>4. /\ path \in DOMAIN tree.leaf => old = tree.leaf[path]
      /\ path \notin DOMAIN tree.leaf => old = <<>>
  OBVIOUS
<1> HIDE DEF old
<1>5. old \in Seq(1 .. n)
  <2>1. CASE path \in DOMAIN tree.leaf
    BY <1>4, <2>1 DEF TreeInv, TreeTyped
  <2>2. CASE path \notin DOMAIN tree.leaf
    <3>1. old = <<>>
      BY <1>4, <2>2
    <3> QED
      BY <3>1, EmptySeq, Zenon
  <2> QED
    BY <2>1, <2>2
<1>6. PICK m \in Nat : m = Len(old)
  BY <1>5
<1>7. PICK list : list = Append(old, n + 1)
  OBVIOUS
<1>8. /\ list \in Seq(1 .. n + 1) /\ Len(list) = m + 1 /\ DOMAIN list = 1 .. m + 1
      /\ \A i \in 1 .. m : list[i] = old[i]
      /\ list[m + 1] = n + 1
  <2>1. old \in Seq(1 .. n + 1)
    <3>1. 1 .. n \subseteq 1 .. n + 1
      OBVIOUS
    <3> QED
      BY <1>5, <3>1
  <2>2. n + 1 \in 1 .. n + 1
    OBVIOUS
  <2> QED
    BY <1>5, <1>6, <1>7, <2>1, <2>2
<1>9. new.leaf[path] = list
  BY <1>3, <1>7
<1>10. DOMAIN old = 1 .. m
  BY <1>5, <1>6
<1>11. TreeTyped(new, n + 1, g + 1)
  <2>1. DOMAIN new.clusters \subseteq 1 .. n + 1
    BY <1>1 DEF TreeInv, TreeTyped
  <2>2. ASSUME NEW p \in DOMAIN new.leaf PROVE new.leaf[p] \in Seq(1 .. n + 1)
    <3>1. CASE p = path
      BY <1>8, <1>9, <3>1
    <3>2. CASE p # path
      <4>1. 1 .. n \subseteq 1 .. n + 1
        OBVIOUS
      <4>2. new.leaf[p] \in Seq(1 .. n)
        BY <1>3, <3>2 DEF TreeInv, TreeTyped
      <4> QED
        BY <4>1, <4>2
    <3> QED
      BY <3>1, <3>2
  <2>3. ASSUME NEW x \in DOMAIN new.clusters
        PROVE  new.clusters[x].gen \in 0 .. g + 1 /\ new.clusters[x].text \in Text
    BY <1>1, <1>2 DEF TreeInv, TreeTyped
  <2> QED
    BY <2>1, <2>2, <2>3 DEF TreeTyped
<1>12. ASSUME NEW i \in 1 .. m PROVE list[i] \in DOMAIN tree.clusters /\ path \in DOMAIN tree.leaf
  <2>1. path \in DOMAIN tree.leaf
    BY <1>4, <1>6
  <2> QED
    BY <1>4, <1>8, <1>10, <2>1 DEF TreeInv, Listed
<1>13. Listed(new)
  <2> SUFFICES ASSUME NEW p \in DOMAIN new.leaf, NEW i \in DOMAIN new.leaf[p]
               PROVE  /\ new.leaf[p][i] \in DOMAIN new.clusters
                      /\ Len(new.clusters[new.leaf[p][i]].text) = p[1]
    BY DEF Listed
  <2>1. CASE p # path
    <3>1. p \in DOMAIN tree.leaf /\ new.leaf[p] = tree.leaf[p] /\ i \in DOMAIN tree.leaf[p]
      BY <1>3, <2>1
    <3>2. PICK x : x = tree.leaf[p][i]
      OBVIOUS
    <3>3. x \in DOMAIN tree.clusters /\ Len(tree.clusters[x].text) = p[1]
      BY <3>1, <3>2 DEF TreeInv, Listed
    <3>4. x \in DOMAIN new.clusters /\ new.clusters[x] = tree.clusters[x]
      BY <1>1, <1>2, <3>3
    <3> QED
      BY <3>1, <3>2, <3>3, <3>4
  <2>2. CASE p = path /\ i \in 1 .. m
    <3>1. path \in DOMAIN tree.leaf /\ list[i] \in DOMAIN tree.clusters
      BY <1>12, <2>2
    <3>2. i \in DOMAIN tree.leaf[path] /\ list[i] = tree.leaf[path][i]
      BY <1>4, <1>8, <1>10, <2>2, <3>1
    <3>3. Len(tree.clusters[list[i]].text) = path[1]
      BY <3>1, <3>2 DEF TreeInv, Listed
    <3> QED
      BY <1>1, <1>2, <1>9, <2>2, <3>1, <3>3
  <2>3. CASE p = path /\ i = m + 1
    BY <1>1, <1>8, <1>9, <2>3
  <2>4. p = path => i \in 1 .. m \/ i = m + 1
    <3>1. p = path => i \in 1 .. m + 1
      BY <1>8, <1>9
    <3> QED
      BY <3>1
  <2> QED
    BY <2>1, <2>2, <2>3, <2>4
<1>14. Placed(new)
  <2> SUFFICES ASSUME NEW x \in DOMAIN new.clusters
               PROVE  \E p \in DOMAIN new.leaf : \E i \in DOMAIN new.leaf[p] : new.leaf[p][i] = x
    BY DEF Placed
  <2>1. CASE x = n + 1
    BY <1>3, <1>8, <1>9, <2>1
  <2>2. CASE x \in DOMAIN tree.clusters
    <3>1. PICK p \in DOMAIN tree.leaf : \E i \in DOMAIN tree.leaf[p] : tree.leaf[p][i] = x
      BY <2>2 DEF TreeInv, Placed
    <3>2. CASE p # path
      BY <1>3, <3>1, <3>2
    <3>3. CASE p = path
      <4>1. PICK i \in DOMAIN tree.leaf[path] : tree.leaf[path][i] = x
        BY <3>1, <3>3
      <4>2. i \in 1 .. m /\ list[i] = x
        BY <1>4, <1>8, <1>10, <3>3, <4>1
      <4>3. path \in DOMAIN new.leaf /\ i \in DOMAIN new.leaf[path] /\ new.leaf[path][i] = x
        BY <1>3, <1>8, <1>9, <4>2
      <4> QED
        BY <4>3
    <3> QED
      BY <3>2, <3>3
  <2> QED
    BY <1>1, <2>1, <2>2
<1>15. ListedOnce(new.leaf)
  <2> SUFFICES ASSUME NEW p \in DOMAIN new.leaf, NEW q \in DOMAIN new.leaf,
                      NEW i \in DOMAIN new.leaf[p], NEW j \in DOMAIN new.leaf[q],
                      new.leaf[p][i] = new.leaf[q][j]
               PROVE  p = q /\ i = j
    BY DEF ListedOnce
  <2> DEFINE last(r, k) == r = path /\ k = m + 1
  <2>1. ASSUME NEW r \in DOMAIN new.leaf, NEW k \in DOMAIN new.leaf[r], ~last(r, k)
        PROVE  /\ r \in DOMAIN tree.leaf /\ k \in DOMAIN tree.leaf[r]
               /\ new.leaf[r][k] = tree.leaf[r][k] /\ new.leaf[r][k] # n + 1
    <3>1. CASE r # path
      BY <1>2, <1>3, <3>1 DEF TreeInv, Listed
    <3>2. CASE r = path
      <4>1. k \in 1 .. m
        BY <1>8, <1>9, <2>1, <3>2
      <4> QED
        BY <1>2, <1>4, <1>8, <1>9, <1>10, <1>12, <3>2, <4>1
    <3> QED
      BY <3>1, <3>2
  <2>2. \A r, k : last(r, k) => new.leaf[r][k] = n + 1
    BY <1>8, <1>9
  <2>3. CASE last(p, i) \/ last(q, j)
    BY <2>1, <2>2, <2>3
  <2>4. CASE ~last(p, i) /\ ~last(q, j)
    BY <2>1, <2>4 DEF TreeInv, ListedOnce
  <2> QED
    BY <2>3, <2>4
<1>16. /\ path \in DOMAIN tree.leaf => Len(new.leaf[path]) = Len(tree.leaf[path]) + 1
       /\ path \notin DOMAIN tree.leaf => Len(new.leaf[path]) = 1
  <2>1. Len(new.leaf[path]) = m + 1
    BY <1>8, <1>9
  <2>2. path \in DOMAIN tree.leaf => Len(tree.leaf[path]) = m
    BY <1>4, <1>6
  <2>3. path \notin DOMAIN tree.leaf => m = 0
    <3> SUFFICES ASSUME path \notin DOMAIN tree.leaf PROVE m = 0
      OBVIOUS
    <3>1. old = <<>>
      BY <1>4
    <3> QED
      BY <1>6, <3>1
  <2>4. ASSUME path \in DOMAIN tree.leaf
        PROVE  Len(new.leaf[path]) = Len(tree.leaf[path]) + 1
    <3>1. Len(tree.leaf[path]) = m
      BY <2>2, <2>4
    <3> QED
      BY <2>1, <3>1, Zenon
  <2>5. ASSUME path \notin DOMAIN tree.leaf
        PROVE  Len(new.leaf[path]) = 1
    <3>1. m = 0
      BY <2>3, <2>5
    <3> QED
      BY <2>1, <3>1
  <2> QED
    BY <2>4, <2>5
<1> QED
  BY <1>1, <1>2, <1>3, <1>11, <1>13, <1>14, <1>15, <1>16 DEF TreeInv
-----------------------------------------------------------------------------
(* The invariant of the tree.                                              *)

Tree == [leaf |-> leaf, clusters |-> clusters]

WithinBounds(tree) ==
  /\ Cardinality(DOMAIN tree.clusters) <= MaxTemplates
  /\ MaxClustersPerLeaf > 0 =>
       \A p \in DOMAIN tree.leaf : Len(tree.leaf[p]) <= MaxClustersPerLeaf

CountersOK == nextID \in Nat /\ nextGen \in Nat /\ process \in Nat

Indexed == CountersOK /\ TreeInv(Tree, nextID, nextGen) /\ WithinBounds(Tree)

LEMMA Bounds ==
  MaxTemplates \in Nat /\ MaxTemplates >= 1 /\ MaxClustersPerLeaf \in Nat
BY TemplatesAssumption

LEMMA IndexIsFinite ==
  ASSUME NEW n \in Nat, NEW g, NEW tree, TreeInv(tree, n, g)
  PROVE  IsFiniteSet(DOMAIN tree.clusters)
<1>1. IsFiniteSet(1 .. n)
  BY FS_Interval
<1>2. DOMAIN tree.clusters \subseteq 1 .. n
  BY DEF TreeInv, TreeTyped
<1> QED
  BY <1>1, <1>2, FS_Subset

\* A tree that came of this one by eviction: fewer clusters, shorter lists.
Within(new, tree) ==
  /\ DOMAIN new.clusters \subseteq DOMAIN tree.clusters
  /\ \A x \in DOMAIN new.clusters : new.clusters[x] = tree.clusters[x]
  /\ DOMAIN new.leaf = DOMAIN tree.leaf
  /\ \A p \in DOMAIN new.leaf : Len(new.leaf[p]) <= Len(tree.leaf[p])

\* A full leaf makes room for one cluster more (findOrCreate, the cap per leaf).
LEMMA RoomIsMade ==
  ASSUME Indexed, NEW path, NEW room, room = MakeRoom(path)
  PROVE  /\ TreeInv(room, nextID, nextGen)
         /\ Within(room, Tree)
         /\ MaxClustersPerLeaf > 0 /\ path \in DOMAIN leaf
              => Len(room.leaf[path]) < MaxClustersPerLeaf
<1>1. CASE ~LeafFull(path)
  <2>1. room = Tree
    BY <1>1 DEF MakeRoom, Tree
  <2>2. \A p \in DOMAIN leaf : Len(leaf[p]) \in Nat
    BY DEF Indexed, TreeInv, TreeTyped, Tree
  <2>3. Within(room, Tree)
    BY <2>1, <2>2 DEF Within, Tree
  <2>4. ASSUME MaxClustersPerLeaf > 0, path \in DOMAIN leaf
        PROVE  Len(room.leaf[path]) < MaxClustersPerLeaf
    <3>1. At(path) = leaf[path]
      BY <2>4 DEF At
    <3> QED
      BY <1>1, <2>1, <2>2, <2>4, <3>1, Bounds DEF LeafFull, Tree
  <2> QED
    BY <2>1, <2>3, <2>4 DEF Indexed
<1>2. CASE LeafFull(path)
  <2> DEFINE id == LeastRecent(clusters, Range(At(path)))
  <2>1. path \in DOMAIN leaf
    <3> SUFFICES ASSUME path \notin DOMAIN leaf PROVE FALSE
      OBVIOUS
    <3>1. At(path) = <<>>
      BY DEF At
    <3>2. Len(At(path)) = 0
      BY <3>1, EmptySeq, Zenon
    <3> QED
      BY <1>2, <3>2, Bounds DEF LeafFull
  <2>2. /\ At(path) = leaf[path] /\ leaf[path] \in Seq(1 .. nextID)
        /\ MaxClustersPerLeaf > 0 /\ Len(leaf[path]) >= MaxClustersPerLeaf
    BY <1>2, <2>1 DEF At, LeafFull, Indexed, TreeInv, TreeTyped, Tree
  <2>3. Range(At(path)) # {}
    <3>1. 1 \in DOMAIN leaf[path]
      BY <2>2, Bounds
    <3> QED
      BY <2>2, <3>1 DEF Range
  <2>4. \A x \in Range(At(path)) : x \in DOMAIN clusters /\ clusters[x].gen \in Nat
    <3>1. Range(At(path)) \subseteq DOMAIN clusters
      BY <2>1, <2>2 DEF Range, Indexed, TreeInv, Listed, Tree
    <3>2. \A x \in DOMAIN clusters : clusters[x].gen \in Nat
      BY DEF Indexed, CountersOK, TreeInv, TreeTyped, Tree
    <3> QED
      BY <3>1, <3>2
  <2>5. id \in Range(At(path))
    BY <2>3, <2>4, LeastRecentIsOne
  <2>6. room = EvictCluster(Tree, id)
    BY <1>2 DEF MakeRoom, Tree
  <2>7. Tree.leaf = leaf /\ Tree.clusters = clusters /\ TreeInv(Tree, nextID, nextGen)
    BY DEF Tree, Indexed
  <2> HIDE DEF id
  <2>8. /\ TreeInv(room, nextID, nextGen)
        /\ DOMAIN room.clusters = DOMAIN Tree.clusters \ {id}
        /\ \A x \in DOMAIN room.clusters : room.clusters[x] = Tree.clusters[x]
        /\ DOMAIN room.leaf = DOMAIN Tree.leaf
        /\ \A p \in DOMAIN room.leaf :
             /\ Len(room.leaf[p]) <= Len(Tree.leaf[p])
             /\ id \in Range(Tree.leaf[p]) => Len(room.leaf[p]) = Len(Tree.leaf[p]) - 1
    BY <2>6, <2>7, EvictionAgrees DEF Indexed, CountersOK
  <2>9. Len(room.leaf[path]) = Len(leaf[path]) - 1
    BY <2>1, <2>2, <2>5, <2>7, <2>8
  <2>10. Len(leaf[path]) <= MaxClustersPerLeaf /\ Len(leaf[path]) \in Nat
    BY <2>1, <2>2 DEF Indexed, WithinBounds, Tree
  <2>11. Len(room.leaf[path]) < MaxClustersPerLeaf
    BY <2>9, <2>10, Bounds
  <2> QED
    BY <2>8, <2>11 DEF Within
<1> QED
  BY <1>1, <1>2

\* The index is brought back to its bound (findOrCreate, MaxTemplates).
LEMMA BoundIsKept ==
  ASSUME NEW n \in Nat, NEW g \in Nat, NEW tree, TreeInv(tree, n, g),
         Cardinality(DOMAIN tree.clusters) <= MaxTemplates + 1,
         NEW new, new = KeepBound(tree)
  PROVE  /\ TreeInv(new, n, g)
         /\ Within(new, tree)
         /\ Cardinality(DOMAIN new.clusters) <= MaxTemplates
<1>0. IsFiniteSet(DOMAIN tree.clusters) /\ Cardinality(DOMAIN tree.clusters) \in Nat
  BY IndexIsFinite, FS_CardinalityType
<1>1. CASE ~(Cardinality(DOMAIN tree.clusters) > MaxTemplates)
  <2>1. new = tree
    BY <1>1 DEF KeepBound
  <2>2. \A p \in DOMAIN tree.leaf : Len(tree.leaf[p]) \in Nat
    BY DEF TreeInv, TreeTyped
  <2> QED
    BY <1>0, <1>1, <2>1, <2>2, Bounds DEF Within
<1>2. CASE Cardinality(DOMAIN tree.clusters) > MaxTemplates
  <2> DEFINE id == LeastRecent(tree.clusters, DOMAIN tree.clusters)
  <2>1. DOMAIN tree.clusters # {}
    <3> SUFFICES ASSUME DOMAIN tree.clusters = {} PROVE FALSE
      OBVIOUS
    <3>1. Cardinality(DOMAIN tree.clusters) = 0
      BY FS_EmptySet, Zenon
    <3> QED
      BY <1>2, <3>1, Bounds
  <2>2. \A x \in DOMAIN tree.clusters : tree.clusters[x].gen \in Nat
    BY DEF TreeInv, TreeTyped
  <2>3. id \in DOMAIN tree.clusters
    BY <2>1, <2>2, LeastRecentIsOne
  <2>4. new = EvictCluster(tree, id)
    BY <1>2 DEF KeepBound
  <2> HIDE DEF id
  <2>5. /\ TreeInv(new, n, g)
        /\ DOMAIN new.clusters = DOMAIN tree.clusters \ {id}
        /\ \A x \in DOMAIN new.clusters : new.clusters[x] = tree.clusters[x]
        /\ DOMAIN new.leaf = DOMAIN tree.leaf
        /\ \A p \in DOMAIN new.leaf : Len(new.leaf[p]) <= Len(tree.leaf[p])
    BY <2>4, EvictionAgrees
  <2>6. Cardinality(DOMAIN new.clusters) = Cardinality(DOMAIN tree.clusters) - 1
    BY <1>0, <2>3, <2>5, FS_RemoveElement
  <2>7. Cardinality(DOMAIN new.clusters) <= MaxTemplates
    BY <1>0, <2>6, Bounds
  <2> QED
    BY <2>5, <2>7 DEF Within
<1> QED
  BY <1>1, <1>2

\* What a line that matches nothing does to the tree.
LEMMA NewCluster ==
  ASSUME Indexed, NEW line \in Line, ParseNew(line)
  PROVE  /\ Indexed'
         /\ DOMAIN clusters' \subseteq DOMAIN clusters \cup {nextID + 1}
         /\ \A x \in DOMAIN clusters' : x # nextID + 1 => clusters'[x] = clusters[x]
         /\ nextID + 1 \in DOMAIN clusters' => clusters'[nextID + 1].text = line
<1>1. PICK path : path = Path(line)
  OBVIOUS
<1>2. path[1] = Len(line)
  BY <1>1 DEF Path
<1>3. line \in Text
  <2>1. line \in Seq(Token)
    BY TemplatesAssumption
  <2> QED
    BY <2>1 DEF Text
<1>4. PICK room : room = MakeRoom(path)
  OBVIOUS
<1>5. PICK more : more = AddCluster(room, path, nextID + 1, [text |-> line, gen |-> nextGen + 1])
  OBVIOUS
<1>6. PICK new : new = KeepBound(more)
  OBVIOUS
<1>7. /\ leaf' = new.leaf /\ clusters' = new.clusters
      /\ nextID' = nextID + 1 /\ nextGen' = nextGen + 1 /\ process' = process
  BY <1>1, <1>4, <1>5, <1>6 DEF ParseNew
<1>8. /\ TreeInv(room, nextID, nextGen)
      /\ Within(room, Tree)
      /\ MaxClustersPerLeaf > 0 /\ path \in DOMAIN leaf
           => Len(room.leaf[path]) < MaxClustersPerLeaf
  BY <1>4, RoomIsMade
<1>9. CountersOK
  BY DEF Indexed
<1>10. /\ TreeInv(more, nextID + 1, nextGen + 1)
       /\ DOMAIN more.clusters = DOMAIN room.clusters \cup {nextID + 1}
       /\ \A x \in DOMAIN room.clusters : more.clusters[x] = room.clusters[x]
       /\ more.clusters[nextID + 1] = [text |-> line, gen |-> nextGen + 1]
       /\ DOMAIN more.leaf = DOMAIN room.leaf \cup {path}
       /\ \A p \in DOMAIN room.leaf \ {path} : more.leaf[p] = room.leaf[p]
       /\ path \in DOMAIN room.leaf => Len(more.leaf[path]) = Len(room.leaf[path]) + 1
       /\ path \notin DOMAIN room.leaf => Len(more.leaf[path]) = 1
  <2>1. nextID \in Nat /\ nextGen \in Nat
    BY <1>9 DEF CountersOK
  <2>2. TreeInv(room, nextID, nextGen)
    BY <1>8
  <2>3. PICK n, g : n = nextID /\ g = nextGen
    OBVIOUS
  <2>4. /\ n \in Nat /\ g \in Nat /\ TreeInv(room, n, g)
        /\ more = AddCluster(room, path, n + 1, [text |-> line, gen |-> g + 1])
    BY <1>5, <2>1, <2>2, <2>3
  <2>5. /\ TreeInv(more, n + 1, g + 1)
        /\ DOMAIN more.clusters = DOMAIN room.clusters \cup {n + 1}
        /\ \A x \in DOMAIN room.clusters : more.clusters[x] = room.clusters[x]
        /\ more.clusters[n + 1] = [text |-> line, gen |-> g + 1]
        /\ DOMAIN more.leaf = DOMAIN room.leaf \cup {path}
        /\ \A p \in DOMAIN room.leaf \ {path} : more.leaf[p] = room.leaf[p]
        /\ path \in DOMAIN room.leaf => Len(more.leaf[path]) = Len(room.leaf[path]) + 1
        /\ path \notin DOMAIN room.leaf => Len(more.leaf[path]) = 1
    BY <1>2, <1>3, <2>4, AdditionAgrees
  <2> QED
    BY <2>3, <2>5
<1>11. Cardinality(DOMAIN more.clusters) <= MaxTemplates + 1
  <2>1. IsFiniteSet(DOMAIN clusters) /\ Cardinality(DOMAIN clusters) <= MaxTemplates
    <3>1. IsFiniteSet(DOMAIN Tree.clusters)
      BY <1>9, IndexIsFinite DEF Indexed, CountersOK
    <3> QED
      BY <3>1 DEF Indexed, WithinBounds, Tree
  <2>2. DOMAIN room.clusters \subseteq DOMAIN clusters
    BY <1>8 DEF Within, Tree
  <2>3. /\ IsFiniteSet(DOMAIN room.clusters)
        /\ Cardinality(DOMAIN room.clusters) <= Cardinality(DOMAIN clusters)
    BY <2>1, <2>2, FS_Subset
  <2>4. nextID + 1 \notin DOMAIN room.clusters
    BY <1>8, <1>9 DEF TreeInv, TreeTyped, CountersOK
  <2>5. Cardinality(DOMAIN more.clusters) = Cardinality(DOMAIN room.clusters) + 1
    <3>1. PICK S : S = DOMAIN room.clusters
      OBVIOUS
    <3>2. Cardinality(S \cup {nextID + 1}) = Cardinality(S) + 1
      BY <2>3, <2>4, <3>1, FS_AddElement
    <3> QED
      BY <1>10, <3>1, <3>2
  <2> QED
    BY <2>1, <2>3, <2>5, FS_CardinalityType, Bounds
<1>12. /\ TreeInv(new, nextID + 1, nextGen + 1)
       /\ Within(new, more)
       /\ Cardinality(DOMAIN new.clusters) <= MaxTemplates
  <2>1. nextID + 1 \in Nat /\ nextGen + 1 \in Nat
    BY <1>9 DEF CountersOK
  <2>2. TreeInv(more, nextID + 1, nextGen + 1)
    BY <1>10
  <2> QED
    BY <1>6, <1>11, <2>1, <2>2, BoundIsKept
<1>13. ASSUME MaxClustersPerLeaf > 0, NEW p \in DOMAIN new.leaf
       PROVE  Len(new.leaf[p]) <= MaxClustersPerLeaf
  <2>1. p \in DOMAIN more.leaf /\ Len(new.leaf[p]) <= Len(more.leaf[p])
    BY <1>12 DEF Within
  <2>2. /\ Len(new.leaf[p]) \in Nat /\ Len(more.leaf[p]) \in Nat
        /\ p \in DOMAIN room.leaf => Len(room.leaf[p]) \in Nat
    BY <1>8, <1>10, <1>12, <1>13, <2>1 DEF TreeInv, TreeTyped
  <2>3. Len(more.leaf[p]) <= MaxClustersPerLeaf
    <3>1. CASE p = path /\ path \in DOMAIN room.leaf
      <4>1. path \in DOMAIN leaf
        BY <1>8, <3>1 DEF Within, Tree
      <4> QED
        <5>1. Len(room.leaf[p]) < MaxClustersPerLeaf /\ Len(room.leaf[p]) \in Nat
          BY <1>8, <1>13, <2>2, <3>1, <4>1
        <5>2. Len(more.leaf[p]) = Len(room.leaf[p]) + 1
          BY <1>10, <3>1
        <5> QED
          BY <2>2, <5>1, <5>2, Bounds
    <3>2. CASE p = path /\ path \notin DOMAIN room.leaf
      <4>1. Len(more.leaf[p]) = 1
        BY <1>10, <3>2
      <4> QED
        BY <1>13, <4>1, Bounds
    <3>3. CASE p # path
      <4>1. p \in DOMAIN room.leaf /\ more.leaf[p] = room.leaf[p]
        BY <1>10, <2>1, <3>3
      <4>2. p \in DOMAIN leaf /\ Len(room.leaf[p]) <= Len(leaf[p])
        BY <1>8, <4>1 DEF Within, Tree
      <4>3. Len(leaf[p]) <= MaxClustersPerLeaf /\ Len(leaf[p]) \in Nat
        BY <1>13, <4>2 DEF Indexed, WithinBounds, TreeInv, TreeTyped, Tree
      <4> QED
        BY <2>2, <4>1, <4>2, <4>3, Bounds
    <3> QED
      BY <3>1, <3>2, <3>3
  <2> QED
    BY <2>1, <2>2, <2>3, Bounds
<1>14. Indexed'
  <2>1. CountersOK'
    BY <1>7, <1>9 DEF CountersOK
  <2>2. Tree' = [leaf |-> new.leaf, clusters |-> new.clusters]
    BY <1>7 DEF Tree
  <2>3. TreeInv(Tree', nextID', nextGen')
    BY <1>7, <1>12, <2>2 DEF TreeInv, TreeTyped, Listed, Placed, ListedOnce
  <2>4. WithinBounds(Tree')
    BY <1>12, <1>13, <2>2 DEF WithinBounds
  <2> QED
    BY <2>1, <2>3, <2>4 DEF Indexed
<1>15. DOMAIN new.clusters \subseteq DOMAIN clusters \cup {nextID + 1}
  BY <1>8, <1>10, <1>12 DEF Within, Tree
<1>16. ASSUME NEW x \in DOMAIN new.clusters, x # nextID + 1
       PROVE  new.clusters[x] = clusters[x]
  BY <1>8, <1>10, <1>12, <1>16 DEF Within, Tree
<1>17. nextID + 1 \in DOMAIN new.clusters => new.clusters[nextID + 1].text = line
  BY <1>10, <1>12 DEF Within
<1> QED
  BY <1>7, <1>14, <1>15, <1>16, <1>17
\* A line that matches widens one cluster and moves none.
LEMMA WidenedCluster ==
  ASSUME Indexed, NEW line \in Line, ParseMatch(line)
  PROVE  \E id \in DOMAIN clusters :
           LET text == Merge(clusters[id].text, line) IN
           /\ Len(clusters[id].text) = Len(line)
           /\ clusters' = [clusters EXCEPT ![id] = [text |-> text, gen |-> nextGen + 1]]
           /\ rows' = rows \cup {Row(line, id)}
           /\ upserts' = IF text = clusters[id].text THEN upserts ELSE Put(upserts, id, text)
           /\ Indexed'
<1>1. PICK path : path = Path(line)
  OBVIOUS
<1>2. path[1] = Len(line)
  BY <1>1 DEF Path
<1>3. PICK i \in DOMAIN At(path) :
        LET id == leaf[path][i]
            text == Merge(clusters[id].text, line) IN
        /\ clusters' = [clusters EXCEPT ![id] = [text |-> text, gen |-> nextGen + 1]]
        /\ rows' = rows \cup {Row(line, id)}
        /\ upserts' = IF text = clusters[id].text THEN upserts ELSE Put(upserts, id, text)
  BY <1>1 DEF ParseMatch, Upsert
<1>4. /\ leaf' = leaf /\ nextID' = nextID /\ nextGen' = nextGen + 1 /\ process' = process
  BY DEF ParseMatch
<1>5. path \in DOMAIN leaf /\ i \in DOMAIN leaf[path]
  <2>1. CASE path \in DOMAIN leaf
    BY <2>1 DEF At
  <2>2. CASE path \notin DOMAIN leaf
    <3>1. At(path) = <<>>
      BY <2>2 DEF At
    <3>2. DOMAIN At(path) = {}
      BY <3>1
    <3> QED
      BY <3>2
  <2> QED
    BY <2>1, <2>2
<1>6. PICK id : id = leaf[path][i]
  OBVIOUS
<1>7. id \in DOMAIN clusters /\ Len(clusters[id].text) = Len(line)
  BY <1>2, <1>5, <1>6 DEF Indexed, TreeInv, Listed, Tree
<1>8. PICK text : text = Merge(clusters[id].text, line)
  OBVIOUS
<1>9. /\ clusters' = [clusters EXCEPT ![id] = [text |-> text, gen |-> nextGen + 1]]
      /\ rows' = rows \cup {Row(line, id)}
      /\ upserts' = IF text = clusters[id].text THEN upserts ELSE Put(upserts, id, text)
  BY <1>3, <1>6, <1>8
<1>10. /\ DOMAIN clusters' = DOMAIN clusters
       /\ clusters'[id] = [text |-> text, gen |-> nextGen + 1]
       /\ \A x \in DOMAIN clusters : x # id => clusters'[x] = clusters[x]
  BY <1>7, <1>9
<1>11. clusters[id].text \in Text
  BY <1>7 DEF Indexed, TreeInv, TreeTyped, Tree
<1>12. text \in Text /\ Len(text) = Len(clusters[id].text)
  <2>1. PICK t : t = clusters[id].text
    OBVIOUS
  <2>2. PICK n \in Nat : n = Len(t) /\ DOMAIN t = 1 .. n
    BY <1>11, <2>1 DEF Text
  <2>3. \A j \in 1 .. n : t[j] \in Token \cup {Wildcard}
    BY <1>11, <2>1, <2>2 DEF Text
  <2>4. text = [j \in 1 .. n |-> IF t[j] = line[j] THEN t[j] ELSE Wildcard]
    BY <1>8, <2>1, <2>2 DEF Merge
  <2>5. text \in [1 .. n -> Token \cup {Wildcard}]
    BY <2>3, <2>4
  <2>6. text \in Text /\ Len(text) = n
    BY <2>5, SeqDef DEF Text
  <2> QED
    BY <2>1, <2>2, <2>6
<1>13. TreeTyped(Tree', nextID', nextGen')
  <2>1. \A x \in DOMAIN clusters' : clusters'[x].gen \in 0 .. nextGen + 1 /\ clusters'[x].text \in Text
    <3>1. clusters'[id].gen = nextGen + 1 /\ clusters'[id].text = text
      BY <1>10
    <3>2. \A x \in DOMAIN clusters : x # id => clusters'[x].gen \in 0 .. nextGen /\ clusters'[x].text \in Text
      BY <1>10 DEF Indexed, TreeInv, TreeTyped, Tree
    <3> QED
      BY <1>10, <1>12, <3>1, <3>2 DEF Indexed, CountersOK
  <2> QED
    BY <1>4, <1>10, <2>1 DEF Indexed, TreeInv, TreeTyped, Tree
<1>14. Listed(Tree')
  <2> SUFFICES ASSUME NEW p \in DOMAIN leaf, NEW k \in DOMAIN leaf[p]
               PROVE  /\ leaf[p][k] \in DOMAIN clusters'
                      /\ Len(clusters'[leaf[p][k]].text) = p[1]
    BY <1>4 DEF Listed, Tree
  <2>1. PICK x : x = leaf[p][k]
    OBVIOUS
  <2>2. x \in DOMAIN clusters /\ Len(clusters[x].text) = p[1]
    BY <2>1 DEF Indexed, TreeInv, Listed, Tree
  <2>3. Len(clusters'[x].text) = Len(clusters[x].text)
    <3>1. CASE x = id
      BY <1>10, <1>12, <3>1
    <3>2. CASE x # id
      BY <1>10, <2>2, <3>2
    <3> QED
      BY <3>1, <3>2
  <2> QED
    BY <1>10, <2>1, <2>2, <2>3
<1>15. Placed(Tree') /\ ListedOnce(Tree'.leaf) /\ WithinBounds(Tree')
  BY <1>4, <1>10 DEF Indexed, TreeInv, Placed, ListedOnce, WithinBounds, Tree
<1>16. Indexed'
  BY <1>4, <1>13, <1>14, <1>15 DEF Indexed, TreeInv, CountersOK, TreeTyped, Listed, Placed, ListedOnce, WithinBounds, Tree
<1> QED
  BY <1>7, <1>8, <1>9, <1>16

LEMMA EmptyTree ==
  ASSUME NEW tree, tree = [leaf |-> <<>>, clusters |-> <<>>]
  PROVE  TreeInv(tree, 0, 0) /\ WithinBounds(tree)
<1>1. DOMAIN tree.leaf = {} /\ DOMAIN tree.clusters = {}
  OBVIOUS
<1>2. Cardinality(DOMAIN tree.clusters) = 0
  BY <1>1, FS_EmptySet, Zenon
<1>3. WithinBounds(tree)
  BY <1>1, <1>2, Bounds DEF WithinBounds
<1>4. TreeInv(tree, 0, 0)
  BY <1>1 DEF TreeInv, TreeTyped, Listed, Placed, ListedOnce
<1> QED
  BY <1>3, <1>4

LEMMA IndexedStays ==
  ASSUME Indexed, [Next]_vars
  PROVE  Indexed'
<1>1. CASE \E line \in Line : ParseMatch(line)
  BY <1>1, WidenedCluster
<1>2. CASE \E line \in Line : ParseNew(line)
  BY <1>2, NewCluster
<1>3. CASE Restart
  <2>1. /\ leaf' = <<>> /\ clusters' = <<>> /\ nextID' = 0 /\ nextGen' = 0
        /\ process' \in Nat
    BY <1>3 DEF Restart, Indexed, CountersOK
  <2>2. Tree' = [leaf |-> <<>>, clusters |-> <<>>]
    BY <2>1 DEF Tree
  <2>3. TreeInv(Tree', 0, 0) /\ WithinBounds(Tree')
    BY <2>2, EmptyTree
  <2>4. TreeInv(Tree', nextID', nextGen')
    BY <2>1, <2>3
  <2>5. CountersOK'
    BY <2>1 DEF CountersOK
  <2> QED
    BY <2>3, <2>4, <2>5 DEF Indexed, TreeInv, TreeTyped, Listed, Placed, ListedOnce, WithinBounds
<1>4. CASE FlushOk \/ FlushError \/ UNCHANGED vars
  <2>1. /\ leaf' = leaf /\ clusters' = clusters /\ nextID' = nextID /\ nextGen' = nextGen
        /\ process' = process
    BY <1>4 DEF FlushOk, FlushError, vars, treeVars
  <2> QED
    BY <2>1 DEF Indexed, CountersOK, TreeInv, TreeTyped, Listed, Placed, ListedOnce,
                WithinBounds, Tree
<1> QED
  BY <1>1, <1>2, <1>3, <1>4 DEF Next

\* The index and the leaves' lists name the same clusters, each once, within both
\* bounds, through every match, widening and eviction of the parse tree
\* (findOrCreate, evictLRU and evictLeafLRU in internal/logs/drain.go).
THEOREM IndexAgreesWithLeaves == Spec => []IndexAndLeavesAgree
<1>1. Init => Indexed
  BY EmptyTree DEF Init, Indexed, CountersOK, Tree
<1>2. Indexed /\ [Next]_vars => Indexed'
  BY IndexedStays
<1>3. Indexed => IndexAndLeavesAgree
  <2> SUFFICES ASSUME Indexed PROVE IndexAndLeavesAgree
    OBVIOUS
  <2>1. DOMAIN clusters = UNION {Range(leaf[p]) : p \in DOMAIN leaf}
    <3>1. \A p \in DOMAIN leaf : Range(leaf[p]) \subseteq DOMAIN clusters
      BY DEF Indexed, TreeInv, Listed, Tree, Range
    <3>2. \A x \in DOMAIN clusters : \E p \in DOMAIN leaf : x \in Range(leaf[p])
      BY DEF Indexed, TreeInv, Placed, Tree, Range
    <3> QED
      BY <3>1, <3>2
  <2> QED
    BY <2>1 DEF Indexed, TreeInv, WithinBounds, Tree, IndexAndLeavesAgree
<1> QED
  BY <1>1, <1>2, <1>3, PTL DEF Spec
-----------------------------------------------------------------------------
(* The dictionary.                                                         *)

\* Ids that the process handed out, the rows and texts that bear them, and that
\* no row is of a later process than the one that last handed its id out.
Issued ==
  /\ \A r \in rows \cup logs : r.line \in Line /\ r.id \in DOMAIN issuer /\ r.process <= issuer[r.id]
  /\ \A r \in rows \cup logs : r.process \in Nat
  /\ \A r \in rows : r.process = process
  /\ \A id \in DOMAIN issuer : issuer[id] \in 0 .. process
  /\ \A id \in DOMAIN issuer : issuer[id] = process => id \in 1 .. nextID
  /\ \A id \in 1 .. nextID : id \in DOMAIN issuer /\ issuer[id] = process
  /\ DOMAIN upserts \subseteq 1 .. nextID

\* The texts that are still to be stored cover the rows of this process.
TextsCover ==
  \A r \in rows \cup logs : r.process = process =>
    /\ r.id \in DOMAIN upserts => Covers(upserts[r.id], r.line)
    /\ r.id \in DOMAIN clusters => Covers(clusters[r.id].text, r.line)

\* A cluster's text is in the flush, or in the dictionary, or went down.
Reported ==
  \A id \in DOMAIN clusters :
    IF id \in DOMAIN upserts THEN upserts[id] = clusters[id].text
    ELSE \/ id \in unsaved
         \/ id \in DOMAIN log_templates /\ log_templates[id] = clusters[id].text

\* A row of the flush whose text is not in the flush is covered already.
RowsCovered ==
  \A r \in rows : r.id \notin DOMAIN upserts \cup unsaved =>
    r.id \in DOMAIN log_templates /\ Covers(log_templates[r.id], r.line)

DictionaryInv ==
  Indexed /\ Issued /\ TextsCover /\ Reported /\ RowsCovered /\ DictionaryCoversLogs
LEMMA LineIsSequence ==
  ASSUME NEW line \in Line
  PROVE  line \in Seq(Token) /\ Len(line) \in Nat /\ DOMAIN line = 1 .. Len(line)
BY TemplatesAssumption

LEMMA LineCoversItself ==
  ASSUME NEW line \in Line
  PROVE  Covers(line, line)
BY DEF Covers, AgreesAt

\* merge: the wider text covers the line, and what the text covered before.
LEMMA MergeCovers ==
  ASSUME NEW text \in Text, NEW line \in Line, Len(text) = Len(line)
  PROVE  /\ Covers(Merge(text, line), line)
         /\ \A old \in Line : Covers(text, old) => Covers(Merge(text, line), old)
<1>1. PICK n \in Nat : n = Len(text) /\ DOMAIN text = 1 .. n
  BY DEF Text
<1>2. PICK m : m = Merge(text, line)
  OBVIOUS
<1>3. m = [i \in 1 .. n |-> IF text[i] = line[i] THEN text[i] ELSE Wildcard]
  BY <1>1, <1>2 DEF Merge
<1>4. \A i \in 1 .. n : m[i] = Wildcard \/ (m[i] = text[i] /\ m[i] = line[i])
  <2>1. \A i \in 1 .. n : text[i] = line[i] => m[i] = text[i]
    BY <1>3
  <2>2. \A i \in 1 .. n : text[i] # line[i] => m[i] = Wildcard
    BY <1>3
  <2> QED
    BY <2>1, <2>2
<1>5. Len(m) = n
  <2>1. m \in [1 .. n -> Token \cup {Wildcard}]
    <3>1. \A i \in 1 .. n : text[i] \in Token \cup {Wildcard}
      BY <1>1 DEF Text
    <3> QED
      BY <1>3, <3>1
  <2> QED
    BY <2>1, SeqDef
<1>6. DOMAIN line = 1 .. n
  BY <1>1, LineIsSequence
<1>7. Covers(m, line)
  BY <1>1, <1>4, <1>5, <1>6 DEF Covers, AgreesAt
<1>8. ASSUME NEW old \in Line, Covers(text, old) PROVE Covers(m, old)
  <2>1. Len(text) = Len(old) /\ DOMAIN old = 1 .. n
    BY <1>1, <1>8, LineIsSequence DEF Covers
  <2>2. \A i \in 1 .. n : text[i] = Wildcard \/ text[i] = old[i]
    BY <1>8, <2>1 DEF Covers, AgreesAt
  <2>3. \A i \in 1 .. n : m[i] = Wildcard \/ m[i] = old[i]
    BY <1>4, <2>2
  <2> QED
    BY <1>1, <1>5, <2>1, <2>3 DEF Covers, AgreesAt
<1> QED
  BY <1>2, <1>7, <1>8

LEMMA MatchExplained ==
  ASSUME DictionaryInv, NEW line \in Line, ParseMatch(line)
  PROVE  (Issued /\ TextsCover /\ Reported /\ RowsCovered /\ DictionaryCoversLogs)'
<1>1. PICK id \in DOMAIN clusters :
        LET text == Merge(clusters[id].text, line) IN
        /\ Len(clusters[id].text) = Len(line)
        /\ clusters' = [clusters EXCEPT ![id] = [text |-> text, gen |-> nextGen + 1]]
        /\ rows' = rows \cup {Row(line, id)}
        /\ upserts' = IF text = clusters[id].text THEN upserts ELSE Put(upserts, id, text)
        /\ Indexed'
  BY WidenedCluster DEF DictionaryInv
<1>2. PICK text : text = Merge(clusters[id].text, line)
  OBVIOUS
<1>3. PICK row : row = Row(line, id)
  OBVIOUS
<1>4. row.line = line /\ row.id = id /\ row.process = process
  BY <1>3 DEF Row
<1>5. /\ Len(clusters[id].text) = Len(line)
      /\ clusters' = [clusters EXCEPT ![id] = [text |-> text, gen |-> nextGen + 1]]
      /\ rows' = rows \cup {row}
      /\ upserts' = IF text = clusters[id].text THEN upserts ELSE Put(upserts, id, text)
  BY <1>1, <1>2, <1>3
<1>6. UNCHANGED <<nextID, logs, log_templates, process, unsaved, issuer>>
  BY DEF ParseMatch, storeVars, historyVars
<1>7. /\ DOMAIN clusters' = DOMAIN clusters /\ clusters'[id].text = text
      /\ \A x \in DOMAIN clusters : x # id => clusters'[x] = clusters[x]
  BY <1>5
<1>8. id \in 1 .. nextID /\ id \in DOMAIN issuer /\ issuer[id] = process
  <2>1. id \in 1 .. nextID
    BY DEF DictionaryInv, Indexed, TreeInv, TreeTyped, Tree
  <2> QED
    BY <2>1 DEF DictionaryInv, Issued
<1>9. /\ Covers(text, line)
      /\ \A old \in Line : Covers(clusters[id].text, old) => Covers(text, old)
  <2>1. clusters[id].text \in Text
    BY DEF DictionaryInv, Indexed, TreeInv, TreeTyped, Tree
  <2> QED
    BY <1>2, <1>5, <2>1, MergeCovers
<1>10. /\ text = clusters[id].text => upserts' = upserts
       /\ text # clusters[id].text =>
            /\ DOMAIN upserts' = DOMAIN upserts \cup {id} /\ upserts'[id] = text
            /\ \A x \in DOMAIN upserts : x # id => upserts'[x] = upserts[x]
  BY <1>5 DEF Put
<1>11. /\ DOMAIN upserts \subseteq DOMAIN upserts'
       /\ DOMAIN upserts' \subseteq DOMAIN upserts \cup {id}
       /\ \A x \in DOMAIN upserts : x # id => upserts'[x] = upserts[x]
       /\ id \in DOMAIN upserts' => upserts'[id] = text
  <2>1. CASE text = clusters[id].text
    <3>1. id \in DOMAIN upserts => upserts[id] = text
      BY <2>1 DEF DictionaryInv, Reported
    <3> QED
      BY <1>10, <2>1, <3>1
  <2>2. CASE text # clusters[id].text
    BY <1>10, <2>2
  <2> QED
    BY <2>1, <2>2
<1>12. Issued'
  <2>1. DOMAIN upserts' \subseteq 1 .. nextID
    BY <1>8, <1>11 DEF DictionaryInv, Issued
  <2>2. process \in Nat
    BY DEF DictionaryInv, Indexed, CountersOK
  <2> QED
    BY <1>4, <1>5, <1>6, <1>8, <2>1, <2>2 DEF DictionaryInv, Issued
<1>13. \A r \in rows \cup logs : r.line \in Line
  BY DEF DictionaryInv, Issued
<1>14. ASSUME NEW r \in rows \cup logs, r.process = process, r.id = id
       PROVE  Covers(text, r.line)
  BY <1>9, <1>13, <1>14 DEF DictionaryInv, TextsCover
<1>15. TextsCover'
  <2> SUFFICES ASSUME NEW r \in rows' \cup logs, r.process = process
               PROVE  /\ r.id \in DOMAIN upserts' => Covers(upserts'[r.id], r.line)
                      /\ r.id \in DOMAIN clusters' => Covers(clusters'[r.id].text, r.line)
    BY <1>6 DEF TextsCover
  <2>1. CASE r.id = id
    <3>1. Covers(text, r.line)
      BY <1>4, <1>5, <1>9, <1>14, <2>1
    <3> QED
      BY <1>7, <1>11, <2>1, <3>1
  <2>2. CASE r.id # id
    <3>1. r \in rows \cup logs
      BY <1>4, <1>5, <2>2
    <3> QED
      BY <1>7, <1>11, <2>2, <3>1 DEF DictionaryInv, TextsCover
  <2> QED
    BY <2>1, <2>2
<1>16. ASSUME id \notin DOMAIN upserts'
       PROVE  id \in unsaved \/ (id \in DOMAIN log_templates /\ log_templates[id] = text)
  <2>1. text = clusters[id].text
    BY <1>10, <1>16
  <2> QED
    BY <1>11, <1>16, <2>1 DEF DictionaryInv, Reported
<1>17. Reported'
  <2> SUFFICES ASSUME NEW x \in DOMAIN clusters
               PROVE  /\ x \in DOMAIN upserts' => upserts'[x] = clusters'[x].text
                      /\ x \notin DOMAIN upserts' =>
                           \/ x \in unsaved
                           \/ x \in DOMAIN log_templates /\ log_templates[x] = clusters'[x].text
    BY <1>6, <1>7 DEF Reported
  <2>1. CASE x = id
    BY <1>7, <1>11, <1>16, <2>1
  <2>2. CASE x # id
    BY <1>7, <1>11, <2>2 DEF DictionaryInv, Reported
  <2> QED
    BY <2>1, <2>2
<1>18. RowsCovered'
  <2> SUFFICES ASSUME NEW r \in rows', r.id \notin DOMAIN upserts' \cup unsaved
               PROVE  r.id \in DOMAIN log_templates /\ Covers(log_templates[r.id], r.line)
    BY <1>6 DEF RowsCovered
  <2>1. CASE r = row
    BY <1>4, <1>9, <1>16, <2>1
  <2>2. CASE r # row
    BY <1>5, <1>11, <2>2 DEF DictionaryInv, RowsCovered
  <2> QED
    BY <2>1, <2>2
<1>19. DictionaryCoversLogs'
  BY <1>6 DEF DictionaryInv, DictionaryCoversLogs
<1> QED
  BY <1>12, <1>15, <1>17, <1>18, <1>19

LEMMA NewExplained ==
  ASSUME DictionaryInv, NEW line \in Line, ParseNew(line)
  PROVE  (Issued /\ TextsCover /\ Reported /\ RowsCovered /\ DictionaryCoversLogs)'
<1>1. PICK id : id = nextID + 1
  OBVIOUS
<1>2. /\ DOMAIN clusters' \subseteq DOMAIN clusters \cup {id}
      /\ \A x \in DOMAIN clusters' : x # id => clusters'[x] = clusters[x]
      /\ id \in DOMAIN clusters' => clusters'[id].text = line
  BY <1>1, NewCluster DEF DictionaryInv
<1>3. PICK row : row = Row(line, id)
  OBVIOUS
<1>4. row.line = line /\ row.id = id /\ row.process = process
  BY <1>3 DEF Row
<1>5. /\ rows' = rows \cup {row} /\ upserts' = Put(upserts, id, line)
      /\ issuer' = Put(issuer, id, process) /\ nextID' = id
      /\ UNCHANGED <<logs, log_templates, process, unsaved>>
  BY <1>1, <1>3 DEF ParseNew, storeVars, Upsert
<1>6. /\ DOMAIN upserts' = DOMAIN upserts \cup {id} /\ upserts'[id] = line
      /\ \A x \in DOMAIN upserts : x # id => upserts'[x] = upserts[x]
  BY <1>5 DEF Put
<1>7. /\ DOMAIN issuer' = DOMAIN issuer \cup {id} /\ issuer'[id] = process
      /\ \A x \in DOMAIN issuer : x # id => issuer'[x] = issuer[x]
  BY <1>5 DEF Put
<1>8. nextID \in Nat /\ process \in Nat /\ id \in Nat /\ id \notin 1 .. nextID
  BY <1>1 DEF DictionaryInv, Indexed, CountersOK
<1>9. id \notin DOMAIN upserts /\ (id \in DOMAIN issuer => issuer[id] # process)
  BY <1>8 DEF DictionaryInv, Issued
\* No row of this process bears the id yet.
<1>10. \A r \in rows \cup logs : r.process = process => r.id # id
  <2>1. \A r \in rows \cup logs :
          r.id \in DOMAIN issuer /\ r.process <= issuer[r.id] /\ issuer[r.id] \in 0 .. process
    BY DEF DictionaryInv, Issued
  <2> QED
    BY <1>8, <1>9, <2>1
<1>11. Issued'
  <2>1. \A r \in rows \cup logs : r.process <= process /\ r.process \in Nat
    BY <1>8 DEF DictionaryInv, Issued
  <2>2. \A r \in rows' \cup logs : r.line \in Line /\ r.id \in DOMAIN issuer' /\ r.process <= issuer'[r.id]
    <3> SUFFICES ASSUME NEW r \in rows' \cup logs
                 PROVE  r.line \in Line /\ r.id \in DOMAIN issuer' /\ r.process <= issuer'[r.id]
      OBVIOUS
    <3>1. CASE r = row
      BY <1>4, <1>7, <1>8, <3>1
    <3>2. CASE r # row /\ r.id = id
      <4>1. r \in rows \cup logs
        BY <1>5, <3>2
      <4> QED
        BY <1>7, <2>1, <3>2, <4>1 DEF DictionaryInv, Issued
    <3>3. CASE r # row /\ r.id # id
      <4>1. r \in rows \cup logs
        BY <1>5, <3>3
      <4> QED
        BY <1>7, <3>3, <4>1 DEF DictionaryInv, Issued
    <3> QED
      BY <3>1, <3>2, <3>3
  <2>3. \A r \in rows' \cup logs : r.process \in Nat
    BY <1>4, <1>5, <1>8, <2>1
  <2>4. \A r \in rows' : r.process = process
    BY <1>4, <1>5 DEF DictionaryInv, Issued
  <2>5. \A x \in DOMAIN issuer' : issuer'[x] \in 0 .. process
    BY <1>7, <1>8 DEF DictionaryInv, Issued
  <2>6. \A x \in DOMAIN issuer' : issuer'[x] = process => x \in 1 .. nextID'
    <3>1. 1 .. nextID \subseteq 1 .. id /\ id \in 1 .. id
      BY <1>1, <1>8
    <3> QED
      BY <1>5, <1>7, <3>1 DEF DictionaryInv, Issued
  <2>7. \A x \in 1 .. nextID' : x \in DOMAIN issuer' /\ issuer'[x] = process
    <3>1. \A x \in 1 .. id : x = id \/ x \in 1 .. nextID
      BY <1>1, <1>8
    <3> QED
      BY <1>5, <1>7, <3>1 DEF DictionaryInv, Issued
  <2>8. DOMAIN upserts' \subseteq 1 .. nextID'
    <3>1. 1 .. nextID \subseteq 1 .. id /\ id \in 1 .. id
      BY <1>1, <1>8
    <3> QED
      BY <1>5, <1>6, <3>1 DEF DictionaryInv, Issued
  <2> QED
    BY <1>5, <2>2, <2>3, <2>4, <2>5, <2>6, <2>7, <2>8 DEF Issued
<1>12. TextsCover'
  <2> SUFFICES ASSUME NEW r \in rows' \cup logs, r.process = process
               PROVE  /\ r.id \in DOMAIN upserts' => Covers(upserts'[r.id], r.line)
                      /\ r.id \in DOMAIN clusters' => Covers(clusters'[r.id].text, r.line)
    BY <1>5 DEF TextsCover
  <2>1. CASE r = row
    BY <1>2, <1>4, <1>6, <2>1, LineCoversItself
  <2>2. CASE r # row
    <3>1. r \in rows \cup logs /\ r.id # id
      BY <1>5, <1>10, <2>2
    <3>2. r.id \in DOMAIN upserts' => Covers(upserts'[r.id], r.line)
      BY <1>6, <3>1 DEF DictionaryInv, TextsCover
    <3>3. r.id \in DOMAIN clusters' => Covers(clusters'[r.id].text, r.line)
      BY <1>2, <3>1 DEF DictionaryInv, TextsCover
    <3> QED
      BY <3>2, <3>3
  <2> QED
    BY <2>1, <2>2
<1>13. Reported'
  <2> SUFFICES ASSUME NEW x \in DOMAIN clusters'
               PROVE  /\ x \in DOMAIN upserts' => upserts'[x] = clusters'[x].text
                      /\ x \notin DOMAIN upserts' =>
                           \/ x \in unsaved
                           \/ x \in DOMAIN log_templates /\ log_templates[x] = clusters'[x].text
    BY <1>5 DEF Reported
  <2>1. CASE x = id
    BY <1>2, <1>6, <2>1
  <2>2. CASE x # id
    BY <1>2, <1>6, <2>2 DEF DictionaryInv, Reported
  <2> QED
    BY <2>1, <2>2
<1>14. RowsCovered'
  BY <1>4, <1>5, <1>6 DEF DictionaryInv, RowsCovered
<1>15. DictionaryCoversLogs'
  <2> SUFFICES ASSUME NEW r \in logs, issuer'[r.id] = r.process, r.id \notin unsaved
               PROVE  r.id \in DOMAIN log_templates /\ Covers(log_templates[r.id], r.line)
    BY <1>5 DEF DictionaryCoversLogs
  <2>1. r.id # id
    BY <1>7, <1>10
  <2>2. issuer[r.id] = r.process
    BY <1>7, <2>1 DEF DictionaryInv, Issued
  <2> QED
    BY <2>2 DEF DictionaryInv, DictionaryCoversLogs
<1> QED
  BY <1>11, <1>12, <1>13, <1>14, <1>15

LEMMA FlushExplained ==
  ASSUME DictionaryInv, FlushOk \/ FlushError
  PROVE  (Issued /\ TextsCover /\ Reported /\ RowsCovered /\ DictionaryCoversLogs)'
<1>1. /\ rows' = {} /\ upserts' = <<>> /\ DOMAIN upserts' = {}
      /\ UNCHANGED <<clusters, nextID, process, issuer>>
      /\ logs \subseteq logs' /\ logs' \subseteq logs \cup rows
  BY DEF FlushOk, FlushError, treeVars
<1>2. rows' \cup logs' \subseteq rows \cup logs
  BY <1>1
<1>3. Issued'
  BY <1>1, <1>2 DEF DictionaryInv, Issued
<1>4. TextsCover'
  BY <1>1, <1>2 DEF DictionaryInv, TextsCover
<1>5. RowsCovered'
  BY <1>1 DEF RowsCovered
<1>6. \A r \in rows \cup logs : r.id \in DOMAIN upserts /\ issuer[r.id] = r.process => r.process = process
  BY DEF DictionaryInv, Issued
<1>7. CASE FlushOk
  <2>1. /\ DOMAIN log_templates' = DOMAIN upserts \cup DOMAIN log_templates
        /\ \A x \in DOMAIN upserts : log_templates'[x] = upserts[x]
        /\ \A x \in DOMAIN log_templates : x \notin DOMAIN upserts => log_templates'[x] = log_templates[x]
        /\ unsaved' = unsaved \ DOMAIN upserts
    BY <1>7 DEF FlushOk
  <2>2. Reported'
    BY <1>1, <2>1 DEF DictionaryInv, Reported
  <2>3. ASSUME NEW r \in logs', issuer'[r.id] = r.process, r.id \notin unsaved'
        PROVE  r.id \in DOMAIN log_templates' /\ Covers(log_templates'[r.id], r.line)
    <3>1. CASE r.id \in DOMAIN upserts
      <4>1. r.process = process
        BY <1>1, <1>6, <2>3, <3>1
      <4> QED
        BY <1>1, <2>1, <3>1, <4>1 DEF DictionaryInv, TextsCover
    <3>2. CASE r.id \notin DOMAIN upserts
      <4>1. r.id \in DOMAIN log_templates /\ Covers(log_templates[r.id], r.line)
        BY <1>1, <2>1, <2>3, <3>2 DEF DictionaryInv, RowsCovered, DictionaryCoversLogs
      <4> QED
        BY <2>1, <3>2, <4>1
    <3> QED
      BY <3>1, <3>2
  <2>4. DictionaryCoversLogs'
    BY <2>3 DEF DictionaryCoversLogs
  <2> QED
    BY <1>3, <1>4, <1>5, <2>2, <2>4
<1>8. CASE FlushError
  <2>1. unsaved' = unsaved \cup DOMAIN upserts /\ log_templates' = log_templates
    BY <1>8 DEF FlushError
  <2>2. Reported'
    BY <1>1, <2>1 DEF DictionaryInv, Reported
  <2>3. DictionaryCoversLogs'
    BY <1>1, <2>1 DEF DictionaryInv, RowsCovered, DictionaryCoversLogs
  <2> QED
    BY <1>3, <1>4, <1>5, <2>2, <2>3
<1> QED
  BY <1>7, <1>8

LEMMA RestartExplained ==
  ASSUME DictionaryInv, Restart
  PROVE  (Issued /\ TextsCover /\ Reported /\ RowsCovered /\ DictionaryCoversLogs)'
<1>1. /\ rows' = {} /\ DOMAIN upserts' = {} /\ DOMAIN clusters' = {}
      /\ nextID' = 0 /\ process' = process + 1
      /\ UNCHANGED <<logs, log_templates, unsaved, issuer>>
  BY DEF Restart, storeVars, historyVars
<1>2. process \in Nat
  BY DEF DictionaryInv, Indexed, CountersOK
<1>3. \A x \in DOMAIN issuer : issuer[x] \in 0 .. process
  BY DEF DictionaryInv, Issued
<1>4. \A r \in logs : r.id \in DOMAIN issuer /\ r.process <= issuer[r.id] /\ r.process \in Nat
  BY DEF DictionaryInv, Issued
<1>5. Issued'
  <2>1. \A x \in DOMAIN issuer' : issuer'[x] \in 0 .. process' /\ issuer'[x] # process'
    BY <1>1, <1>2, <1>3
  <2> QED
    BY <1>1, <2>1 DEF DictionaryInv, Issued
<1>6. TextsCover' /\ Reported' /\ RowsCovered'
  BY <1>1 DEF TextsCover, Reported, RowsCovered
<1>7. DictionaryCoversLogs'
  BY <1>1 DEF DictionaryInv, DictionaryCoversLogs
<1> QED
  BY <1>5, <1>6, <1>7

LEMMA ExplainedStays ==
  ASSUME DictionaryInv, [Next]_vars
  PROVE  DictionaryInv'
<1>1. Indexed'
  BY IndexedStays DEF DictionaryInv
<1>2. ASSUME UNCHANGED vars
      PROVE  (Issued /\ TextsCover /\ Reported /\ RowsCovered /\ DictionaryCoversLogs)'
  <2>1. UNCHANGED <<clusters, nextID, rows, upserts, logs, log_templates, process, unsaved, issuer>>
    BY <1>2 DEF vars, treeVars, flushVars, storeVars, historyVars
  <2> QED
    BY <2>1 DEF DictionaryInv, Issued, TextsCover, Reported, RowsCovered, DictionaryCoversLogs
<1>3. (Issued /\ TextsCover /\ Reported /\ RowsCovered /\ DictionaryCoversLogs)'
  BY <1>2, MatchExplained, NewExplained, FlushExplained, RestartExplained DEF Next
<1> QED
  BY <1>1, <1>3 DEF DictionaryInv

\* The dictionary explains the stored logs (handleLogs and TemplateStore): a row's
\* template covers the row's line, through widenings, evictions, failed flushes
\* and restarts, but for a text that went down with a flush and an id that a
\* later process handed out again.
THEOREM DictionaryExplainsLogs == Spec => []DictionaryCoversLogs
<1>1. Init => DictionaryInv
  <2> SUFFICES ASSUME Init PROVE DictionaryInv
    OBVIOUS
  <2>1. Indexed
    BY EmptyTree DEF Init, Indexed, CountersOK, Tree
  <2>2. /\ DOMAIN clusters = {} /\ DOMAIN upserts = {} /\ DOMAIN issuer = {}
        /\ rows = {} /\ logs = {} /\ nextID = 0
    BY DEF Init
  <2> QED
    BY <2>1, <2>2 DEF DictionaryInv, Issued, TextsCover, Reported, RowsCovered, DictionaryCoversLogs
<1>2. DictionaryInv /\ [Next]_vars => DictionaryInv'
  BY ExplainedStays
<1>3. DictionaryInv => DictionaryCoversLogs
  BY DEF DictionaryInv
<1> QED
  BY <1>1, <1>2, <1>3, PTL DEF Spec

-----------------------------------------------------------------------------
(* The leaf of a line.                                                     *)

\* Key, Path over a given set of nodes.
ChildrenIn(N, n) == {m \in N : m[1] = n[1] /\ m[2] # <<>> /\ Front(m[2]) = n[2]}
KeyIn(N, n, token) ==
  IF \/ token \in Numeric
     \/ Cardinality(ChildrenIn(N, n)) >= MaxChildren /\ Below(n, token) \notin N
  THEN Wildcard ELSE token
KeysFn(N, line, K) ==
  [i \in 0 .. Levels(line) |->
     IF i = 0 THEN <<>> ELSE Append(K[i - 1], KeyIn(N, <<Len(line), K[i - 1]>>, line[i]))]
KeysIn(N, line) == CHOOSE K : K = KeysFn(N, line, K)
PathIn(N, line) == <<Len(line), KeysIn(N, line)[Levels(line)]>>

LEMMA PathNow ==
  ASSUME NEW line
  PROVE  Path(line) = PathIn(nodes, line)
BY DEF Path, PathIn, KeysIn, KeysFn, KeyIn, Key, ChildrenIn, ChildrenOf

LEMMA PathNext ==
  ASSUME NEW line
  PROVE  Path(line)' = PathIn(nodes', line)
BY DEF Path, PathIn, KeysIn, KeysFn, KeyIn, Key, ChildrenIn, ChildrenOf

\* A property that holds at 0 and climbs holds as far as it climbs.
LEMMA Climb ==
  ASSUME NEW n \in Nat, NEW S, 0 \in S, \A i \in 0 .. n - 1 : i \in S => i + 1 \in S
  PROVE  \A i \in 0 .. n : i \in S
<1> DEFINE Missed == {i \in 0 .. n : i \notin S}
<1> SUFFICES ASSUME Missed # {} PROVE FALSE
  OBVIOUS
<1>1. PICK k \in Missed : \A y \in Missed : k <= y
  <2>1. Missed \in SUBSET Nat
    OBVIOUS
  <2> HIDE DEF Missed
  <2> QED
    BY <2>1, HasSmallest
<1>2. k \in 1 .. n
  BY <1>1
<1>3. k - 1 \in 0 .. n - 1 /\ k - 1 \notin Missed /\ (k - 1) + 1 = k
  BY <1>1, <1>2
<1>4. k - 1 \in S
  BY <1>3
<1> QED
  BY <1>1, <1>3, <1>4

LEMMA LevelsOfLine ==
  ASSUME NEW line \in Seq(Token)
  PROVE  Levels(line) \in Nat /\ Levels(line) <= Len(line)
<1>1. PICK n \in Nat : n = Len(line)
  OBVIOUS
<1>2. LeadingLevels \in Nat
  BY TemplatesAssumption
<1>3. Levels(line) \in {LeadingLevels, n} /\ \A y \in {LeadingLevels, n} : Levels(line) <= y
  <2>1. \E x \in {LeadingLevels, n} : \A y \in {LeadingLevels, n} : x <= y
    BY <1>2, HasSmallest
  <2> QED
    BY <1>1, <2>1 DEF Levels, Min
<1> QED
  BY <1>1, <1>2, <1>3

\* The keys up to level k; the recursion of Path has a solution, level by level.
KeysUpTo(N, line, K, k) ==
  K = [i \in 0 .. k |->
         IF i = 0 THEN <<>> ELSE Append(K[i - 1], KeyIn(N, <<Len(line), K[i - 1]>>, line[i]))]

Follows(N, line, K, n) ==
  /\ K[0] = <<>>
  /\ \A i \in 1 .. n : K[i] = Append(K[i - 1], KeyIn(N, <<Len(line), K[i - 1]>>, line[i]))

LEMMA KeysUnfold ==
  ASSUME NEW N, NEW line, NEW n \in Nat, NEW K, KeysUpTo(N, line, K, n)
  PROVE  Follows(N, line, K, n)
<1>1. PICK F : F = [i \in 0 .. n |->
                      IF i = 0 THEN <<>>
                      ELSE Append(K[i - 1], KeyIn(N, <<Len(line), K[i - 1]>>, line[i]))]
  OBVIOUS
<1>2. K = F
  BY <1>1, Zenon DEF KeysUpTo
<1>3. F[0] = <<>>
  BY <1>1
<1>4. \A i \in 1 .. n :
        F[i] = Append(K[i - 1], KeyIn(N, <<Len(line), K[i - 1]>>, line[i]))
  BY <1>1
<1> QED
  BY <1>2, <1>3, <1>4, Zenon DEF Follows

LEMMA KeysExist ==
  ASSUME NEW N, NEW line, NEW n \in Nat
  PROVE  \E K : KeysUpTo(N, line, K, n)
<1> DEFINE S == {k \in Nat : \E K : KeysUpTo(N, line, K, k)}
<1>1. 0 \in S
  <2> DEFINE K == [i \in 0 .. 0 |-> <<>>]
  <2>1. KeysUpTo(N, line, K, 0)
    BY DEF KeysUpTo
  <2> QED
    BY <2>1
<1>2. ASSUME NEW k \in 0 .. n - 1, k \in S PROVE k + 1 \in S
  <2>1. PICK K : KeysUpTo(N, line, K, k)
    BY <1>2
  <2>2. PICK next : next = Append(K[k], KeyIn(N, <<Len(line), K[k]>>, line[k + 1]))
    OBVIOUS
  <2> DEFINE new == [i \in 0 .. k + 1 |-> IF i = k + 1 THEN next ELSE K[i]]
             step(F) == [i \in 0 .. k + 1 |->
                           IF i = 0 THEN <<>>
                           ELSE Append(F[i - 1], KeyIn(N, <<Len(line), F[i - 1]>>, line[i]))]
  <2>3. ASSUME NEW i \in 0 .. k + 1 PROVE new[i] = step(new)[i]
    <3>1. CASE i = 0
      <4>1. K[0] = <<>>
        <5>1. Follows(N, line, K, k)
          BY <2>1, KeysUnfold
        <5> QED
          BY <5>1, Zenon DEF Follows
      <4> QED
        BY <3>1, <4>1
    <3>2. CASE i = k + 1
      <4>1. new[i - 1] = K[k] /\ new[i] = next
        BY <3>2
      <4> HIDE DEF new
      <4>2. step(new)[i] = Append(K[k], KeyIn(N, <<Len(line), K[k]>>, line[k + 1]))
        BY <3>2, <4>1
      <4> QED
        BY <2>2, <4>1, <4>2
    <3>3. CASE i \in 1 .. k
      <4>1. new[i - 1] = K[i - 1] /\ new[i] = K[i]
        BY <3>3
      <4> HIDE DEF new
      <4>2. step(new)[i] = Append(K[i - 1], KeyIn(N, <<Len(line), K[i - 1]>>, line[i]))
        BY <3>3, <4>1
      <4>3. K[i] = Append(K[i - 1], KeyIn(N, <<Len(line), K[i - 1]>>, line[i]))
        <5>1. Follows(N, line, K, k)
          BY <2>1, KeysUnfold
        <5> QED
          BY <3>3, <5>1, Zenon DEF Follows
      <4> QED
        BY <4>1, <4>2, <4>3
    <3> QED
      BY <3>1, <3>2, <3>3
  <2>4. new = step(new)
    <3>1. new = [i \in 0 .. k + 1 |-> new[i]]
      OBVIOUS
    <3>2. step(new) = [i \in 0 .. k + 1 |-> step(new)[i]]
      OBVIOUS
    <3> HIDE DEF new, step
    <3> QED
      BY <2>3, <3>1, <3>2
  <2>5. KeysUpTo(N, line, new, k + 1)
    BY <2>4 DEF KeysUpTo
  <2> QED
    BY <2>5
<1>3. \A i \in 0 .. n : i \in S
  BY <1>1, <1>2, Climb
<1> QED
  BY <1>3

\* What the keys of a line are.
LEMMA KeysOfLine ==
  ASSUME NEW N, NEW line \in Seq(Token), NEW K, K = KeysIn(N, line),
         NEW n \in Nat, n = Levels(line)
  PROVE  Follows(N, line, K, n)
<1>1. PICK F : KeysUpTo(N, line, F, n)
  BY KeysExist
<1>2. F = KeysFn(N, line, F)
  BY <1>1, Zenon DEF KeysUpTo, KeysFn
<1>3. K = KeysFn(N, line, K)
  BY <1>2, Zenon DEF KeysIn
<1>4. KeysUpTo(N, line, K, n)
  BY <1>3, Zenon DEF KeysUpTo, KeysFn
<1> QED
  BY <1>4, KeysUnfold

\* Keys that follow the recursion are the keys of the line.
LEMMA KeysAreUnique ==
  ASSUME NEW N, NEW line \in Seq(Token), NEW n \in Nat, n = Levels(line), NEW K,
         Follows(N, line, K, n)
  PROVE  KeysIn(N, line)[n] = K[n]
<1>1. PICK F : F = KeysIn(N, line)
  OBVIOUS
<1>2. Follows(N, line, F, n)
  BY <1>1, KeysOfLine
<1> DEFINE S == {i \in Nat : F[i] = K[i]}
<1>3. 0 \in S
  BY <1>2 DEF Follows
<1>4. ASSUME NEW i \in 0 .. n - 1, i \in S PROVE i + 1 \in S
  <2>1. PICK j \in 1 .. n : j = i + 1 /\ j - 1 = i
    OBVIOUS
  <2>2. F[j] = Append(F[i], KeyIn(N, <<Len(line), F[i]>>, line[j]))
    <3>1. F[j] = Append(F[j - 1], KeyIn(N, <<Len(line), F[j - 1]>>, line[j]))
      BY <1>2, Zenon DEF Follows
    <3> QED
      BY <2>1, <3>1, Zenon
  <2>3. K[j] = Append(K[i], KeyIn(N, <<Len(line), K[i]>>, line[j]))
    <3>1. K[j] = Append(K[j - 1], KeyIn(N, <<Len(line), K[j - 1]>>, line[j]))
      BY Zenon DEF Follows
    <3> QED
      BY <2>1, <3>1, Zenon
  <2>4. F[i] = K[i]
    BY <1>4
  <2>5. F[j] = K[j]
    BY <2>2, <2>3, <2>4, Zenon
  <2> QED
    BY <2>1, <2>5
<1>5. \A i \in 0 .. n : i \in S
  BY <1>3, <1>4, Climb
<1> QED
  BY <1>1, <1>5

LEMMA KeyIsToken ==
  ASSUME NEW N, NEW line \in Seq(Token), NEW n, NEW i \in 1 .. Len(line)
  PROVE  KeyIn(N, n, line[i]) \in Token \cup {Wildcard}
BY DEF KeyIn

LEMMA OneKeyMore ==
  ASSUME NEW S, NEW s \in Seq(S), NEW e \in S
  PROVE  /\ Append(s, e) \in Seq(S) /\ Len(Append(s, e)) = Len(s) + 1
         /\ Append(s, e) # <<>> /\ Front(Append(s, e)) = s
         /\ SubSeq(Append(s, e), 1, Len(s) + 1) = Append(s, e)
         /\ \A j \in 0 .. Len(s) : SubSeq(Append(s, e), 1, j) = SubSeq(s, 1, j)
<1>1. PICK t : t = Append(s, e)
  OBVIOUS
<1>2. t \in Seq(S) /\ Len(t) = Len(s) + 1 /\ \A i \in 1 .. Len(s) : t[i] = s[i]
  BY <1>1
<1>3. t # <<>>
  BY <1>2
<1>4. SubSeq(t, 1, Len(s) + 1) = t
  BY <1>2
<1>5. ASSUME NEW j \in 0 .. Len(s) PROVE SubSeq(t, 1, j) = SubSeq(s, 1, j)
  BY <1>2
<1>6. SubSeq(s, 1, Len(s)) = s
  OBVIOUS
<1>7. Front(t) = s
  BY <1>2, <1>5, <1>6 DEF Front
<1> QED
  BY <1>1, <1>2, <1>3, <1>4, <1>5, <1>7

\* The keys of a level are the first ones of every level below.
Nested(K, k) ==
  /\ K[k] \in Seq(Token \cup {Wildcard}) /\ Len(K[k]) = k
  /\ \A j \in 0 .. k : SubSeq(K[k], 1, j) = K[j]

LEMMA KeysShape ==
  ASSUME NEW N, NEW line \in Seq(Token), NEW n \in 0 .. Len(line), NEW K,
         Follows(N, line, K, n), NEW k \in 0 .. n
  PROVE  Nested(K, k)
<1> DEFINE T == Token \cup {Wildcard}
           S == {i \in Nat : /\ K[i] \in Seq(T) /\ Len(K[i]) = i
                             /\ \A j \in 0 .. i : SubSeq(K[i], 1, j) = K[j]}
<1>1. 0 \in S
  <2>1. K[0] = <<>>
    BY DEF Follows
  <2>2. Len(<<>>) = 0 /\ <<>> \in Seq(T) /\ SubSeq(<<>>, 1, 0) = <<>>
    OBVIOUS
  <2>3. K[0] \in Seq(T) /\ Len(K[0]) = 0 /\ SubSeq(K[0], 1, 0) = K[0]
    BY <2>1, <2>2, Zenon
  <2>4. \A j \in 0 .. 0 : SubSeq(K[0], 1, j) = K[j]
    BY <2>3
  <2> QED
    BY <2>3, <2>4
<1>2. ASSUME NEW i \in 0 .. n - 1, i \in S PROVE i + 1 \in S
  <2>1. PICK m \in 1 .. n : m = i + 1 /\ m - 1 = i
    OBVIOUS
  <2>2. PICK key : key = KeyIn(N, <<Len(line), K[i]>>, line[m])
    OBVIOUS
  <2>3. m \in 1 .. Len(line)
    OBVIOUS
  <2>4. key \in T
    BY <2>2, <2>3, KeyIsToken
  <2>5. K[m] = Append(K[i], key)
    <3>1. K[m] = Append(K[m - 1], KeyIn(N, <<Len(line), K[m - 1]>>, line[m]))
      BY Zenon DEF Follows
    <3> QED
      BY <2>1, <2>2, <3>1, Zenon
  <2>6. PICK s : s = K[i]
    OBVIOUS
  <2>7. s \in Seq(T) /\ Len(s) = i /\ \A j \in 0 .. i : SubSeq(s, 1, j) = K[j]
    BY <1>2, <2>6
  <2> HIDE DEF T
  <2>8. PICK t : t = K[m]
    OBVIOUS
  <2>9. /\ t \in Seq(T) /\ Len(t) = m /\ SubSeq(t, 1, m) = t
        /\ \A j \in 0 .. i : SubSeq(t, 1, j) = SubSeq(s, 1, j)
    BY <2>1, <2>4, <2>5, <2>6, <2>7, <2>8, OneKeyMore
  <2>10. ASSUME NEW j \in 0 .. m PROVE SubSeq(t, 1, j) = K[j]
    <3>1. CASE j = m
      BY <2>8, <2>9, <3>1
    <3>2. CASE j \in 0 .. i
      BY <2>7, <2>9, <3>2
    <3> QED
      BY <2>1, <3>1, <3>2
  <2> QED
    BY <2>1, <2>8, <2>9, <2>10
<1>3. n \in Nat
  OBVIOUS
<1>4. k \in S
  <2> HIDE DEF S
  <2> QED
    BY <1>1, <1>2, <1>3, Climb
<1> QED
  BY <1>4 DEF Nested

Trail(L, K, n) == {<<L, K[j]>> : j \in 0 .. n}

LEMMA NodesOfKeys ==
  ASSUME NEW N, NEW line \in Seq(Token), NEW n \in 0 .. Len(line), NEW K,
         Follows(N, line, K, n)
  PROVE  \A L : NodesTo(<<L, K[n]>>) = Trail(L, K, n)
<1>1. PICK i \in 0 .. n : i = n
  OBVIOUS
<1>2. PICK s : s = K[i]
  OBVIOUS
<1>3. Len(s) = i /\ \A j \in 0 .. i : SubSeq(s, 1, j) = K[j]
  <2>1. Nested(K, i)
    BY KeysShape
  <2> QED
    BY <1>2, <2>1, Zenon DEF Nested
<1>4. Prefixes(s) = {K[j] : j \in 0 .. i}
  BY <1>3 DEF Prefixes
<1>5. \A L : NodesTo(<<L, s>>) = {<<L, keys>> : keys \in Prefixes(s)}
  BY DEF NodesTo
<1> QED
  BY <1>1, <1>2, <1>4, <1>5 DEF Trail

\* The nodes a new cluster's line passes through.
LEMMA NodesPassed ==
  ASSUME NEW N, NEW line \in Seq(Token), NEW n \in Nat, n = Levels(line),
         NEW K, K = KeysIn(N, line)
  PROVE  /\ Follows(N, line, K, n) /\ n \in 0 .. Len(line)
         /\ PathIn(N, line) = <<Len(line), K[n]>>
         /\ NodesTo(PathIn(N, line)) = {<<Len(line), K[j]>> : j \in 0 .. n}
         /\ IsFiniteSet(NodesTo(PathIn(N, line)))
<1>1. Follows(N, line, K, n) /\ n \in 0 .. Len(line)
  BY KeysOfLine, LevelsOfLine
<1>2. PathIn(N, line) = <<Len(line), K[n]>>
  BY DEF PathIn
<1>5. NodesTo(PathIn(N, line)) = {<<Len(line), K[j]>> : j \in 0 .. n}
  <2>1. NodesTo(<<Len(line), K[n]>>) = Trail(Len(line), K, n)
    BY <1>1, NodesOfKeys
  <2> QED
    BY <1>2, <2>1 DEF Trail
<1>6. IsFiniteSet({<<Len(line), K[j]>> : j \in 0 .. n})
  <2> DEFINE T == {<<Len(line), K[j]>> : j \in 0 .. n}
             f == [j \in 0 .. n |-> <<Len(line), K[j]>>]
  <2>1. f \in Surjection(0 .. n, T)
    BY DEF Surjection
  <2>2. IsFiniteSet(0 .. n)
    BY FS_Interval
  <2> QED
    BY <2>1, <2>2, FS_Surjection
<1> QED
  BY <1>1, <1>2, <1>5, <1>6

-----------------------------------------------------------------------------
(* A line keeps its leaf.                                                  *)

\* A key that leads to a node goes on leading there when another line adds its
\* nodes: a full node gains no child but the wildcard one.
LEMMA KeyStays ==
  ASSUME NEW N, NEW M, N \subseteq M, IsFiniteSet(M),
         NEW n, NEW t, n = <<n[1], n[2]>>, Below(n, KeyIn(N, n, t)) \in N,
         \A u : Below(n, u) \in M => Below(n, u) \in N \/ \E v : u = KeyIn(N, n, v)
  PROVE  KeyIn(M, n, t) = KeyIn(N, n, t)
<1>1. CASE t \in Numeric
  BY <1>1 DEF KeyIn
<1>2. CASE t \notin Numeric /\ Below(n, t) \in N
  BY <1>2 DEF KeyIn
<1>3. CASE t \notin Numeric /\ Below(n, t) \notin N
  <2>1. Cardinality(ChildrenIn(N, n)) >= MaxChildren /\ KeyIn(N, n, t) = Wildcard
    BY <1>3 DEF KeyIn
  <2>2. Cardinality(ChildrenIn(M, n)) >= MaxChildren
    <3>1. ChildrenIn(N, n) \subseteq ChildrenIn(M, n) /\ ChildrenIn(M, n) \subseteq M
      BY DEF ChildrenIn
    <3>2. IsFiniteSet(ChildrenIn(M, n))
      BY <3>1, FS_Subset
    <3>3. /\ IsFiniteSet(ChildrenIn(N, n))
          /\ Cardinality(ChildrenIn(N, n)) <= Cardinality(ChildrenIn(M, n))
      BY <3>1, <3>2, FS_Subset
    <3>4. PICK c \in Nat, d \in Nat :
            c = Cardinality(ChildrenIn(N, n)) /\ d = Cardinality(ChildrenIn(M, n))
      BY <3>2, <3>3, FS_CardinalityType
    <3>5. MaxChildren \in Nat
      BY TemplatesAssumption
    <3> QED
      BY <2>1, <3>3, <3>4, <3>5
  <2>3. Below(n, t) \in M => t = Wildcard
    <3> SUFFICES ASSUME Below(n, t) \in M PROVE t = Wildcard
      OBVIOUS
    <3>1. PICK v : t = KeyIn(N, n, v)
      BY <1>3
    <3>2. CASE t = Wildcard
      BY <3>2
    <3>3. CASE t # Wildcard
      <4>1. t = v /\ ~(Cardinality(ChildrenIn(N, n)) >= MaxChildren /\ Below(n, v) \notin N)
        BY <3>1, <3>3 DEF KeyIn
      <4> QED
        BY <1>3, <2>1, <4>1
    <3> QED
      BY <3>2, <3>3
  <2>4. KeyIn(M, n, t) = Wildcard
    BY <2>2, <2>3 DEF KeyIn
  <2> QED
    BY <2>1, <2>4
<1> QED
  BY <1>1, <1>2, <1>3

\* Another line's nodes: below a node that it passes, it adds the key it takes.
LEMMA NewBelow ==
  ASSUME NEW N, NEW other \in Seq(Token), NEW L, NEW s \in Seq(Token \cup {Wildcard}),
         NEW u,
         Below(<<L, s>>, u) \in NodesTo(PathIn(N, other))
  PROVE  \E v : u = KeyIn(N, <<L, s>>, v)
<1> DEFINE T == Token \cup {Wildcard} \cup {u}
<1>0. s \in Seq(T)
  OBVIOUS
<1>1. PICK m, K : m \in Nat /\ m = Levels(other) /\ K = KeysIn(N, other)
  BY LevelsOfLine
<1>2. /\ Follows(N, other, K, m) /\ m \in 0 .. Len(other)
      /\ NodesTo(PathIn(N, other)) = {<<Len(other), K[j]>> : j \in 0 .. m}
  BY <1>1, NodesPassed
<1>3. PICK j \in 0 .. m : L = Len(other) /\ Append(s, u) = K[j]
  BY <1>2 DEF Below
<1>4. /\ Append(s, u) # <<>> /\ Front(Append(s, u)) = s
  BY <1>0, OneKeyMore
<1>5. K[0] = <<>>
  BY <1>2, Zenon DEF Follows
<1>6. j \in 1 .. m /\ j - 1 \in 0 .. m
  BY <1>1, <1>3, <1>4, <1>5
<1>7. PICK key \in T : key = KeyIn(N, <<Len(other), K[j - 1]>>, other[j])
  <2>1. j \in 1 .. Len(other)
    BY <1>2, <1>6
  <2> QED
    BY <2>1, KeyIsToken
<1>8. K[j] = Append(K[j - 1], key)
  BY <1>2, <1>6, <1>7, Zenon DEF Follows
<1>9. PICK r \in Seq(T) : r = K[j - 1]
  <2>1. K[j - 1] \in Seq(Token \cup {Wildcard})
    BY <1>2, <1>6, KeysShape DEF Nested
  <2> QED
    BY <2>1
<1>10. s = r /\ u = key
  <2>1. Append(s, u) = Append(r, key)
    BY <1>3, <1>8, <1>9
  <2>2. PICK w : w = Append(s, u)
    OBVIOUS
  <2>3. /\ Len(w) = Len(s) + 1 /\ w[Len(s) + 1] = u
    BY <2>2
  <2>4. /\ Len(w) = Len(r) + 1 /\ w[Len(r) + 1] = key
    BY <2>1, <2>2
  <2>5. Front(w) = s
    BY <1>0, <2>2, OneKeyMore
  <2>6. Front(w) = r
    <3>1. r \in Seq(T) /\ key \in T
      BY <1>7, <1>9
    <3> HIDE DEF T
    <3>2. Front(Append(r, key)) = r
      BY <3>1, OneKeyMore
    <3> QED
      BY <2>1, <2>2, <3>2
  <2> QED
    BY <2>3, <2>4, <2>5, <2>6
<1> QED
  BY <1>3, <1>7, <1>9, <1>10

\* A line whose nodes are all in the tree keeps its path when another line's
\* nodes are added.
LEMMA PathStays ==
  ASSUME NEW N, NEW M, IsFiniteSet(M), NEW other \in Seq(Token),
         M = N \cup NodesTo(PathIn(N, other)),
         NEW line \in Seq(Token), NodesTo(PathIn(N, line)) \subseteq N
  PROVE  PathIn(M, line) = PathIn(N, line)
<1> DEFINE T == Token \cup {Wildcard}
<1>1. PICK n, K : n \in Nat /\ n = Levels(line) /\ K = KeysIn(N, line)
  BY LevelsOfLine
<1>2. /\ Follows(N, line, K, n) /\ n \in 0 .. Len(line)
      /\ NodesTo(PathIn(N, line)) = {<<Len(line), K[j]>> : j \in 0 .. n}
  BY <1>1, NodesPassed
<1>3. ASSUME NEW i \in 1 .. n
      PROVE  K[i] = Append(K[i - 1], KeyIn(M, <<Len(line), K[i - 1]>>, line[i]))
  <2>1. PICK L, s, a, key : /\ L = Len(line) /\ s = K[i - 1] /\ a = <<L, s>>
                            /\ key = KeyIn(N, a, line[i])
    OBVIOUS
  <2>2. i - 1 \in 0 .. n /\ i \in 0 .. n /\ i \in 1 .. Len(line)
    BY <1>2
  <2>3. s \in Seq(T)
    BY <1>2, <2>1, <2>2, KeysShape DEF Nested
  <2>4. key \in T
    BY <2>1, <2>2, KeyIsToken
  <2>5. K[i] = Append(s, key)
    BY <1>2, <2>1, Zenon DEF Follows
  <2>6. a = <<a[1], a[2]>> /\ a[1] = L /\ a[2] = s
    BY <2>1
  <2>7. Below(a, key) \in N
    BY <1>2, <2>1, <2>2, <2>5, <2>6 DEF Below
  <2>8. ASSUME NEW u, Below(a, u) \in M PROVE Below(a, u) \in N \/ \E v : u = KeyIn(N, a, v)
    <3>1. CASE Below(a, u) \in NodesTo(PathIn(N, other))
      <4>1. s \in Seq(Token \cup {Wildcard}) /\ Below(<<L, s>>, u) \in NodesTo(PathIn(N, other))
        BY <2>1, <2>3, <3>1
      <4>2. \E v : u = KeyIn(N, <<L, s>>, v)
        BY <4>1, NewBelow
      <4> QED
        BY <2>1, <4>2
    <3> QED
      BY <2>8, <3>1
  <2>9. KeyIn(M, a, line[i]) = key
    <3>1. N \subseteq M
      OBVIOUS
    <3>2. a = <<a[1], a[2]>> /\ Below(a, KeyIn(N, a, line[i])) \in N
      BY <2>1, <2>6, <2>7
    <3>3. \A u : Below(a, u) \in M => Below(a, u) \in N \/ \E v : u = KeyIn(N, a, v)
      BY <2>8
    <3>4. KeyIn(M, a, line[i]) = KeyIn(N, a, line[i])
      BY <3>1, <3>2, <3>3, KeyStays
    <3> QED
      BY <2>1, <3>4
  <2> QED
    BY <2>1, <2>5, <2>9
<1>4. Follows(M, line, K, n)
  BY <1>2, <1>3, Zenon DEF Follows
<1>5. KeysIn(M, line)[n] = K[n]
  BY <1>1, <1>4, KeysAreUnique
<1> QED
  BY <1>1, <1>5 DEF PathIn

\* Every leaf's path is in the tree.
LeavesRooted ==
  /\ Indexed
  /\ IsFiniteSet(nodes)
  /\ \A p \in DOMAIN leaf : NodesTo(p) \subseteq nodes

LEMMA NewNodes ==
  ASSUME LeavesRooted, NEW line \in Line, ParseNew(line)
  PROVE  /\ nodes' = nodes \cup NodesTo(PathIn(nodes, line))
         /\ IsFiniteSet(nodes')
         /\ DOMAIN leaf' \subseteq DOMAIN leaf \cup {PathIn(nodes, line)}
<1>1. PICK path : path = Path(line) /\ path = PathIn(nodes, line)
  BY PathNow
<1>2. nodes' = nodes \cup NodesTo(path)
  BY <1>1 DEF ParseNew
<1>3. IsFiniteSet(nodes')
  <2>1. line \in Seq(Token)
    BY TemplatesAssumption
  <2>2. IsFiniteSet(NodesTo(path))
    BY <1>1, <2>1, LevelsOfLine, NodesPassed
  <2> QED
    BY <1>2, <2>2, FS_Union DEF LeavesRooted
<1>4. DOMAIN leaf' \subseteq DOMAIN leaf \cup {path}
  <2>1. PICK room : room = MakeRoom(path)
    OBVIOUS
  <2>2. PICK tree : tree = AddCluster(room, path, nextID + 1, [text |-> line, gen |-> nextGen + 1])
    OBVIOUS
  <2>3. leaf' = KeepBound(tree).leaf
    BY <1>1, <2>1, <2>2 DEF ParseNew
  <2>4. \A t, id : DOMAIN EvictCluster(t, id).leaf = DOMAIN t.leaf
    BY DEF EvictCluster
  <2>5. DOMAIN room.leaf = DOMAIN leaf
    BY <2>1, <2>4 DEF MakeRoom
  <2>6. DOMAIN tree.leaf = DOMAIN room.leaf \cup {path}
    BY <2>2 DEF AddCluster, Put
  <2>7. DOMAIN KeepBound(tree).leaf = DOMAIN tree.leaf
    BY <2>4 DEF KeepBound
  <2> QED
    BY <2>3, <2>5, <2>6, <2>7
<1> QED
  BY <1>1, <1>2, <1>3, <1>4

LEMMA RootedStays ==
  ASSUME LeavesRooted, [Next]_vars
  PROVE  LeavesRooted'
<1>0. Indexed'
  BY IndexedStays DEF LeavesRooted
<1>1. CASE \E line \in Line : ParseNew(line)
  <2>1. PICK line \in Line : ParseNew(line)
    BY <1>1
  <2>2. PICK path : path = PathIn(nodes, line)
    OBVIOUS
  <2>3. /\ nodes' = nodes \cup NodesTo(path) /\ IsFiniteSet(nodes')
        /\ DOMAIN leaf' \subseteq DOMAIN leaf \cup {path}
    BY <2>1, <2>2, NewNodes
  <2>4. \A p \in DOMAIN leaf' : NodesTo(p) \subseteq nodes'
    BY <2>3 DEF LeavesRooted
  <2> QED
    BY <1>0, <2>3, <2>4 DEF LeavesRooted, NodesTo
<1>2. CASE Restart
  <2>1. nodes' = {} /\ DOMAIN leaf' = {}
    BY <1>2 DEF Restart
  <2> QED
    BY <1>0, <2>1, FS_EmptySet, Zenon DEF LeavesRooted
<1>3. CASE (\E line \in Line : ParseMatch(line)) \/ FlushOk \/ FlushError \/ UNCHANGED vars
  <2>1. nodes' = nodes /\ leaf' = leaf
    BY <1>3 DEF ParseMatch, FlushOk, FlushError, vars, treeVars
  <2> QED
    BY <1>0, <2>1 DEF LeavesRooted, NodesTo
<1> QED
  BY <1>1, <1>2, <1>3 DEF Next

\* A line that has a leaf keeps it for the life of the process: nodes that later
\* lines add or fill, merges and evictions do not change the keys it is filed
\* under (Process and findOrCreate in internal/logs/drain.go).
THEOREM LinesKeepTheirLeaf == Spec => LeafIsStable
<1>1. Init => LeavesRooted
  <2>1. Init => Indexed
    BY EmptyTree DEF Init, Indexed, CountersOK, Tree
  <2>2. Init => nodes = {} /\ DOMAIN leaf = {}
    BY DEF Init
  <2> QED
    BY <2>1, <2>2, FS_EmptySet, Zenon DEF LeavesRooted
<1>2. LeavesRooted /\ [Next]_vars => LeavesRooted'
  BY RootedStays
<1>3. LeavesRooted /\ [Next]_vars =>
        [\A line \in Line :
           Path(line) \in DOMAIN leaf /\ process' = process => Path(line)' = Path(line)]_vars
  <2> SUFFICES ASSUME LeavesRooted, Next, NEW line \in Line,
                      Path(line) \in DOMAIN leaf, process' = process
               PROVE  Path(line)' = Path(line)
    OBVIOUS
  <2>1. Path(line) = PathIn(nodes, line) /\ Path(line)' = PathIn(nodes', line)
    BY PathNow, PathNext
  <2>2. CASE \E other \in Line : ParseNew(other)
    <3>1. PICK other \in Line : ParseNew(other)
      BY <2>2
    <3>2. PICK N, M : N = nodes /\ M = nodes'
      OBVIOUS
    <3>3. M = N \cup NodesTo(PathIn(N, other)) /\ IsFiniteSet(M)
      BY <3>1, <3>2, NewNodes
    <3>4. NodesTo(PathIn(N, line)) \subseteq N
      BY <2>1, <3>2 DEF LeavesRooted
    <3>5. line \in Seq(Token) /\ other \in Seq(Token)
      BY TemplatesAssumption
    <3>6. PathIn(M, line) = PathIn(N, line)
      BY <3>3, <3>4, <3>5, PathStays
    <3> QED
      BY <2>1, <3>2, <3>6
  <2>3. CASE (\E other \in Line : ParseMatch(other)) \/ FlushOk \/ FlushError
    <3>1. nodes' = nodes
      BY <2>3 DEF ParseMatch, FlushOk, FlushError, treeVars
    <3> QED
      BY <2>1, <3>1
  <2>4. ~Restart
    BY DEF Restart, LeavesRooted, Indexed, CountersOK
  <2> QED
    BY <2>2, <2>3, <2>4 DEF Next
<1> QED
  BY <1>1, <1>2, <1>3, PTL DEF Spec, LeafIsStable
=============================================================================
