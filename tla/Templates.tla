----------------------------- MODULE Templates -----------------------------
(***************************************************************************)
(* Log templates (internal/logs) as the assembler's log handler uses them: *)
(* the Drain parse tree with its two evictions, the upserts it reports,    *)
(* and the flushes that carry log rows and upserts to ClickHouse.  The     *)
(* tree lives in memory; the tables outlive a restart.                     *)
(*                                                                         *)
(* A line is its sequence of tokens.  The consumer goroutine is the only   *)
(* one that parses, one line after the other.                              *)
(***************************************************************************)
EXTENDS Integers, FiniteSetsExt, SequencesExt

CONSTANTS
  Token,
  Line,                \* tokenised log bodies
  Numeric,             \* tokens with a digit in them
  Wildcard,            \* "<*>"
  LeadingLevels,       \* Depth - 2
  Similar, OutOf,      \* SimilarityThreshold is Similar / OutOf
  MaxChildren, MaxTemplates, MaxClustersPerLeaf,
  MaxBatch,            \* bound on the lines of a flush
  MaxLines,            \* bound on the lines parsed
  MaxFailures,         \* bound on failing flushes
  MaxRestarts          \* bound on restarts

ASSUME TemplatesAssumption ==
  /\ Line \subseteq Seq(Token) \ {<<>>}
  /\ {LeadingLevels, MaxClustersPerLeaf, MaxBatch, MaxLines, MaxFailures, MaxRestarts} \subseteq Nat
  /\ {OutOf, MaxChildren, MaxTemplates} \subseteq Nat \ {0}
  /\ Similar \in 1 .. OutOf

VARIABLES
  nodes,     \* the tree's nodes: the length of their lines and the keys below it
  leaf,      \* cluster ids at each leaf, in order of creation
  clusters,  \* every cluster by id: its template and generation
  nextID,    \* last id handed out
  nextGen,   \* matches so far
  rows, upserts,          \* the flush in preparation: log rows, template rows
  logs, log_templates,    \* ClickHouse: log rows; text by template id
  parsed, failures, process,
  unsaved,   \* history: ids whose latest text went down with a failed flush
  issuer     \* history: the process that last handed an id out

treeVars == <<nodes, leaf, clusters, nextID, nextGen>>
flushVars == <<rows, upserts>>
storeVars == <<logs, log_templates>>
historyVars == <<unsaved, issuer>>
vars == <<treeVars, flushVars, storeVars, parsed, failures, process, historyVars>>

Init ==
  /\ nodes = {} /\ leaf = <<>> /\ clusters = <<>>
  /\ nextID = 0 /\ nextGen = 0
  /\ rows = {} /\ upserts = <<>>
  /\ logs = {} /\ log_templates = <<>>
  /\ parsed = 0 /\ failures = 0 /\ process = 0
  /\ unsaved = {} /\ issuer = <<>>

-----------------------------------------------------------------------------
(* The parse tree.                                                         *)

Put(f, x, y) == [z \in DOMAIN f \cup {x} |-> IF z = x THEN y ELSE f[z]]

Below(n, key) == <<n[1], Append(n[2], key)>>
ChildrenOf(n) == {m \in nodes : m[1] = n[1] /\ m[2] # <<>> /\ Front(m[2]) = n[2]}

\* Mutant: a full node sends every token to its wildcard child.
KeyAtCap(n, token) ==
  IF token \in Numeric \/ Cardinality(ChildrenOf(n)) >= MaxChildren THEN Wildcard ELSE token
\* The key of a token below node n: numbers and what a full node has no child
\* for go to the wildcard child.
Key(n, token) ==
  IF \/ token \in Numeric
     \/ Cardinality(ChildrenOf(n)) >= MaxChildren /\ Below(n, token) \notin nodes
  THEN Wildcard ELSE token

Levels(line) == Min({LeadingLevels, Len(line)})

\* The leaf of a line: its length, then its leading tokens.
Path(line) ==
  LET path[i \in 0 .. Levels(line)] ==
        IF i = 0 THEN <<>>
        ELSE Append(path[i - 1], Key(<<Len(line), path[i - 1]>>, line[i]))
  IN  <<Len(line), path[Levels(line)]>>
NodesTo(path) == {<<path[1], keys>> : keys \in Prefixes(path[2])}

\* Position i of a line agrees with a template.
AgreesAt(line, text, i) == text[i] = Wildcard \/ text[i] = line[i]
Agreement(line, text) == Cardinality({i \in DOMAIN line : AgreesAt(line, text, i)})
Covers(text, line) ==
  Len(text) = Len(line) /\ \A i \in DOMAIN line : AgreesAt(line, text, i)

At(path) == IF path \in DOMAIN leaf THEN leaf[path] ELSE <<>>

\* findOrCreate: the first of the clusters that agree best, if that is enough.
IsMatch(line, i) ==
  LET list == At(Path(line))
      score(j) == Agreement(line, clusters[list[j]].text)
  IN  /\ score(i) * OutOf >= Similar * Len(line)
      /\ \A j \in DOMAIN list : score(j) < score(i) \/ (score(j) = score(i) /\ j >= i)

Merge(text, line) ==
  [i \in DOMAIN text |-> IF text[i] = line[i] THEN text[i] ELSE Wildcard]

LeastRecent(index, ids) == CHOOSE x \in ids : \A y \in ids : index[x].gen <= index[y].gen

Upsert(id, text) == Put(upserts, id, text)

Row(line, id) == [line |-> line, id |-> id, process |-> process]

MayParse == Cardinality(rows) < MaxBatch /\ parsed < MaxLines

\* Mutant: only new templates are reported.
ParseMatchSilently(line) ==
  LET path == Path(line) IN
  /\ MayParse
  /\ \E i \in DOMAIN At(path) :
       /\ IsMatch(line, i)
       /\ LET id == leaf[path][i]
              text == Merge(clusters[id].text, line)
          IN  /\ clusters' = [clusters EXCEPT ![id] = [text |-> text, gen |-> nextGen + 1]]
              /\ rows' = rows \cup {Row(line, id)}
  /\ nextGen' = nextGen + 1
  /\ parsed' = parsed + 1
  /\ UNCHANGED <<nodes, leaf, nextID, upserts, storeVars, failures, process, historyVars>>

\* Process of a line that matches a cluster, which widens to cover it.
ParseMatch(line) ==
  LET path == Path(line) IN
  /\ MayParse
  /\ \E i \in DOMAIN At(path) :
       /\ IsMatch(line, i)
       /\ LET id == leaf[path][i]
              text == Merge(clusters[id].text, line)
          IN  /\ clusters' = [clusters EXCEPT ![id] = [text |-> text, gen |-> nextGen + 1]]
              /\ rows' = rows \cup {Row(line, id)}
              /\ upserts' = IF text = clusters[id].text THEN upserts ELSE Upsert(id, text)
  /\ nextGen' = nextGen + 1
  /\ parsed' = parsed + 1
  /\ UNCHANGED <<nodes, leaf, nextID, storeVars, failures, process, historyVars>>

\* Mutant: the tree-wide eviction forgets the leaf's list.
EvictFromIndex(tree, id) ==
  [tree EXCEPT !.clusters = [x \in DOMAIN tree.clusters \ {id} |-> tree.clusters[x]]]
\* evictLRU and evictLeafLRU: out of the index and out of the leaf's list.
EvictCluster(tree, id) ==
  [leaf |-> [p \in DOMAIN tree.leaf |-> RemoveFirst(tree.leaf[p], id)],
   clusters |-> [x \in DOMAIN tree.clusters \ {id} |-> tree.clusters[x]]]

LeafFull(path) == MaxClustersPerLeaf > 0 /\ Len(At(path)) >= MaxClustersPerLeaf

\* The leaf gives up its oldest cluster when it has no room for another.
MakeRoom(path) ==
  LET tree == [leaf |-> leaf, clusters |-> clusters]
  IN  IF LeafFull(path) THEN EvictCluster(tree, LeastRecent(clusters, Range(At(path)))) ELSE tree

AddCluster(tree, path, id, cluster) ==
  LET list == IF path \in DOMAIN tree.leaf THEN tree.leaf[path] ELSE <<>>
  IN  [leaf |-> Put(tree.leaf, path, Append(list, id)),
       clusters |-> Put(tree.clusters, id, cluster)]

\* The tree gives up its oldest cluster when it has too many.
KeepBound(tree) ==
  IF Cardinality(DOMAIN tree.clusters) > MaxTemplates
  THEN EvictCluster(tree, LeastRecent(tree.clusters, DOMAIN tree.clusters)) ELSE tree

\* Process of a line that matches nothing: a new cluster, for which the leaf
\* gives up its oldest one before, and the tree its oldest one afterwards.
ParseNew(line) ==
  LET path == Path(line)
      id == nextID + 1
      tree == KeepBound(AddCluster(MakeRoom(path), path, id, [text |-> line, gen |-> nextGen + 1]))
  IN
  /\ MayParse
  /\ ~ \E i \in DOMAIN At(path) : IsMatch(line, i)
  /\ nodes' = nodes \cup NodesTo(path)
  /\ leaf' = tree.leaf
  /\ clusters' = tree.clusters
  /\ nextID' = id
  /\ nextGen' = nextGen + 1
  /\ parsed' = parsed + 1
  /\ rows' = rows \cup {Row(line, id)}
  /\ upserts' = Upsert(id, line)
  /\ issuer' = Put(issuer, id, process)
  /\ UNCHANGED <<storeVars, failures, process, unsaved>>

-----------------------------------------------------------------------------
(* The flush, and restarts.                                                *)

FlushOk ==
  /\ rows # {}
  /\ logs' = logs \cup rows
  /\ log_templates' = [id \in DOMAIN upserts \cup DOMAIN log_templates |->
                        IF id \in DOMAIN upserts THEN upserts[id] ELSE log_templates[id]]
  /\ unsaved' = unsaved \ DOMAIN upserts
  /\ rows' = {} /\ upserts' = <<>>
  /\ UNCHANGED <<treeVars, parsed, failures, process, issuer>>

\* The flush fails, with or without its log rows in their table.  The tree has
\* reported these texts and will not do so again until they widen.
FlushError ==
  /\ rows # {}
  /\ failures < MaxFailures
  /\ failures' = failures + 1
  /\ logs' \in {logs, logs \cup rows}
  /\ unsaved' = unsaved \cup DOMAIN upserts
  /\ rows' = {} /\ upserts' = <<>>
  /\ UNCHANGED <<treeVars, log_templates, parsed, process, issuer>>

\* A new process starts with an empty tree, and with id 1 again.
Restart ==
  /\ process < MaxRestarts
  /\ process' = process + 1
  /\ nodes' = {} /\ leaf' = <<>> /\ clusters' = <<>>
  /\ nextID' = 0 /\ nextGen' = 0
  /\ rows' = {} /\ upserts' = <<>>
  /\ UNCHANGED <<storeVars, parsed, failures, historyVars>>

Next ==
  \/ \E line \in Line : ParseMatch(line) \/ ParseNew(line)
  \/ FlushOk \/ FlushError \/ Restart

Spec == Init /\ [][Next]_vars
-----------------------------------------------------------------------------
(* Properties.                                                             *)

\* The index and the leaves' lists name the same clusters, each in one leaf
\* and once, within both bounds, although two evictions with different scopes
\* remove from them.  A cluster left in a list would be matched after its
\* eviction; one left in the index would be counted for ever.
ListedOnce(lists) ==
  \A p, q \in DOMAIN lists : \A i \in DOMAIN lists[p], j \in DOMAIN lists[q] :
    lists[p][i] = lists[q][j] => p = q /\ i = j

IndexAndLeavesAgree ==
  /\ DOMAIN clusters = UNION {Range(leaf[p]) : p \in DOMAIN leaf}
  /\ ListedOnce(leaf)
  /\ Cardinality(DOMAIN clusters) <= MaxTemplates
  /\ MaxClustersPerLeaf > 0 => \A p \in DOMAIN leaf : Len(leaf[p]) <= MaxClustersPerLeaf

\* The dictionary explains the stored logs: the text of a row's template covers
\* the row's line, also when templates widened later or were evicted --
\* unless the text went down with a failed flush, or a later process handed
\* the id out again.
DictionaryCoversLogs ==
  \A r \in logs :
    issuer[r.id] = r.process /\ r.id \notin unsaved =>
      r.id \in DOMAIN log_templates /\ Covers(log_templates[r.id], r.line)

\* A line that has a leaf keeps it for the life of the process: later lines,
\* nodes that fill up and evictions never send it to another one, where its
\* own template would not be found.
LeafIsStable ==
  [][\A line \in Line :
       Path(line) \in DOMAIN leaf /\ process' = process => Path(line)' = Path(line)]_vars
=============================================================================
