----------------------------- MODULE SharedTree -----------------------------
(***************************************************************************)
(* The native tree: the encoding of the live page in the shared Y.Doc      *)
(* (src/src/utils/native-tree.ts).  Every node is a Y.Map of its own under *)
(* the key node:<id>, so that edits of different nodes merge.              *)
(*                                                                         *)
(* A page is abstracted to the children of its root: a document maps the   *)
(* ids of the nodes present to their content, one prop per node.  The      *)
(* order of children is left out.  A node is on the page exactly when its  *)
(* key is live, because the apply edits the parent's child ids and the key *)
(* in one transaction.  An id that two replicas inserted concurrently is   *)
(* listed twice and read once, as the live cache does (live-ir.ts).        *)
(***************************************************************************)
EXTENDS YMap

CONSTANTS
  Nodes,         \* node ids below the root
  Contents       \* what a node's prop may hold

Document == UNION {[present -> Contents] : present \in SUBSET Nodes}

(* A page with one node inserted or changed. *)
With(doc, n, content) ==
  [m \in DOMAIN doc \cup {n} |-> IF m = n THEN content ELSE doc[m]]

(* readNativeTree: the page a replica of the tree shows. *)
ReadTree(tree) ==
  [n \in {m \in Nodes : Live(tree[m])} |-> tree[n].val.val]

(* diffIRNodesForLocalSave between two documents with the same root. *)
Changed(prev, next) ==
  {n \in DOMAIN next : n \notin DOMAIN prev \/ prev[n] # next[n]}

Removed(prev, next) == DOMAIN prev \ DOMAIN next

(* writeNode inside getOrCreateNodeMap: an existing node map is edited in   *)
(* place, a missing one is created.                                        *)
WriteNode(node, client, content) ==
  IF Live(node)
  THEN [node EXCEPT !.val = SetKey(@, client, content)]
  ELSE SetKey(node, client, SetKey(Unset, client, content))

(* applyChangedNodesToNativeTree: only what changed since prev is written. *)
ApplyDocument(tree, client, prev, next) ==
  [n \in Nodes |->
     IF n \in Changed(prev, next) THEN WriteNode(tree[n], client, next[n])
     ELSE IF n \in Removed(prev, next) THEN DeleteKey(tree[n])
     ELSE tree[n]]

(* Applying a remote update: the replicas of every node merge. *)
MergeTree(tree, other) == [n \in Nodes |-> MergeNested(tree[n], other[n])]

(* The tree of a room that client 0 seeded with doc. *)
SeededTree(doc) ==
  [n \in Nodes |-> IF n \in DOMAIN doc THEN WriteNode(Unset, 0, doc[n])
                                       ELSE Unset]
=============================================================================
