---------------------------- MODULE NetworkModel ----------------------------
(***************************************************************************)
(* The mesh network described by a ".connect" export, and what is read     *)
(* from it: addresses, elements, the AppKey to encrypt with.               *)
(*                                                                         *)
(* A document is the decoded export.  What a field cannot be parsed from   *)
(* is an entry that is not ok; names and device keys are left out.         *)
(***************************************************************************)
EXTENDS Integers, Sequences, FiniteSets, SequencesExt, FiniteSetsExt

CONSTANTS
  UnicastMax,  \* the last unicast address, 0x7FFF, and the preferred source
  NoAddress    \* no address could be chosen

ASSUME UnicastAssumption == UnicastMax \in Nat \ {0} /\ NoAddress \notin Nat

Unicasts == 1..UnicastMax

----------------------------------------------------------------------------
(***************************************************************************)
(* from_connect.                                                           *)
(***************************************************************************)

\* What is kept keeps its position: nothing else of the order matters.
WellFormed(entries) == {i \in DOMAIN entries : entries[i].ok}

\* One bad key refuses the document, one bad node only itself - unless no
\* other is left.
Parses(doc) ==
  /\ doc.json
  /\ doc.netKeys # <<>> /\ doc.netKeys[1].ok
  /\ doc.appKeys # <<>> /\ \A i \in DOMAIN doc.appKeys : doc.appKeys[i].ok
  /\ doc.nodes = <<>> \/ WellFormed(doc.nodes) # {}

ParseElement(base, raw) ==
  [index |-> raw.index, unicast |-> base + raw.index, models |-> raw.models]

ParseNode(raw) ==
  [unicast |-> raw.unicast, cid |-> raw.cid,
   elements |-> [i \in DOMAIN raw.elements |-> ParseElement(raw.unicast, raw.elements[i])]]

\* The pseudo-group of all nodes is none of the user's.
ParseGroups(entries) == {entries[i] : i \in {k \in WellFormed(entries) : entries[k].type # "all"}}

FromConnect(doc) ==
  [uuid |-> doc.uuid, netKey |-> doc.netKeys[1].key, appKeys |-> doc.appKeys,
   nodes |-> [i \in WellFormed(doc.nodes) |-> ParseNode(doc.nodes[i])],
   groups |-> ParseGroups(doc.groups)]

\* The mesh UUID, or else what the subnet advertises: k3 of its NetKey.
Identifier(net) == IF net.uuid # "" THEN net.uuid ELSE net.netKey

----------------------------------------------------------------------------
(***************************************************************************)
(* Composition.                                                            *)
(***************************************************************************)

HasModel(element, id) == \E i \in DOMAIN element.models : element.models[i].id = id

NodeHasModel(node, id) == \E i \in DOMAIN node.elements : HasModel(node.elements[i], id)

\* The positions of the elements that host the model.
ElementsForModel(node, id) == {i \in DOMAIN node.elements : HasModel(node.elements[i], id)}

UnicastAddresses(net) ==
  UNION {{e.unicast : e \in Range(n.elements)} : n \in Range(net.nodes)}

\* Every place a key of the network is bound to one of the models ids: each
\* occurrence counts, twice on one model included.
BoundAt(net, ids) ==
  UNION {UNION {UNION {{<<n, e, m, b>> : b \in DOMAIN net.nodes[n].elements[e].models[m].bind} :
      m \in {k \in DOMAIN net.nodes[n].elements[e].models :
               net.nodes[n].elements[e].models[k].id \in ids}} :
        e \in DOMAIN net.nodes[n].elements} :
          n \in DOMAIN net.nodes}

IndexBound(net, p) == net.nodes[p[1]].elements[p[2]].models[p[3]].bind[p[4]]

Bindings(net, ids, index) == Cardinality({p \in BoundAt(net, ids) : IndexBound(net, p) = index})

BoundAppKeyIndexes(net, ids) == {IndexBound(net, p) : p \in BoundAt(net, ids)}

\* Most-bound first, the lower index before the higher.
MostBound(net, ids, indexes) ==
  CHOOSE i \in indexes : \A j \in indexes :
    \/ Bindings(net, ids, i) > Bindings(net, ids, j)
    \/ Bindings(net, ids, i) = Bindings(net, ids, j) /\ i <= j

Held(net) == {net.appKeys[i].index : i \in DOMAIN net.appKeys}

\* Slip: the first key of the export.
FirstAppKey(net, ids) == net.appKeys[1].index

\* The first bound index the export has a key for, else its first key.
AppKeyForModels(net, ids) ==
  LET usable == BoundAppKeyIndexes(net, ids) \cap Held(net) IN
  IF usable = {} THEN net.appKeys[1].index ELSE MostBound(net, ids, usable)

\* The preferred address, or the next free one below it.
FreeUnicast(net, preferred) ==
  LET free == 1..preferred \ UnicastAddresses(net) IN
  IF free = {} THEN NoAddress ELSE Max(free)
=============================================================================
