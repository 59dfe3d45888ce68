-------------------------------- MODULE Lamps --------------------------------
(***************************************************************************)
(* Which lights a network becomes, and which element each command of a     *)
(* light is addressed to.  An element ignores, without an answer, what no  *)
(* model of its own handles.                                               *)
(***************************************************************************)
EXTENDS NetworkModel

\* An element with a dimmer is a light; on a node that dims nothing, each
\* on/off server is.
Outputs(node) ==
  LET dimmers == ElementsForModel(node, "lightness") IN
  IF dimmers # {} THEN dimmers ELSE ElementsForModel(node, "onoff")

FirstOf(node, positions) ==
  IF positions = {} THEN NoAddress ELSE node.elements[Min(positions)].unicast

After(node, output) == {i \in DOMAIN node.elements : node.elements[i].index > node.elements[output].index}

\* Slip: the first temperature element of the node, for every output.
TempOfNode(node, output) == FirstOf(node, ElementsForModel(node, "temp"))

\* The first temperature element listed after this output, unless the next output
\* comes before it.
TempElementFor(node, output) ==
  LET later == After(node, output) \cap Outputs(node)
      own == {i \in After(node, output) :
                later # {} => node.elements[i].index < node.elements[Min(later)].index}
  IN FirstOf(node, {i \in own \cap ElementsForModel(node, "temp") : \A j \in After(node, output) \ own : i < j})

\* The element hosting the model, or the fallback if none does, else the node's own
\* address.
ModelUnicast(node, ids) ==
  LET hosted == {i \in DOMAIN ids : NodeHasModel(node, ids[i])} IN
  IF hosted = {} THEN node.unicast ELSE FirstOf(node, ElementsForModel(node, ids[Min(hosted)]))

Dimming == {"ctl", "lightness"}
Mode(models) ==
  IF "ctl" \in models THEN "color_temp" ELSE IF "lightness" \in models THEN "brightness" ELSE "onoff"

\* The only output of a node: its models may be spread over its elements.
NodeLight(node, inverted) ==
  [unicast |-> node.unicast, node |-> node.unicast,
   mode |-> Mode({id \in Dimming : NodeHasModel(node, id)}),
   onoff |-> ModelUnicast(node, <<"onoff", "lightness">>),
   lightness |-> ModelUnicast(node, <<"lightness">>),
   ctl |-> ModelUnicast(node, <<"ctl">>),
   temp |-> FirstOf(node, ElementsForModel(node, "temp")),
   mirrored |-> node.unicast \in inverted]

\* One output of several: every command goes to its element.
ElementLight(node, output, inverted) ==
  LET element == node.elements[output] IN
  [unicast |-> element.unicast, node |-> node.unicast,
   mode |-> Mode({id \in Dimming : HasModel(element, id)}),
   onoff |-> element.unicast, lightness |-> element.unicast, ctl |-> element.unicast,
   temp |-> TempElementFor(node, output),
   mirrored |-> element.unicast \in inverted]

LightOf(node, output, inverted) ==
  IF Cardinality(Outputs(node)) = 1 THEN NodeLight(node, inverted) ELSE ElementLight(node, output, inverted)

\* The lights of a node, each with the element behind it.
NodeLights(node, inverted) ==
  {<<LightOf(node, o, inverted), node.elements[o]>> : o \in Outputs(node)}

LightsWithElements(net, inverted) ==
  UNION {NodeLights(n, inverted) : n \in Range(net.nodes)}

Lights(net, inverted) == {p[1] : p \in LightsWithElements(net, inverted)}

Subscribes(element, address) ==
  \E i \in DOMAIN element.models : address \in element.models[i].subscribe

Members(net, inverted, g) ==
  {p[1].unicast : p \in {q \in LightsWithElements(net, inverted) : Subscribes(q[2], g.address)}}

\* A group is a light when two lights or more listen to it.
GroupLights(net, inverted) ==
  {[address |-> g.address, members |-> Members(net, inverted, g)] :
     g \in {h \in net.groups : Cardinality(Members(net, inverted, h)) >= 2}}

\* The nodes the option of mirrored lamps can list.
CtlNodes(net) == {n \in Range(net.nodes) : NodeHasModel(n, "ctl")}

\* What an export says when the network follows the Mesh specification: the elements
\* of a node are listed in the order of their indexes, each has an address nobody
\* shares, and a CTL server comes with the Lightness server it extends.
WellMade(net) ==
  /\ \A n \in DOMAIN net.nodes :
       LET elements == net.nodes[n].elements IN
       /\ Len(elements) \in Nat /\ DOMAIN elements = 1..Len(elements)
       /\ \A i \in DOMAIN elements :
            /\ elements[i].index \in Nat /\ elements[i].unicast \in Nat
            /\ HasModel(elements[i], "ctl") => HasModel(elements[i], "lightness")
            /\ \A j \in DOMAIN elements : i < j => elements[i].index < elements[j].index
  /\ \A n, m \in DOMAIN net.nodes :
       \A i \in DOMAIN net.nodes[n].elements, j \in DOMAIN net.nodes[m].elements :
         net.nodes[n].elements[i].unicast = net.nodes[m].elements[j].unicast => n = m /\ i = j
=============================================================================
