------------------------------- MODULE MCEntry -------------------------------
(* Small instances of Entry for TLC: five exports of two networks in two subnets. *)
EXTENDS Entry, TLC

Key(i) == [ok |-> TRUE, index |-> i, key |-> "k"]
Model(id, bind, groups) == [id |-> id, bind |-> bind, subscribe |-> groups]
Element(i, ids) == [index |-> i, models |-> [j \in DOMAIN ids |-> Model(ids[j], <<0>>, {})]]
Node(a, cid, elements) == [ok |-> TRUE, unicast |-> a, cid |-> cid, elements |-> elements]
Bad == [ok |-> FALSE, unicast |-> 0, cid |-> "", elements |-> <<>>]

Lamp == <<"onoff", "lightness", "ctl">>

\* On/off on one element, the dimmer and the temperature on the next ones.
Split(a) == Node(a, "haefele",
  <<Element(0, <<"onoff">>), Element(1, <<"lightness", "ctl">>), Element(2, <<"temp">>)>>)
\* A dimmer that two groups reach, one of them the pseudo-group of all nodes.
Dimmer(a) == Node(a, "other",
  <<[index |-> 0, models |-> <<Model("lightness", <<0>>, {100, 101})>>]>>)
\* Two strips, each followed by its temperature element.  More models are
\* bound to key 1 than to key 0.
Box(a) == Node(a, "haefele",
  [i \in 1..4 |-> [index |-> i - 1,
     models |-> [j \in DOMAIN (IF i % 2 = 1 THEN Lamp ELSE <<"temp">>) |->
       Model((IF i % 2 = 1 THEN Lamp ELSE <<"temp">>)[j], <<1, 2>>, {})]]])
Remote(a) == Node(a, "other", <<Element(0, <<"client">>)>>)
Relay(a) == Node(a, "other", <<Element(0, <<"onoff">>), Element(1, <<"onoff">>)>>)

Doc(uuid, netKey, keys, nodes) ==
  [json |-> TRUE, uuid |-> uuid, netKeys |-> <<[ok |-> TRUE, key |-> netKey]>>,
   appKeys |-> keys, nodes |-> nodes,
   groups |-> <<[ok |-> TRUE, type |-> "all", address |-> 100],
                [ok |-> TRUE, type |-> "room", address |-> 101],
                [ok |-> FALSE, type |-> "room", address |-> 0]>>]

\* "grown" and "shrunk" are what "home" became, "shrunk" with a new NetKey; "other" names
\* the subnet of "home" otherwise.  The file of a UUID has it in lower case.
MCContents ==
  "home"   :> Doc("U", "k3", <<Key(0)>>, <<Split(1), Dimmer(4), Dimmer(5)>>)
  @@ "grown"  :> Doc("U", "k3", <<Key(0), Key(1)>>, <<Split(1), Dimmer(4), Box(5), Remote(11), Bad>>)
  @@ "shrunk" :> Doc("U", "k4", <<Key(0)>>, <<Bad, Relay(7)>>)
  @@ "other"  :> Doc("", "k3", <<Key(0)>>, <<Relay(4)>>)
  @@ "broken" :> Doc("U", "k3", <<Key(0)>>, <<Bad>>)

MCDocuments == DOMAIN MCContents
MCOldEntries ==
  {[doc |-> "home", uid |-> "U"], [doc |-> "broken", uid |-> "U"], [doc |-> "other", uid |-> ""]}
MCLower(name) == IF name = "U" THEN "u" ELSE name

ASSUME ExportsAreWellMade == \A d \in Usable : WellMadeExport(d)

\* Entries are interchangeable.
EntrySymmetry == Permutations(Entries)
=============================================================================
