--------------------------- MODULE ConfigMessages ---------------------------
(***************************************************************************)
(* The messages a node is configured with, and what is read of their       *)
(* Statuses.  A message is a record; a Status is the sequence of its       *)
(* fields, of which the number says what it is.                            *)
(***************************************************************************)
EXTENDS Naturals, Sequences

\* config_appkey_add, config_composition_data_get, config_model_app_bind.
AppKeyAdd(netkey, appkey) == [op |-> "appkey", netkey |-> netkey, appkey |-> appkey]
CompositionGet == [op |-> "composition", page |-> 0]
ModelAppBind(element, appkey, model) == [op |-> "bind", element |-> element, appkey |-> appkey, model |-> model]

----------------------------------------------------------------------------
\* parse_config_appkey_status: a status and two key indexes.
ParsesAppKey(f) == Len(f) = 3
AppKeyStatus(f) == [status |-> f[1], netkey |-> f[2], appkey |-> f[3]]

\* parse_config_model_app_status: status, element, key index and the model, of a vendor
\* model the company before it.
ParsesModelApp(f) == Len(f) \in {4, 5}
ModelAppStatus(f) ==
  [status |-> f[1], element |-> f[2], appkey |-> f[3], model |-> f[Len(f)],
   company |-> IF Len(f) = 5 THEN {f[4]} ELSE {}]

\* parse_composition_data_status: a page and five words, then the elements, each with as
\* many models as it has room for: one cut short is refused.
Words == 6
ParsesComposition(f) == Len(f) >= Words /\ \A i \in Words + 1 .. Len(f) : f[i].given = f[i].counted
CompositionData(f) == [elements |-> SubSeq(f, Words + 1, Len(f))]
=============================================================================
