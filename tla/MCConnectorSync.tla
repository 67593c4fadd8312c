-------------------------- MODULE MCConnectorSync --------------------------
(* Small instances of ConnectorSync: a page that has a version and a file    *)
(* that has none.                                                            *)
EXTENDS ConnectorSync

Kind(filters, limit, unfit) == [filters |-> filters, limit |-> limit, unfit |-> unfit]

(* GitHub cannot filter; SharePoint, Confluence and Drive can: all of the    *)
(* library in one run, half of it, and one with an artifact of no use.       *)
Kinds == {Kind(FALSE, 2, {}), Kind(TRUE, 2, {}), Kind(TRUE, 1, {}),
          Kind(TRUE, 2, {"file"})}
Large == {Kind(TRUE, 1, {})}

=============================================================================
