-------------------------- MODULE Reconciliation --------------------------
(***************************************************************************)
(* evaluate_reconciliation of paper/reconciliation.py: the comparison of   *)
(* the paper ledger with the broker, as a pure operator.  Orders come as   *)
(* functions from client_order_id to an order record, positions as         *)
(* functions from symbol to shares, 0 standing for "no position".          *)
(***************************************************************************)
EXTENDS Integers

\* _OPEN_STATUSES
OpenStatuses == {"submitted", "accepted", "partially_filled"}

\* A local open order that the broker no longer lists is explained only by a
\* position of exactly the quantity its complete fill would leave.
FilledAtBroker(o, localPositions, brokerPositions) ==
    /\ o.side = "buy"
    /\ brokerPositions[o.symbol] > 0
    /\ brokerPositions[o.symbol] = localPositions[o.symbol] + o.qty - o.filled

\* The local open orders that are missing from the broker's list.
Missing(local, broker) ==
    {k \in DOMAIN local : local[k].status \in OpenStatuses /\ k \notin DOMAIN broker}

\* A symbol whose broker position a missing local order explains.
Explained(local, localPositions, broker, brokerPositions) ==
    {local[k].symbol : k \in
        {j \in Missing(local, broker) :
            FilledAtBroker(local[j], localPositions, brokerPositions)}}

\* The working orders of the broker that the ledger does not have.
UnknownOrdersNone(local, broker) == {}
UnknownOrders(local, broker) == DOMAIN broker \ DOMAIN local

SameIdentity(o, p) == o.symbol = p.symbol /\ o.side = p.side /\ o.qty = p.qty

\* The discrepancies no start may trade over.
BlockingCodes(local, localPositions, broker, brokerPositions) ==
    {c \in {"UNKNOWN_BROKER_ORDER", "ORDER_IDENTITY_MISMATCH",
            "ORDER_STATUS_MISMATCH", "LOCAL_OPEN_ORDER_MISSING_AT_BROKER",
            "BROKER_POSITION_MISSING_LOCALLY",
            "LOCAL_POSITION_MISSING_AT_BROKER", "POSITION_QUANTITY_MISMATCH"} :
        \/ /\ c = "UNKNOWN_BROKER_ORDER"
           /\ UnknownOrders(local, broker) # {}
        \/ /\ c = "ORDER_IDENTITY_MISMATCH"
           /\ \E k \in DOMAIN broker \cap DOMAIN local :
                 ~SameIdentity(local[k], broker[k])
        \/ /\ c = "ORDER_STATUS_MISMATCH"
           /\ \E k \in DOMAIN broker \cap DOMAIN local :
                 /\ SameIdentity(local[k], broker[k])
                 /\ local[k].status # broker[k].status
                 /\ ~(local[k].status \in OpenStatuses /\ broker[k].status = "filled")
        \/ /\ c = "LOCAL_OPEN_ORDER_MISSING_AT_BROKER"
           /\ \E k \in Missing(local, broker) :
                 ~FilledAtBroker(local[k], localPositions, brokerPositions)
        \/ /\ c = "BROKER_POSITION_MISSING_LOCALLY"
           /\ \E sym \in DOMAIN brokerPositions :
                 /\ localPositions[sym] = 0
                 /\ brokerPositions[sym] > 0
                 /\ sym \notin Explained(local, localPositions, broker, brokerPositions)
        \/ /\ c = "LOCAL_POSITION_MISSING_AT_BROKER"
           /\ \E sym \in DOMAIN brokerPositions :
                 localPositions[sym] > 0 /\ brokerPositions[sym] = 0
        \/ /\ c = "POSITION_QUANTITY_MISMATCH"
           /\ \E sym \in DOMAIN brokerPositions :
                 /\ localPositions[sym] > 0
                 /\ brokerPositions[sym] > 0
                 /\ localPositions[sym] # brokerPositions[sym]}

\* The discrepancies an operator may resolve: the ledger is merely behind.
RecoverableCodes(local, localPositions, broker, brokerPositions) ==
    {c \in {"LOCAL_ORDER_STATUS_STALE", "PENDING_ENTRY_FILLED_AT_BROKER"} :
        \/ /\ c = "LOCAL_ORDER_STATUS_STALE"
           /\ \E k \in DOMAIN broker \cap DOMAIN local :
                 /\ SameIdentity(local[k], broker[k])
                 /\ local[k].status \in OpenStatuses
                 /\ broker[k].status = "filled"
        \/ /\ c = "PENDING_ENTRY_FILLED_AT_BROKER"
           /\ \E k \in Missing(local, broker) :
                 FilledAtBroker(local[k], localPositions, brokerPositions)}

\* The result of evaluate_reconciliation: entries are enabled iff it is clean.
ReconciliationStatus(local, localPositions, broker, brokerPositions) ==
    IF BlockingCodes(local, localPositions, broker, brokerPositions) # {}
    THEN "blocked"
    ELSE IF RecoverableCodes(local, localPositions, broker, brokerPositions) # {}
         THEN "recoverable"
         ELSE "clean"

=============================================================================
