--------------------------- MODULE MCVendorCatalog ---------------------------
(* A streaming service that the classifier spells in two ways, and a gym.   *)
EXTENDS VendorCatalog, TLC

CONSTANTS stream, streamLtd, gym, cardCharge, bankOrder

MCNames == {stream, streamLtd, gym}
MCKey == [n \in MCNames |-> n]
MCSimilar == {<<n, n>> : n \in MCNames}
             \cup {<<stream, streamLtd>>, <<streamLtd, stream>>}
MCDescriptions == {cardCharge, bankOrder}
MCStandingOrders == {bankOrder}
MCCurated == {stream, cardCharge}
MCServices == {"NONE", "VIDEO"}

MCPromotions == {[cycle |-> "MONTHLY", service |-> "VIDEO"]}

MCAnswers ==
    (cardCharge :>
       {[name |-> stream, kind |-> "ONE_OFF", service |-> "NONE", cycle |-> NULL]})
    @@ (bankOrder :>
       {[name |-> streamLtd, kind |-> "ONE_OFF", service |-> "VIDEO", cycle |-> "MONTHLY"],
        [name |-> gym, kind |-> "ESSENTIAL_BILL", service |-> "NONE", cycle |-> NULL]})
=============================================================================
