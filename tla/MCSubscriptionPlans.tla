------------------------- MODULE MCSubscriptionPlans -------------------------
(* Two vendors, one of which the classifier takes for a subscription or not. *)
EXTENDS SubscriptionPlans

CONSTANTS gym, shop

Classified(kind, cycle) == [kind |-> kind, excluded |-> FALSE, cycle |-> cycle]

\* The shop can have no subscription, for its category or for its kind.
MCProfiles ==
    {[v \in {gym, shop} |-> IF v = gym THEN Classified("ONE_OFF", NULL)
        ELSE [kind |-> "ONE_OFF", excluded |-> TRUE, cycle |-> NULL]],
     [v \in {gym, shop} |-> IF v = gym THEN Classified("SUBSCRIPTION", "YEARLY")
        ELSE Classified("ESSENTIAL_BILL", NULL)]}

\* With its fields as TLC sorts them, which its workers would do to a row they share.
Row(v, day, amount) == [day |-> day, amount |-> amount, vendor |-> v, standing |-> FALSE]
StandingRow(day, amount) == [day |-> day, amount |-> amount, vendor |-> gym, standing |-> TRUE]

\* A fee that comes on time or three days early, at one of two prices, with or without
\* a drink; two fees a quarter apart; standing orders; and a purchase elsewhere.
MCStatements ==
    {<<Row(gym, 0, 999)>>, <<Row(gym, 62, 1149)>>,
     <<Row(gym, 0, 999), Row(gym, 27, 999)>>,
     <<Row(gym, 0, 999), Row(gym, 30, 999)>>,
     <<Row(gym, 30, 1149), Row(gym, 30, 400)>>,
     <<Row(gym, 62, 999), Row(gym, 62, 400), Row(shop, 62, 999)>>,
     <<Row(gym, 0, 1149), Row(gym, 90, 999)>>,
     <<Row(gym, 0, 999), Row(gym, 30, 400), Row(gym, 62, 999)>>,
     <<StandingRow(30, 999), StandingRow(0, 1149)>>}

\* A first month dearer than the second, by less than 15% of the dearer one.
MCDriftingPrice == {<<Row(gym, 0, 1160), Row(gym, 30, 999)>>}

\* The slots of the handlers are interchangeable, and no liveness is checked.
MCSymmetry == Permutations(Calls)

MCPayments == {[day |-> 0, amount |-> 400, vendor |-> gym]}
MCNewPlans == {[vendor |-> gym, amount |-> 400, cycle |-> "MONTHLY"]}
MCEdits == {[amount |-> 1149]}
=============================================================================
