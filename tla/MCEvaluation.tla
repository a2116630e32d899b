---------------------------- MODULE MCEvaluation ----------------------------
(* A short data set over few hours, with every constant small enough for *)
(* each branch of each detector.                                         *)
EXTENDS Evaluation

Purchase(user, amount, country, device, merchant, category, times) ==
    [id : {0}, time : times, user : {user}, amount : {amount}, country : {country},
     device : {device}, merchant : {merchant}, category : {category}, fraud : {amount = 90}]

\* Ordinary purchases, a large one abroad on a new device at a risky shop, a
\* small one, and one of another category without country and device.
MCTemplates ==
    Purchase("ana", 10, "US", "d1", "shop", "food", {0, 1, 5})
    \cup Purchase("ana", 12, "UK", "d2", "mixer-bets", "food", {1})
    \cup Purchase("ana", 90, "FJ", "d3", "bets", "food", {0, 5})
    \cup Purchase("ana", 11, "", "", "shop", "fuel", {1})
    \cup Purchase("bob", 20, "US", "d1", "shop", "food", {0, 5})

MCDistance == [route \in {"US", "UK", "FJ"} \X {"US", "UK", "FJ", ""} |->
    CASE route[1] = route[2] \/ route[2] = "" -> 0
      [] "FJ" \in {route[1], route[2]} -> 9000
      [] OTHER -> 5000]

MCRegistry == [k \in {"bets", "mixer"} |-> IF k = "bets" THEN 90 ELSE 95]
MCKeysIn == [m \in {"shop", "bets", "mixer-bets"} |->
    CASE m = "bets" -> {"bets"} [] m = "mixer-bets" -> {"bets", "mixer"} [] OTHER -> {}]

\* ln(s / (1 - s)) in thousandths, for 0.01 to 1.
MCLogit == <<
    -4595, -3892, -3476, -3178, -2944, -2752, -2587, -2442, -2314, -2197,
    -2091, -1992, -1901, -1815, -1735, -1658, -1586, -1516, -1450, -1386,
    -1325, -1266, -1208, -1153, -1099, -1046, -995, -944, -895, -847,
    -800, -754, -708, -663, -619, -575, -532, -490, -447, -405,
    -364, -323, -282, -241, -201, -160, -120, -80, -40, 0,
    40, 80, 120, 160, 201, 241, 282, 323, 364, 405,
    447, 490, 532, 575, 619, 663, 708, 754, 800, 847,
    895, 944, 995, 1046, 1099, 1153, 1208, 1266, 1325, 1386,
    1450, 1516, 1586, 1658, 1735, 1815, 1901, 1992, 2091, 2197,
    2314, 2442, 2587, 2752, 2944, 3178, 3476, 3892, 4595, 13816>>
=============================================================================
