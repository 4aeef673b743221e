---------------------------- MODULE MCFeedRefresh ----------------------------
(***************************************************************************)
(* A small instance of FeedRefresh: two processes, two editions, two       *)
(* features, and answers that repeat a feature and reach the limit, that   *)
(* one parser keeps half of, and that both parsers refuse.                 *)
(***************************************************************************)
EXTENDS FeedRefresh

CONSTANTS p1, p2, a, b

Is(kind, id) == [is |-> kind, id |-> id]

MCResponses == [e \in 1..MaxEdition |->
    { IF e = 1 THEN <<Is("recent", a), Is("old", b), Is("old", b)>> ELSE <<Is("old", a), Is("future", b)>>,
      <<Is("outside", b), Is("malformed", b), Is("recent", b)>> }]
=============================================================================
