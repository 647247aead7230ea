---------------------------- MODULE BrokerLink ----------------------------
(***************************************************************************)
(* What a publisher may rely on of the broker's connection, without the    *)
(* loop, the lock and the connections themselves.  A link that is up takes *)
(* messages to the exchange; one that is broken takes them and loses them, *)
(* since nobody has noticed yet; one that is down refuses them.  It comes  *)
(* back, perhaps to break again at once.  A link that has been closed      *)
(* never comes back.                                                       *)
(***************************************************************************)
VARIABLE link

Init == link = "up"

Breaks == link = "up" /\ link' = "broken"

Noticed == link = "broken" /\ link' = "down"

Returns == link = "down" /\ link' \in {"up", "broken"}

Closes == link # "closed" /\ link' = "closed"

Next == Breaks \/ Noticed \/ Returns \/ Closes

Spec == Init /\ [][Next]_link

===========================================================================
