------------------------- MODULE MCSubscriptionManager -------------------------
(* Instances of SubscriptionManager: a short and a long spelling of the same *)
(* topic, a second topic, and one that is filtered.                          *)
EXTENDS SubscriptionManager, TLC

CONSTANTS c1, c2, own, m1, m2, wild

MCClients == {c1, c2, own}
MCOwn == {own}
MCMids == {m1, m2, wild}
MCWild == {wild}
ShortM1 == [pre |-> "c//", mid |-> m1, suf |-> "/q/#"]
LongM1 == [pre |-> "command//", mid |-> m1, suf |-> "/req/#"]
MixedM2 == [pre |-> "c//", mid |-> m2, suf |-> "/req/#"]
Wild == [pre |-> "c//", mid |-> wild, suf |-> "/q/#"]
MCTopics == {ShortM1, LongM1, MixedM2, Wild}
=============================================================================
