-------------------------- MODULE MCWebhookIngest --------------------------
(* Small instances of WebhookIngest. *)
EXTENDS WebhookIngest, TLC

Delivery(ip, org, body, large, scheme, stamp, key) ==
    [ip |-> ip, org |-> org, slug |-> "s", body |-> body, large |-> large,
     scheme |-> scheme, stamp |-> stamp, key |-> key]

\* Two bodies with the same first bytes for one organization, a delivery for
\* another one with the same slug, and those that are refused.
SomeDeliveries ==
    {Delivery("i", "o1", "b1", FALSE, "relay", 0, "k1"),
     Delivery("i", "o1", "b2", FALSE, "github", 0, "k1"),
     Delivery("i", "o1", "b1", FALSE, "stripe", 1, "k2"),
     Delivery("i", "o2", "b1", FALSE, "relay", 0, "k1"),
     Delivery("i", "o2", "b1", TRUE, "relay", 0, "k1")}

OneDelivery == {Delivery("i", "o1", "b1", FALSE, "relay", 0, "k1")}

OneEndpoint == {<<"o1", "s">>}

RequestSymmetry == Permutations(Requests)

AllBuckets == {<<"ip", "i">>, <<"webhook", "s">>, <<"org", "o1">>, <<"org", "o2">>}

\* The slug's bucket is the slow one; the others regain their token at a tick.
Tokens == [b \in AllBuckets |-> 1]
Ticks == [b \in AllBuckets |-> IF b[1] = "webhook" THEN 2 ELSE 1]
SamePrefix == [b \in Bodies |-> "p"]
=============================================================================
