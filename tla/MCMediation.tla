---------------------------- MODULE MCMediation ----------------------------
(* A finite instance of Mediation: the direct adapter and two affiliate    *)
(* networks.                                                               *)
EXTENDS Mediation

Creative(source, network, domain, rank) ==
    [source |-> source, network |-> network, domain |-> domain, matches |-> TRUE, rank |-> rank]
\* The best one does not match; one link cannot be built; two offers of a
\* rival rank before a fine one; one affiliate creative goes to either network.
Unmatched == [Creative("direct", NoNetwork, "fine", 0) EXCEPT !.matches = FALSE]
Broken == Creative("affiliate", "impact", "fine", 2)
Catalogue ==
    {Unmatched, Broken,
     Creative("direct", NoNetwork, "rival", 1), Creative("direct", NoNetwork, "shop.rival", 3),
     Creative("direct", NoNetwork, "fine", 4), Creative("affiliate", NoNetwork, "other", 5),
     Creative("affiliate", "impact", "shop.rival", 6)}

Demand ==
    <<[source |-> "direct", network |-> NoNetwork, links |-> Catalogue],
      [source |-> "affiliate", network |-> "partnerstack", links |-> Catalogue],
      [source |-> "affiliate", network |-> "impact", links |-> Catalogue \ {Broken}]>>

Names == {"rival", "shop.rival", "fine", "other"}
Subdomains == [d \in Names |-> IF d = "rival" THEN {"rival", "shop.rival"} ELSE {d}]
=============================================================================
