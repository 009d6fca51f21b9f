------------------------------ MODULE MCCampaigns ------------------------------
(***************************************************************************)
(* Two sessions and two campaigns, the second not yet created.             *)
(***************************************************************************)
EXTENDS Campaigns, TLC

CONSTANTS c1, c2

MCCampaignIds == {c1, c2}

\* Each session runs by itself, on the server, or not at all, and one may run by
\* itself: two local programs meet in the database alone, as one does with a server.
AnyHosting ==
    {h \in [Sessions -> Programs \cup {None}] :
        /\ \A s \in Sessions : h[s] \in {s, Server, None}
        /\ \E s \in Sessions : h[s] # None
        /\ \A s, t \in Sessions : h[s] = s /\ h[t] = t => s = t}

\* All sessions are connections of one server.
OneServer == {[s \in Sessions |-> Server]}

Symmetry == Permutations(Sessions)

===============================================================================
