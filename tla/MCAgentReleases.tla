-------------------------- MODULE MCAgentReleases --------------------------
(***************************************************************************)
(* Instance of AgentReleases for TLC.                                      *)
(***************************************************************************)
EXTENDS AgentReleases, TLC

CONSTANTS a1, a2

PublishedRelease(version, content) ==
    [version |-> version,
     row |-> [version |-> version, content |-> content, life |-> 1]]

PublishedReleases == <<PublishedRelease(1, "first"), PublishedRelease(2, "second")>>

Suite == [assertions |-> {"no_leak"}, quality_min |-> 1, latency_ms_max |-> 1,
          cost_micros_max |-> None]

Measured == [assertions |-> {"no_leak"}, quality |-> 1, latency_ms |-> 1, cost_micros |-> 0]

EvidenceSet == {Measured, [Measured EXCEPT !.assertions = {}]}

SuiteSet == {Suite}

AdminSymmetry == Permutations(Admins)
=============================================================================
