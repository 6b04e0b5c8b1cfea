------------------------ MODULE MCMarketPublications ------------------------
(* Jobs, creators, assets, playback ids and incidents are interchangeable. *)
EXTENDS MarketPublications, TLC

Symmetry == Permutations(Job) \cup Permutations(Creator)
            \cup Permutations(Asset) \cup Permutations(PlaybackId)
            \cup Permutations(Incident)
=============================================================================
