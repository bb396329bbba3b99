----------------------------- MODULE MCDnsCache -----------------------------
(* Small instances of DnsCache for TLC.                                    *)
EXTENDS DnsCache, TLC

\* Callers are alike, and so are refresh tasks.
Symmetry == Permutations(Callers) \cup Permutations(Refreshes)
=============================================================================
