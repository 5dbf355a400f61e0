------------------------------ MODULE MCRestore ------------------------------
(* The other process has a lower pid than the restored one, and so comes   *)
(* first in every listing.                                                 *)
EXTENDS Restore

NoSecret == [p \in {0} \cup Pid |-> ""]

\* No secrets; one that only the other process has; one that the
\* orchestrator and the restored process share, the other having none or another; and
\* one that the orchestrator shares with the other process, but not with the restored.
ManySecrets ==
  {NoSecret, [NoSecret EXCEPT ![1] = "s"],
   [NoSecret EXCEPT ![0] = "s", ![R] = "s"], [NoSecret EXCEPT ![0] = "s", ![R] = "s", ![1] = "t"],
   [NoSecret EXCEPT ![0] = "s", ![1] = "s", ![R] = "t"]}
OneSecret == {NoSecret}
=============================================================================
