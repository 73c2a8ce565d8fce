---------------------------- MODULE MCAccountQuota ----------------------------
(* Instances of AccountQuota for TLC: interchangeable requests.             *)
EXTENDS AccountQuota, TLC

Interchangeable == Permutations(Sends) \cup Permutations(Creates)
===============================================================================
