----------------------------- MODULE MCCacheStores -----------------------------
(* Three keys in the in-process store; values of one and two bytes, and one *)
(* that is over the budget.                                                *)
EXTENDS CacheStores
CONSTANTS k1, k2, k3
===============================================================================
