----------------------------- MODULE MCHostValues -----------------------------
(***************************************************************************)
(* Small hosts for TLC.                                                    *)
(***************************************************************************)
EXTENDS HostValues

\* What the document and its functions have done, and whether the values are the smallest.
OnlyBindings == used.values = 0 /\ used.calls = 0 /\ used.copies = 0
OneKey       == \A n \in DOMAIN heap : \A i \in DOMAIN heap[n].items : heap[n].items[i].key # "l"

\* Bound: a host builds values of several nodes for a document that only reads them, or
\* has functions called with values of one node and one key.
Small  == OnlyBindings \/ (used.bound <= 1 /\ OneKey)
MCNext == Next /\ Small'
MCSpec == Init /\ [][MCNext]_vars /\ WF_vars(Copy)
=============================================================================
