------------------------------ MODULE MCBilling ------------------------------
(***************************************************************************)
(* An instance of Billing for TLC: one checkout and one reference of a     *)
(* payment made elsewhere, with the return page and the webhook at work on *)
(* them, and an administrator.                                             *)
(***************************************************************************)
EXTENDS Billing, TLC

CONSTANTS c1, e1, v1, d1

OneOffer == {<<"starter", "annual">>}

\* A second visit to the return page or a fault, but not both.  Fair steps change
\* neither count.
NotBoth == visits + faults <= 2
=============================================================================
