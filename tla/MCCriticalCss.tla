----------------------------- MODULE MCCriticalCss -----------------------------
(* One page, an edit and a fault, one render at a time beside the cron chain. *)
EXTENDS CriticalCss
================================================================================
