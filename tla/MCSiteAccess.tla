---------------------------- MODULE MCSiteAccess -----------------------------
(* Who a request comes from and what it may ask: the sites and their caches     *)
(* (SiteAccess), the users (Accounts), and the keys that session tokens are      *)
(* verified with (Sessions). The three share no state: in each behaviour one     *)
(* of them moves.                                                              *)
EXTENDS SiteAccess

CONSTANTS User, Email, Shared, Local, MaxNews,
          Request, FallbackLife, MaxHours, MaxFaults

\* A fallback copy lives for a while, and absence is no copy.
ASSUME FallbackAssumption ==
    /\ FallbackLife \in Nat \ {0} /\ MaxFaults \in Nat
    /\ None \notin Nat /\ None \notin [end : Nat, brief : BOOLEAN]

VARIABLES
    account, token, news, heard, users, row, home, handler, stops,
    up, hour, fresh, fallback, kept, req, faults,
    part

A == INSTANCE Accounts WITH entry <- row, site <- home, crashes <- stops
E == INSTANCE Sessions WITH now <- hour

people  == <<account, token, news, heard, users, row, home, handler, stops>>
session == <<up, hour, fresh, fallback, kept, req, faults>>

AccessInit ==
    /\ part \in {"sites", "users", "sessions"}
    /\ Init /\ A!Init /\ E!Init /\ (up \/ part = "sessions")

AccessNext ==
    /\ UNCHANGED part
    /\ \/ part = "sites"    /\ Next   /\ UNCHANGED <<people, session>>
       \/ part = "users"    /\ A!Next /\ UNCHANGED <<vars, session>>
       \/ part = "sessions" /\ E!Next /\ UNCHANGED <<vars, people>>

\* (No fair action of a part is enabled where the part begins.)
AccessSpec ==
    AccessInit /\ [][AccessNext]_<<vars, people, session, part>> /\ Fairness /\ A!Fairness

\* The properties of the other parts, stated and explained there.
EmailsCatchUp == A!EmailsCatchUp
OutageIsBridged == E!OutageIsBridged
=============================================================================
