------------------------------- MODULE Checkout --------------------------------
(***************************************************************************)
(* A checkout or a customer portal session is opened with the payment        *)
(* provider (routes/billing.ts). The provider has two environments with        *)
(* separate catalogs, and the worker does not know which of them its access     *)
(* token is of: it tries the preferred one, then the other, remembers in KV      *)
(* which one answered, and, when the configured product is unknown there,       *)
(* looks for the plan by name in the catalog.                                 *)
(*                                                                         *)
(* Products, customers and the texts of errors are left out, but for what the *)
(* code reads in a text: an error that combines two attempts is taken for an   *)
(* unknown product when the second one says so, and may be taken for one        *)
(* when both were refused ("production ... invalid" matches the pattern).       *)
(***************************************************************************)

CONSTANT None

VARIABLES
    home,       \* the environment that accepts the token; None if neither does
    stock,      \* what is there: the configured product, one of the plan's name, the customer
    override,   \* the environment that POLAR_SERVER or the token's prefix names; None
    hint,       \* polar:server:<token> in KV
    req         \* the request: what it does next

billing == <<home, stock, override, hint, req>>

Server == {"sandbox", "production"}
Thing == {"configured", "catalog", "customer"}

Other(s) == IF s = "sandbox" THEN "production" ELSE "sandbox"

Fresh == [pc |-> "free", wants |-> None, at |-> None, second |-> FALSE, down |-> FALSE]

Preferred ==
    IF override # None THEN override ELSE IF hint # None THEN hint ELSE "production"

-----------------------------------------------------------------------------
\* The hint is written by other requests that found the token's home, and expires.
OtherRequest ==
    /\ home # None /\ hint' = home
    /\ UNCHANGED <<home, stock, override, req>>

HintExpires ==
    /\ hint # None /\ hint' = None
    /\ UNCHANGED <<home, stock, override, req>>

-----------------------------------------------------------------------------
\* withPolarServerRetry begins.
Try(what) == [pc |-> "call", wants |-> what, at |-> Preferred, second |-> FALSE,
              down |-> req.down]

\* POST /billing/checkout of a plan, POST /billing/portal of an account with one.
Begin(what) ==
    /\ req.pc = "free"
    /\ req' = [Try(what) EXCEPT !.down = FALSE]
    /\ UNCHANGED <<home, stock, override, hint>>

\* The dashboard's two commands. (The portal is offered to an account that the tab believes
\* to have a plan; the provider may know no customer of it.)
SelectPlan == Begin("configured")
OpenPortal == Begin("customer")

\* Mutant of ReadsAsUnknown: only the status of the error tells.
StatusTells(unknown) == unknown /\ ~req.second

\* isProductNotFoundError, of an error thrown after one attempt or after two.
ReadsAsUnknown(unknown) == unknown

\* The error reaches the handler: a checkout goes to the catalog, or an error is answered.
Throw(unknown, down) ==
    IF req.wants = "configured" /\ ReadsAsUnknown(unknown)
    THEN req' = [Try("catalog") EXCEPT !.down = down]
    ELSE req' = [req EXCEPT !.pc = "error", !.down = down]

\* The environment does not know the token.
Refuse ==
    /\ req.pc = "call" /\ req.at # home
    /\ \/ ~req.second /\ req' = [req EXCEPT !.at = Other(@), !.second = TRUE]
       \/ req.second /\ \E unknown \in BOOLEAN : Throw(unknown, req.down)
    /\ UNCHANGED <<home, stock, override, hint>>

\* It does, and has what the request wants.
Serve ==
    /\ req.pc = "call" /\ req.at = home /\ req.wants \in stock
    /\ req' = [req EXCEPT !.pc = IF req.second THEN "remember" ELSE "session"]
    /\ UNCHANGED <<home, stock, override, hint>>

\* It has not. (A look in the catalog that finds nothing is no error, and the hint is
\* written as well; the handler then answers with one.)
Lack ==
    /\ req.pc = "call" /\ req.at = home /\ req.wants \notin stock
    /\ IF req.wants = "catalog" THEN req' = [req EXCEPT !.pc = "error"]
                                ELSE Throw(TRUE, req.down)
    /\ hint' = IF req.wants = "catalog" /\ req.second THEN home ELSE hint
    /\ UNCHANGED <<home, stock, override>>

\* It is out of order, or the network is: the other one is not asked, and of an error
\* after two attempts it is again the text that counts.
Down ==
    /\ req.pc = "call"
    /\ \E unknown \in BOOLEAN : (unknown => req.second) /\ Throw(unknown, TRUE)
    /\ UNCHANGED <<home, stock, override, hint>>

\* KV may fail, which is ignored.
Remember ==
    /\ req.pc = "remember"
    /\ hint' \in {req.at, hint}
    /\ req' = [req EXCEPT !.pc = "session"]
    /\ UNCHANGED <<home, stock, override>>

Answer ==
    /\ req.pc \in {"session", "error"}
    /\ req' = Fresh
    /\ UNCHANGED <<home, stock, override, hint>>

-----------------------------------------------------------------------------
\* Any deployment: a token of either environment or of none, an override that is right
\* or wrong, a hint left by a token that ended in the same letters.
Init ==
    /\ home \in Server \cup {None} /\ stock \in SUBSET Thing
    /\ override \in Server \cup {None} /\ hint \in Server \cup {None}
    /\ req = Fresh

Next ==
    \/ OtherRequest \/ HintExpires
    \/ SelectPlan \/ OpenPortal
    \/ Refuse \/ Serve \/ Lack \/ Down \/ Remember \/ Answer

Spec == Init /\ [][Next]_billing

-----------------------------------------------------------------------------
\* Whatever the override and the hint say, and whatever other requests write meanwhile,
\* a request is refused only if the provider was down, accepts the token nowhere, or has
\* neither the configured product nor one of the plan's name (or not the customer) where
\* it does. And a session is one of the environment that the token is of: "test API keys
\* always produce a Polar test checkout URL instead of the live checkout".
SellsWhatItCan ==
    /\ req.pc = "error" =>
         \/ req.down \/ home = None
         \/ req.wants \notin stock /\ (req.wants = "customer" \/ stock \subseteq {"customer"})
    /\ req.pc = "session" => req.at = home
=============================================================================
