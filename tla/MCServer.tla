------------------------------- MODULE MCServer -------------------------------
(* Instances of Server for TLC. *)
EXTENDS Server

at(name) == CHOOSE r \in Routes : r.at = name

Request(name, body, caller) == [route |-> at(name), body |-> body, caller |-> caller]

\* One that needs neither Redis nor the database, one that needs both, and one
\* that goes through everything an /api request goes through.
MCRequests ==
    { Request("GET:/live", "none", "anonymous"),
      Request("GET:/health", "none", "anonymous"),
      Request("POST:/payments", "flat", "CUSTOMER") }

\* Bodies of every kind, for a public and for a protected route.
MCBodies ==
    { Request("POST:/auth/register", body, "anonymous") : body \in Bodies }
        \cup { Request("POST:/transactions/deposit", body, "CUSTOMER") : body \in Bodies }
=============================================================================
