----------------------------- MODULE WalletTable -----------------------------
(***************************************************************************)
(* The "Wallet" table and its PostgreSQL row locks: the state that the     *)
(* transaction service and the wallet service share.                       *)
(*                                                                         *)
(* Wallet.userId is unique, so a wallet is named by the user who owns it   *)
(* (or could own it).  Row locks are taken in the order of the ids.        *)
(***************************************************************************)
EXTENDS Money

CONSTANTS
    Wallets,    \* wallet ids, ordered as ORDER BY id orders them
    Requests,   \* requests that move money; each is one database transaction
    NoReq       \* the holder of a row lock that nobody holds

ASSUME WalletTableAssumption ==
    /\ Wallets \subseteq Nat \ {0}
    /\ NoReq \notin Requests

VARIABLES
    balance,    \* balance[w]: the committed Wallet.balance, in cents
    status,     \* status[w]: the committed Wallet.status, "ABSENT" if no row
    lockedBy    \* lockedBy[w]: the request whose transaction holds row w

tableVars == <<balance, status, lockedBy>>

WalletStatus == {"ACTIVE", "FROZEN", "CLOSED"}
NoWallet == 0

Row == [balance : Int, status : WalletStatus \cup {"ABSENT"}]
NoRow == [balance |-> 0, status |-> "ABSENT"]

Exists(w) == status[w] # "ABSENT"
RowOf(w) == [balance |-> balance[w], status |-> status[w]]

\* Bug: the SELECT has no FOR UPDATE, so nobody waits for a row.
NeverLocked(w) == FALSE

IsLocked(w) == lockedBy[w] # NoReq
=============================================================================
