------------------------------- MODULE Custody ------------------------------
(***************************************************************************)
(* What the escrow promises, without bookings, statuses or requests: the   *)
(* money of a payment is held once, and leaves the escrow at most once,    *)
(* either to the driver or back to the passenger.  EscrowService's own     *)
(* messages state it ("Les fonds ont déjà été libérés ou remboursés").     *)
(***************************************************************************)
EXTENDS Integers

CONSTANTS
    Accounts,   \* one escrow account per payment
    Owners,     \* the drivers
    OwnerOf,    \* Accounts -> Owners
    Amount      \* Accounts -> Nat

VARIABLES account, purse

Credit(a, balance, pending, withdrawable) ==
    purse' = [purse EXCEPT ![OwnerOf[a]] =
                [balance |-> @.balance + balance,
                 pending |-> @.pending + pending,
                 withdrawable |-> @.withdrawable + withdrawable]]

Move(a, from, to) ==
    /\ account[a] = from
    /\ account' = [account EXCEPT ![a] = to]

Hold(a) == Move(a, "none", "held") /\ Credit(a, Amount[a], Amount[a], 0)
Release(a) == Move(a, "held", "released") /\ Credit(a, 0, -Amount[a], Amount[a])
Refund(a) == Move(a, "held", "released") /\ Credit(a, -Amount[a], -Amount[a], 0)

Init ==
    /\ account = [a \in Accounts |-> "none"]
    /\ purse = [d \in Owners |-> [balance |-> 0, pending |-> 0, withdrawable |-> 0]]
Next == \E a \in Accounts : Hold(a) \/ Release(a) \/ Refund(a)
Spec == Init /\ [][Next]_<<account, purse>>
=============================================================================
