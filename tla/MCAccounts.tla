----------------------------- MODULE MCAccounts ------------------------------
(***************************************************************************)
(* Small instances of Accounts for TLC: two people with one telephone, of  *)
(* whom the second is a driver; a third who sends the driver's licence;    *)
(* and an administrator.                                                   *)
(***************************************************************************)
EXTENDS Accounts

CONSTANTS p1, p2, p3, p4, r1, r2

MCTelephoneOf == [p \in People |-> CASE p = p3 -> 2 [] p = p4 -> 3 [] OTHER -> 1]
MCRoleOf == [p \in People |-> CASE p = p1 -> "PASSAGER" [] p = p4 -> "ADMIN"
                                 [] OTHER -> "CHAUFFEUR"]
MCLicenceOf == [p \in People |-> 1]

\* The controllers' wiring.  POST /withdrawals/webhook is both public and for
\* drivers (its controller's @Roles): the guards answer 403 to every callback.
MCIsPublic == [route \in Routes |-> route \in {"login", "payments/webhook", "withdrawals/webhook"}]
MCRolesOf == [route \in Routes |->
                CASE route \in {"vehicles", "withdrawals", "withdrawals/webhook"} -> {"CHAUFFEUR"}
                  [] route = "disputes" -> {"PASSAGER", "CHAUFFEUR"}
                  [] OTHER -> {}]
=============================================================================
