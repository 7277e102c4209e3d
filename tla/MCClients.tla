------------------------------ MODULE MCClients ------------------------------
(* An instance of Clients for TLC. *)
EXTENDS Clients

CONSTANTS own, other

OneOwn   == {own}
OneOther == {other}
=============================================================================
