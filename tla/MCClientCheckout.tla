---------------------------- MODULE MCClientCheckout ---------------------------
(***************************************************************************)
(* Small instances of ClientCheckout: who buys the paid bookings.          *)
(***************************************************************************)
EXTENDS ClientCheckout

\* Every paid booking is bought by a client of its own.
OwnClients == [b \in Paid |-> b]

\* One client buys them all.
OneClient == [b \in Paid |-> CHOOSE c \in Client : TRUE]
===============================================================================
