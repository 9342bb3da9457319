------------------------------ MODULE MCServer ------------------------------
(* Requests for one account from two browsers, a schema of two tables.      *)
EXTENDS Server

CONSTANTS r1, r2, r3, b1, b2, e1

Asks(op, lane, b) == [op |-> op, lane |-> lane, browser |-> b, email |-> e1]

\* A signup, beside another one or a login, over either lane and in either
\* browser, and a logout or a stream.
AccountMixes ==
    {[r \in {r1, r2, r3} |->
        CASE r = r1 -> Asks("signup", l1, b1)
          [] r = r2 -> Asks(op2, "tcp", b)
          [] r = r3 -> Asks(op3, l3, b1)] :
        op2 \in {"signup", "login"}, op3 \in {"logout", "stream"}, b \in {b1, b2},
        l1 \in {"tcp", "quic"}, l3 \in {"tcp", "quic"}}

\* A request over TCP is enough to be interrupted.
OneSignup == {[r \in {r1} |-> Asks("signup", "tcp", b1)]}
=============================================================================
