--------------------------- MODULE MCRedisClient ---------------------------
(* The setups of the small instances of RedisClient. *)
EXTENDS RedisClient

Setup(password, db, guarded) == [password |-> password, db |-> db, guarded |-> guarded]

\* A plain server, a guarded one, and the two ways a password can be wrong.
AllSetups == {Setup("none", 0, FALSE), Setup("none", 1, FALSE), Setup("right", 1, TRUE),
              Setup("wrong", 0, TRUE), Setup("none", 0, TRUE)}
=============================================================================
