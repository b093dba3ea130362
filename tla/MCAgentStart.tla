---------------------------- MODULE MCAgentStart ----------------------------
(* A small instance of AgentStart, with ports 1 to 6. *)
EXTENDS AgentStart, TLC

CONSTANTS bas, bms, srv, lan

Row(fields) == [broken |-> FALSE, comment |-> FALSE, fields |-> fields]

\* Ranges of one port and of several, touching, overlapping, out of bounds,
\* upside down and not of numbers; rows with two, three and four fields.
FileLines ==
  {Row(<<bas, r>>) : r \in {<<1, 3>>, <<3>>, <<0, 2>>, <<5, 7>>, <<4, 3>>}}
  \cup {Row(<<bms, r, srv, lan>>) : r \in {<<4, 6>>, <<2>>, <<5, NaN>>}}
  \cup {Row(<<bms, <<6>>, srv>>), Row(<<bms>>), Row(<<>>)}
  \cup {[broken |-> FALSE, comment |-> TRUE, fields |-> <<bas, <<1, 3>>>>],
        [broken |-> TRUE, comment |-> FALSE, fields |-> <<>>]}

Either(flag, env) == [flag |-> flag, env |-> env]
Host(h, p) == [host |-> h, port |-> p]

Arg(help, unknown, a, db, interval, metrics, collectors) ==
  [help |-> help, unknown |-> unknown, addr |-> a, db |-> db, interval |-> interval,
   metrics |-> metrics, collectors |-> collectors]

RedisEnv == Either(Unset, Host("redis", NaN))

StartArgs ==
  {Arg(FALSE, FALSE, RedisEnv, Either(Unset, Unset), Unset, Either(Unset, Unset), c) :
     c \in {Either(Unset, Unset), Either("", "other.conf")}}
  \cup
  {Arg(FALSE, FALSE, Either(Host("redis", 7000), Host("", NaN)), Either(2, NaN), 1, Either("", ":9102"), Either(Unset, Unset)),
   Arg(FALSE, FALSE, Either(Unset, Unset), Either(Unset, Unset), 3, Either(Unset, Unset), Either(Unset, Unset)),
   Arg(FALSE, FALSE, RedisEnv, Either(-1, 3), 3, Either(Unset, Unset), Either(Unset, Unset)),
   Arg(FALSE, FALSE, RedisEnv, Either(Unset, NaN), 3, Either(Unset, Unset), Either(Unset, Unset)),
   Arg(FALSE, FALSE, RedisEnv, Either(Unset, Unset), 0, Either(Unset, Unset), Either(Unset, Unset)),
   Arg(TRUE, FALSE, RedisEnv, Either(Unset, Unset), 3, Either(Unset, Unset), Either(Unset, Unset)),
   Arg(FALSE, TRUE, RedisEnv, Either(Unset, Unset), 3, Either(Unset, Unset), Either(Unset, Unset))}
=============================================================================
