----------------------------- MODULE MCContainer -----------------------------
(* Small instances of Container. *)
EXTENDS Container

Source(vals) == [vals |-> vals, bad |-> {}]
Empty == << >>

Port(p) == "port" :> p
Launch(a, e) == [args |-> Source(a), env |-> Source(e), help |-> FALSE]

\* Ordinary settings, and settings at and past their edges.
Ordinary == {Port(5020) @@ u @@ c @@ r :
               u \in {Empty} \cup {"unit" :> n : n \in {0, 7}},
               c \in {Empty} \cup {"codes" :> s : s \in {<<4>>, <<3, 4>>, <<4, 3, 4>>}},
               r \in {Empty, "registers" :> 1}}
Edges == {Port(p) : p \in {-1, 0, 1, 65535, 65536}}
         \cup {Port(1) @@ "registers" :> n : n \in {0, 1, 65536, 65537}}
         \cup {Port(1) @@ "unit" :> n : n \in {-1, 0, 255, 256}}
         \cup {Port(1) @@ "maxConns" :> n : n \in {0, 1}}
         \cup {Port(1) @@ "codes" :> s : s \in {<<>>, <<6>>, <<3, 3>>, <<3, 6>>}}

\* What the environment may add to arguments that name the port.
Portless == {"unit" :> 7, "unit" :> 0, "codes" :> <<4>>, "registers" :> 1}

\* Every setting in the arguments, every setting in the environment, or the
\* port in the arguments and another setting in the environment. (An empty
\* variable is none: the default stands.)
PortInArgs ==
  {Launch(g, Empty) : g \in Ordinary \cup Edges} \cup {Launch(Empty, g) : g \in Ordinary \cup Edges}
  \cup {Launch(a, e) : a \in Edges, e \in Portless}
  \cup {Launch(Port(1), "bind" :> b) : b \in Addresses \ {""}}
  \cup {[Launch(Port(1), Empty) EXCEPT !.env.bad = {"unit"}, !.help = h] : h \in BOOLEAN}
  \cup {Launch(Port(1) @@ "stateFile" :> "", Empty), Launch(Port(1), "stateFile" :> "/state")}

ASSUME PortInArgsShares == \A l \in PortInArgs : SharesSettings(l)

\* The port in the environment and the rest in the arguments, or an address in
\* the arguments - the command lines of scripts/smoke.sh and DEPLOY.md - or
\* another state file.
PortInEnv ==
  {Launch(a, Port(5020)) : a \in {Empty, "unit" :> 7, "codes" :> <<4>>}}
  \cup {Launch(Port(5020) @@ "bind" :> "10.0.0.1", Empty),
         Launch(Port(5020) @@ "stateFile" :> "/state", Empty)}
=============================================================================
