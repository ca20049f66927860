---------------------------- MODULE MCRegistry ----------------------------
(* Two clients on one name: who asks for what, and who closes. *)
EXTENDS Registry, TLC

CONSTANTS c1, c2, n1, a1, a2, g1, g2

Register(name, addr) == [op |-> "register", name |-> name, addr |-> addr]
Lookup(name)         == [op |-> "lookup", name |-> name]

First(c)  == <<c, 1>>
Second(c) == <<c, 2>>

\* A client corrects its registration while another looks it up.
Correct == [asks |-> First(c1) :> Register(n1, a1)
                     @@ Second(c1) :> Register(n1, a2)
                     @@ First(c2) :> Lookup(n1),
            closers |-> {}]

\* Two clients register the name, and one of them looks it up.
Contend == [asks |-> First(c1) :> Register(n1, a1) @@ Second(c1) :> Lookup(n1)
                     @@ First(c2) :> Register(n1, a2),
            closers |-> {}]

\* A Close during a registration and a lookup.
Stop == [asks |-> First(c1) :> Register(n1, a1) @@ First(c2) :> Lookup(n1),
         closers |-> {g1}]

\* Two Closes, and a registration without a name.
StopTwice == [asks |-> First(c1) :> Register(NoName, a1), closers |-> {g1, g2}]

SomeScenes == {Correct, Contend, Stop, StopTwice}
=============================================================================
