----------------------------- MODULE MCWsRelay -----------------------------
(* WsRelay on small instances: alice writes from her laptop, bob has a phone *)
(* and a tablet.                                                             *)
EXTENDS WsRelay, TLC

CONSTANTS alice, bob, laptop, phone, tablet, a1, b1, b2, r1

Owners == [d \in Devices |-> IF d = laptop THEN alice ELSE bob]

Messages == Permutations(MessageIDs)

\* A connection has n[c] events if n names it, and none otherwise.
Events(n) == [c \in Conns |-> IF c \in DOMAIN n THEN n[c] ELSE 0]

\* alice sends n messages to bob, whose phone acknowledges, pings and may leave.
Talk(n) == [device |-> (a1 :> laptop) @@ (b1 :> phone),
            authors |-> {a1}, to |-> {<<bob, NoDevice>>},
            events |-> Events((a1 :> n) @@ (b1 :> 1)),
            chatters |-> {b1}, quitters |-> {b1}]

\* The same without pings, and nobody leaves.
Stay == [Talk(1) EXCEPT !.chatters = {}, !.quitters = {}]

\* bob's phone connects twice, and the first connection breaks at any moment: the
\* teardown of the old and the binding of the new overlap in every way, while
\* a message comes over HTTP.
Reconnect == [device |-> (b1 :> phone) @@ (b2 :> phone),
              authors |-> {r1}, to |-> {<<bob, NoDevice>>},
              events |-> Events(b2 :> 1),
              chatters |-> {}, quitters |-> {b1}]

\* bob's phone and tablet both acknowledge what alice sends to any of them.
TwoDevices == [device |-> (a1 :> laptop) @@ (b1 :> phone) @@ (b2 :> tablet),
               authors |-> {a1}, to |-> {<<bob, NoDevice>>},
               events |-> Events((a1 :> 1) @@ (b1 :> 1) @@ (b2 :> 1)),
               chatters |-> {}, quitters |-> {b1}]

\* A message comes over HTTP before bob's phone connects.
Greeting == [Stay EXCEPT !.device = (b1 :> phone), !.authors = {r1}]

AllThree == {Talk(2), Reconnect, TwoDevices}
JustTalk == {Talk(1)}
JustStay == {Stay}
JustGreeting == {Greeting}
=============================================================================
