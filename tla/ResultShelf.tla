---------------------------- MODULE ResultShelf ----------------------------
(***************************************************************************)
(* What the PDF service promises about results, without tools, records,    *)
(* directories or cleanup runs: a result is put on the shelf until a fixed *)
(* time and only that time takes it off; who asks for a result that is on  *)
(* the shelf is served it as it was put there, and can be sent away only   *)
(* once it is off.                                                         *)
(***************************************************************************)
EXTENDS Naturals

CONSTANTS Results, Readers, Empty, Nobody

VARIABLES
  now,
  shelf,   \* result -> until when it is offered and whether it is complete, or Empty
  reader   \* reader -> what was asked for, whether that was complete, how it ended

svars == <<now, shelf, reader>>

Item   == [until : Nat, complete : BOOLEAN]
Unseen == [result |-> Nobody, complete |-> FALSE, got |-> "nothing"]

Init == now = 0 /\ shelf = [x \in Results |-> Empty] /\ reader = [d \in Readers |-> Unseen]

Put(x) ==
  /\ shelf[x] = Empty
  /\ shelf' = [shelf EXCEPT ![x] = shelf'[x]]
  /\ shelf'[x] \in Item /\ shelf'[x].until >= now
  /\ UNCHANGED <<now, reader>>

Ask(d, x) ==
  /\ reader[d].got # "waiting" /\ shelf[x] # Empty
  /\ reader' = [reader EXCEPT ![d] = [result |-> x, complete |-> shelf[x].complete,
                                      got |-> "waiting"]]
  /\ UNCHANGED <<now, shelf>>

Serve(d) ==
  /\ reader[d].got = "waiting"
  /\ reader' = [reader EXCEPT ![d].got = IF reader[d].complete THEN "all of it" ELSE "a part"]
  /\ UNCHANGED <<now, shelf>>

SendAway(d) ==
  /\ reader[d].got = "waiting" /\ shelf[reader[d].result] = Empty
  /\ reader' = [reader EXCEPT ![d].got = "missing"]
  /\ UNCHANGED <<now, shelf>>

\* A restart cuts every download short.
HangUp ==
  /\ reader' = [d \in Readers |-> Unseen]
  /\ UNCHANGED <<now, shelf>>

Tick ==
  /\ now' = now + 1
  /\ shelf' = [x \in Results |-> IF shelf[x] # Empty /\ shelf[x].until < now' THEN Empty
                                 ELSE shelf[x]]
  /\ UNCHANGED reader

Next ==
  \/ \E x \in Results : Put(x)
  \/ \E d \in Readers : Serve(d) \/ SendAway(d) \/ \E x \in Results : Ask(d, x)
  \/ HangUp \/ Tick

Spec == Init /\ [][Next]_svars
=============================================================================
