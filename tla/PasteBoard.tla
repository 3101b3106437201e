----------------------------- MODULE PasteBoard -----------------------------
(***************************************************************************)
(* What the paste service promises, without requests, sweeps or storage    *)
(* calls: a paste that was confirmed to its author stays readable and      *)
(* whole until it expires; an expired one loses its archive first and its  *)
(* entry last; only a creation reported as failed may be spoilt earlier.   *)
(***************************************************************************)
EXTENDS Naturals

CONSTANTS Ids, Never, Vacant

VARIABLES now, board   \* board: id -> Vacant or a paste

bvars == <<now, board>>

\* A paste is text or has an archive, which can be lost; its author was told
\* that it was created or that creating it failed.
Paste == [expires : Nat \cup {Never}, body : {"text", "archive", "lost"},
          told : {"created", "failed"}]

Overdue(p) == p.expires # Never /\ p.expires < now

Init == now = 0 /\ board = [i \in Ids |-> Vacant]

Post(i) ==
  /\ board[i] = Vacant
  /\ board' = [board EXCEPT ![i] = board'[i]]
  /\ board'[i] \in Paste /\ board'[i].body # "lost"
  /\ UNCHANGED now

LoseArchive(i) ==
  /\ board[i] # Vacant /\ board[i].body = "archive"
  /\ Overdue(board[i]) \/ board[i].told = "failed"
  /\ board' = [board EXCEPT ![i] = [expires |-> @.expires, body |-> "lost",
                                    told |-> @.told]]
  /\ UNCHANGED now

Remove(i) ==
  /\ board[i] # Vacant /\ Overdue(board[i])
  /\ board[i].body # "archive"
  /\ board' = [board EXCEPT ![i] = Vacant]
  /\ UNCHANGED now

Tick == now' = now + 1 /\ UNCHANGED board

Next == Tick \/ \E i \in Ids : Post(i) \/ LoseArchive(i) \/ Remove(i)

Spec == Init /\ [][Next]_bvars
=============================================================================
