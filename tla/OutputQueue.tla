----------------------------- MODULE OutputQueue -----------------------------
(***************************************************************************)
(* What the decoder promises about its pictures, whatever the number of    *)
(* frames decoded at once: a queue.  A unit that has a picture joins the   *)
(* queue in the order in which it was sent; decoding decides whether it is *)
(* worth showing; only the oldest leaves, to the client if it is worth     *)
(* showing and to nowhere if it is not.  The client gets an error instead  *)
(* when no copy can be made of the picture for it.  A flush empties the    *)
(* queue.                                                                  *)
(***************************************************************************)
EXTENDS Integers, Sequences

CONSTANT Units    \* the units that can be sent: numbers, in that order

VARIABLES
  queue,     \* units whose pictures are waiting
  verdict,   \* of each unit: "none" until it joins, then whether to show it
  outputs,   \* units whose pictures the client has got, in that order
  uncopied   \* units for which it has got an error instead

vars == <<queue, verdict, outputs, uncopied>>

Oldest(u) == u \in queue /\ \A v \in queue : u <= v

Init ==
  /\ queue = {}
  /\ verdict = [u \in Units |-> "none"]
  /\ outputs = <<>> /\ uncopied = {}

\* Everything that may be the queue once a unit that is not to be shown has
\* left it, if the oldest is such a unit.
Skipped == {queue} \cup {queue \ {u} : u \in {w \in queue : Oldest(w) /\ verdict[w] = "skip"}}

\* A unit newer than all before joins; it need not wait if it is not to be shown.
Accept(u) ==
  /\ \A v \in Units : verdict[v] # "none" => v < u
  /\ \E v \in {"pending", "show", "skip"} :
       /\ verdict' = [verdict EXCEPT ![u] = v]
       /\ \E q \in Skipped : queue' = q \cup {u} \/ (v = "skip" /\ queue' = q)
  /\ UNCHANGED <<outputs, uncopied>>

\* The decoding of a frame ends: all units that show it are decided.
Decide ==
  /\ \E S \in SUBSET {u \in Units : verdict[u] = "pending"}, v \in {"show", "skip"} :
       verdict' = [u \in Units |-> IF u \in S THEN v ELSE verdict[u]]
  /\ UNCHANGED <<queue, outputs, uncopied>>

Skip ==
  /\ queue' \in Skipped
  /\ UNCHANGED <<verdict, outputs, uncopied>>

Deliver(u) ==
  /\ Oldest(u) /\ verdict[u] = "show"
  /\ queue' = queue \ {u}
  /\ outputs' = Append(outputs, u)
  /\ UNCHANGED <<verdict, uncopied>>

Refuse(u) ==
  /\ Oldest(u) /\ verdict[u] = "show"
  /\ queue' = queue \ {u}
  /\ uncopied' = uncopied \cup {u}
  /\ UNCHANGED <<verdict, outputs>>

Flush ==
  /\ queue' = {}
  /\ verdict' = [u \in Units |-> IF verdict[u] = "none" THEN "none" ELSE "skip"]
  /\ UNCHANGED <<outputs, uncopied>>

Next ==
  \/ \E u \in Units : Accept(u) \/ Deliver(u) \/ Refuse(u)
  \/ Decide \/ Skip \/ Flush

Spec == Init /\ [][Next]_vars
=============================================================================
