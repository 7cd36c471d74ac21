---------------------------- MODULE OrderedRelay ----------------------------
(***************************************************************************)
(* What every stage of MRTE2 promises (doc/architecture.md): items that    *)
(* enter a flow leave it in the order in which they entered, each at most  *)
(* once, and what has left is never taken back.  Items are the numbers     *)
(* 1, 2, ... in the order of entry.  A stage may lose items; a restartable *)
(* one may be started again, and then has left nothing yet.                *)
(*                                                                         *)
(*   stage          a flow is         in                 out               *)
(*   Collector      a session         its frames sent    frames stored     *)
(*   MongoTailer    the collection    documents stored   documents pushed  *)
(*   Player         a SQLPlayer       documents taken    requests replayed *)
(*   Pipeline       a SQLPlayer       documents stored   requests replayed *)
(***************************************************************************)
EXTENDS Naturals, Sequences

CONSTANTS Flows, Restartable
VARIABLES in, out

vars == <<in, out>>

Init == /\ \A f \in Flows : in[f] \in Nat
        /\ out = [f \in Flows |-> <<>>]

Enter == /\ \A f \in Flows : in'[f] >= in[f]
         /\ UNCHANGED out

(* q has grown into r by items that come after everything in q.            *)
Extends(q, r, top) ==
    /\ Len(q) <= Len(r)
    /\ \A i \in 1 .. Len(q) : r[i] = q[i]
    /\ \A i \in Len(q) + 1 .. Len(r) :
          r[i] <= top /\ \A j \in 1 .. i - 1 : r[j] < r[i]

Leave == /\ \A f \in Flows : Extends(out[f], out'[f], in[f])
         /\ UNCHANGED in

Restart == /\ \E f \in Restartable : out' = [out EXCEPT ![f] = <<>>]
           /\ UNCHANGED in

Next == Enter \/ Leave \/ Restart

Spec == Init /\ [][Next]_vars
=============================================================================
