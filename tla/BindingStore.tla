---------------------------- MODULE BindingStore ----------------------------
(***************************************************************************)
(* What the tables promise for the key bindings: a set of bindings now in  *)
(* force, of one scene per key, and the set kept for the next start.       *)
(*                                                                         *)
(* After every new binding the kept set is emptied and filled again, one   *)
(* binding at a time and only with bindings in force.  When this completes *)
(* the two sets are equal.  When it is cut short, by an error or because   *)
(* the program starts over, what has been kept by then stays: the old set, *)
(* nothing, or a part of the new one.  There is no page, no order of       *)
(* entries and no count.                                                   *)
(***************************************************************************)
EXTENDS Naturals, FiniteSets

CONSTANTS Keys, KeyScenes,
          Capacity             (* the most bindings there can be           *)

VARIABLES now,  (* the bindings in force                                   *)
          kept, (* the bindings the next start will find                   *)
          save  (* "saved", "erasing", "writing" or "cut"                  *)

vars == <<now, kept, save>>

Init == now = {} /\ kept = {} /\ save = "saved"

\* A key is bound to another scene, or bound for the first time.
Bind(k, v) ==
  LET others == {b \in now : b.key # k} IN
  /\ save \in {"saved", "cut"}
  /\ others # now \/ Cardinality(now) < Capacity
  /\ now' = others \cup {[key |-> k, val |-> v]}
  /\ save' = "erasing"
  /\ UNCHANGED kept

Erase ==
  /\ save = "erasing"
  /\ kept' = {} /\ save' = "writing"
  /\ UNCHANGED now

Write ==
  /\ save = "writing"
  /\ \E b \in now : kept' = kept \cup {b}
  /\ UNCHANGED <<now, save>>

Complete ==
  /\ save = "writing"
  /\ kept \subseteq now /\ kept' = now
  /\ save' = "saved"
  /\ UNCHANGED now

Fail ==
  /\ save \in {"erasing", "writing"}
  /\ save' = "cut"
  /\ UNCHANGED <<now, kept>>

Restart ==
  /\ now' = kept /\ save' = "saved"
  /\ UNCHANGED kept

Next ==
  \/ \E k \in Keys, v \in KeyScenes : Bind(k, v)
  \/ Erase \/ Write \/ Complete \/ Fail \/ Restart

Spec == Init /\ [][Next]_vars
=============================================================================
