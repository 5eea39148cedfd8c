----------------------------- MODULE ClientPool -----------------------------
(***************************************************************************)
(* What the tunneler promises to the local clients: an abstract pool of    *)
(* connections.                                                            *)
(*                                                                         *)
(*    idle --> pending --> open --> closing --> idle                       *)
(*                                                                         *)
(* A client is admitted only while no other one is being connected and     *)
(* fewer than MaxClients are open.  Everything else may end at any time    *)
(* and together: a failure, an abort, the end of the tunnel.               *)
(***************************************************************************)
EXTENDS Integers, FiniteSets

CONSTANTS Slot, MaxClients

VARIABLE client            \* Slot -> phase

Phase == {"idle", "pending", "open", "closing"}

Init == client = [f \in Slot |-> "idle"]

In(phases) == {f \in Slot : client[f] \in phases}

HasRoom == In({"pending"}) = {} /\ Cardinality(In({"open"})) < MaxClients

\* A client is accepted; its connection may fail at once.
Admit(f) ==
    /\ client[f] = "idle"
    /\ HasRoom
    /\ \E ph \in {"pending", "closing"} : client' = [client EXCEPT ![f] = ph]

Open(f) ==
    /\ client[f] = "pending"
    /\ client' = [client EXCEPT ![f] = "open"]

Later(from) ==
    CASE from = "idle" -> {"idle"}
      [] from = "closing" -> {"closing", "idle"}
      [] OTHER -> {from, "closing", "idle"}

\* Any connections begin to close, or are gone.
Release ==
    /\ client' \in [Slot -> Phase]
    /\ \A f \in Slot : client'[f] \in Later(client[f])

Next == (\E f \in Slot : Admit(f) \/ Open(f)) \/ Release

Spec == Init /\ [][Next]_client
=============================================================================
