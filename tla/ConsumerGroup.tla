----------------------------- MODULE ConsumerGroup -----------------------------
(***************************************************************************)
(* One stream of Valkey with its one consumer group, as the queues of the  *)
(* API use it: XADD, XREADGROUP, XAUTOCLAIM, XACK, and the dead-letter     *)
(* stream. The owner of an entry does not matter to any of the commands;   *)
(* that it may be claimed after its idle time is up to the users.          *)
(***************************************************************************)
EXTENDS Naturals, FiniteSets

CONSTANTS
    MaxEntries,     \* bound: the entries ever added
    MaxDeliveries   \* MAX_DELIVERIES

ASSUME GroupAssumption == MaxEntries \in Nat /\ MaxDeliveries \in Nat \ {0}

VARIABLES
    added,          \* the id of the last entry
    unread,         \* entries that no consumer has read
    deliveries,     \* how often an entry was delivered, 0 unless pending
    dead            \* entries moved to the dead-letter stream

groupVars == <<added, unread, deliveries, dead>>

Entries == 1..MaxEntries
Pending == {e \in Entries : deliveries[e] > 0}

GroupInit ==
    /\ added = 0 /\ unread = {} /\ dead = {}
    /\ deliveries = [e \in Entries |-> 0]

XAdd ==
    /\ added < MaxEntries
    /\ added' = added + 1
    /\ unread' = unread \cup {added + 1}
    /\ UNCHANGED <<deliveries, dead>>

(* The oldest unread entries, at most n of them.                           *)
XReadGroup(es, n) ==
    /\ es # {} /\ es \subseteq unread /\ Cardinality(es) <= n
    /\ \A e \in es, later \in unread \ es : e < later
    /\ unread' = unread \ es
    /\ deliveries' = [e \in Entries |-> IF e \in es THEN 1 ELSE deliveries[e]]
    /\ UNCHANGED <<added, dead>>

(* A claim counts as a delivery.                                           *)
XAutoClaim(es) ==
    /\ es # {} /\ es \subseteq Pending
    /\ deliveries' = [e \in Entries |->
           IF e \in es /\ deliveries[e] < MaxDeliveries THEN deliveries[e] + 1
                                                        ELSE deliveries[e]]
    /\ UNCHANGED <<added, unread, dead>>

XAck(e) ==
    /\ deliveries' = [deliveries EXCEPT ![e] = 0]
    /\ UNCHANGED <<added, unread, dead>>

(* _maybe_dead_letter: an entry that is not pending any more has no count. *)
Spent(e) == deliveries[e] >= MaxDeliveries

DeadLetter(e) ==
    /\ deliveries' = [deliveries EXCEPT ![e] = 0]
    /\ dead' = dead \cup {e}
    /\ UNCHANGED <<added, unread>>
=============================================================================
