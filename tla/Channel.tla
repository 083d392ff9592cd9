------------------------------ MODULE Channel ------------------------------
(***************************************************************************)
(* What class BoundedBuffer promises: a queue of at most N items.  A put   *)
(* appends the item it was called with and a get takes the oldest, each    *)
(* once and in one step between the call and the return.                   *)
(***************************************************************************)
EXTENDS Naturals, Sequences

CONSTANTS N, Items, NoItem, Putters, Getters

VARIABLES
  offer,     \* offer[p]: the argument of a put that has not appended it yet
  channel,   \* the items under way
  out        \* out[g]: what the last get of g returned

vars == <<offer, channel, out>>

Init ==
  /\ offer = [p \in Putters |-> NoItem]
  /\ channel = <<>>
  /\ \E i \in Items : out = [g \in Getters |-> i]

Call(p, i) ==
  /\ offer[p] = NoItem
  /\ offer' = [offer EXCEPT ![p] = i]
  /\ UNCHANGED <<channel, out>>

Put(p) ==
  /\ offer[p] # NoItem
  /\ Len(channel) < N
  /\ channel' = Append(channel, offer[p])
  /\ offer' = [offer EXCEPT ![p] = NoItem]
  /\ UNCHANGED out

Get(g) ==
  /\ channel # <<>>
  /\ channel' = Tail(channel)
  /\ out' = [out EXCEPT ![g] = Head(channel)]
  /\ UNCHANGED offer

Next ==
  \/ \E p \in Putters : Put(p) \/ \E i \in Items : Call(p, i)
  \/ \E g \in Getters : Get(g)

Spec == Init /\ [][Next]_vars
=============================================================================
