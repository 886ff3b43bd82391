---------------------------- MODULE AbstractStore ----------------------------
(***************************************************************************)
(* What a shared object store promises to the processes that use it: a put *)
(* takes effect at one instant between its call and its answer, a get      *)
(* answers with the content of one instant of the call, and a call that    *)
(* fails may or may not have taken effect. A store that is not atomic may  *)
(* leave an object it is writing damaged, and read a damaged one.          *)
(***************************************************************************)
CONSTANTS
  Clients, Keys,
  Values,    \* what an object may hold
  Damaged,   \* the Values no put was given
  None       \* no object, no content

VARIABLES
  atomic,   \* whether this store is atomic
  object,   \* object[k]: what k holds
  op,       \* op[c]: the call of c in progress
  got,      \* got[c]: the content the call of c stored or met, None before
  outcome   \* outcome[c]: how the last call of c ended

vars == <<atomic, object, op, got, outcome>>

NoOp == [kind |-> "none", key |-> None, data |-> None]
NoOutcome == [status |-> "none", data |-> None]

Init ==
  /\ atomic \in BOOLEAN
  /\ object = [k \in Keys |-> None]
  /\ op = [c \in Clients |-> NoOp] /\ got = [c \in Clients |-> None]
  /\ outcome = [c \in Clients |-> NoOutcome]

Begin(c, call) ==
  /\ op[c] = NoOp
  /\ op' = [op EXCEPT ![c] = call]
  /\ outcome' = [outcome EXCEPT ![c] = NoOutcome]
  /\ UNCHANGED <<atomic, object, got>>
Put(c, k, v) == Begin(c, [kind |-> "put", key |-> k, data |-> v])
Get(c, k) == Begin(c, [kind |-> "get", key |-> k, data |-> None])

End(c, o) ==
  /\ op' = [op EXCEPT ![c] = NoOp] /\ got' = [got EXCEPT ![c] = None]
  /\ outcome' = [outcome EXCEPT ![c] = o]

\* The put takes effect, once; one that has nothing to store never does.
Store(c) ==
  /\ op[c].kind = "put" /\ op[c].data # None /\ got[c] = None
  /\ object' = [object EXCEPT ![op[c].key] = op[c].data]
  /\ got' = [got EXCEPT ![c] = op[c].data]
  /\ UNCHANGED <<atomic, op, outcome>>

\* The get meets the object as it is.
Meet(c) ==
  /\ op[c].kind = "get" /\ object[op[c].key] # None
  /\ got' = [got EXCEPT ![c] = object[op[c].key]]
  /\ UNCHANGED <<atomic, object, op, outcome>>

\* A put answers only when it took effect.
Stored(c) ==
  /\ op[c].kind = "put" /\ got[c] # None
  /\ End(c, [status |-> "nil", data |-> None])
  /\ UNCHANGED <<atomic, object>>

Found(c) ==
  /\ op[c].kind = "get"
  /\ \E d \in ({got[c], object[op[c].key]} \ {None}) \cup (IF atomic THEN {} ELSE Damaged) :
       End(c, [status |-> "nil", data |-> d])
  /\ UNCHANGED <<atomic, object>>

Fails(c) ==
  /\ op[c] # NoOp
  /\ End(c, [status |-> "error", data |-> None]) /\ UNCHANGED <<atomic, object>>
Dies(c) ==
  /\ op[c] # NoOp
  /\ End(c, NoOutcome) /\ UNCHANGED <<atomic, object>>

\* Only a store that is not atomic: the object is damaged on the way.
Damage(c) ==
  /\ ~atomic /\ op[c].kind = "put"
  /\ \E d \in Damaged :
       /\ object' = [object EXCEPT ![op[c].key] = d]
       /\ \E g \in {None, op[c].data} : got' = [got EXCEPT ![c] = g]
  /\ UNCHANGED <<atomic, op, outcome>>

Next ==
  \E c \in Clients :
    \/ \E k \in Keys : Get(c, k) \/ \E v \in Values \cup {None} : Put(c, k, v)
    \/ Store(c) \/ Meet(c) \/ Stored(c) \/ Found(c) \/ Fails(c) \/ Dies(c) \/ Damage(c)

Spec == Init /\ [][Next]_vars
=============================================================================
