------------------------------ MODULE Registers ------------------------------
(***************************************************************************)
(* What the I2EC port promises its clients: the memory of the EC as one    *)
(* array of bytes, each read and written in one step, by one client at a   *)
(* time, while the firmware goes on changing it.                           *)
(***************************************************************************)
CONSTANTS Clients, NoClient, Addresses, Values, NoValue

VARIABLES
  mem,      \* the bytes
  user,     \* the client in session
  answer    \* the last byte each client was given in its session

vars == <<mem, user, answer>>

Begin(c) ==
  /\ user = NoClient
  /\ user' = c
  /\ UNCHANGED <<mem, answer>>

Read(c, a) ==
  /\ user = c
  /\ answer' = [answer EXCEPT ![c] = mem[a]]
  /\ UNCHANGED <<mem, user>>

Write(c, a, v) ==
  /\ user = c
  /\ mem' = [mem EXCEPT ![a] = v]
  /\ UNCHANGED <<user, answer>>

(* A sample is begun anew within the session.                              *)
Again(c) ==
  /\ user = c
  /\ answer' = [answer EXCEPT ![c] = NoValue]
  /\ UNCHANGED <<mem, user>>

End(c) ==
  /\ user = c
  /\ user' = NoClient
  /\ answer' = [answer EXCEPT ![c] = NoValue]
  /\ UNCHANGED mem

Firmware(a, v) ==
  /\ mem' = [mem EXCEPT ![a] = v]
  /\ UNCHANGED <<user, answer>>

Init ==
  /\ mem \in [Addresses -> Values]
  /\ user = NoClient
  /\ answer = [c \in Clients |-> NoValue]

Next ==
  \/ \E c \in Clients : Begin(c) \/ Again(c) \/ End(c)
  \/ \E c \in Clients, a \in Addresses : Read(c, a)
  \/ \E c \in Clients, a \in Addresses, v \in Values : Write(c, a, v)
  \/ \E a \in Addresses, v \in Values : Firmware(a, v)

Spec == Init /\ [][Next]_vars
=============================================================================
