---------------------------- MODULE RootHandover ----------------------------
(***************************************************************************)
(* What the cold migration of an instance promises about its root volume:  *)
(* one volume, never copied, that two hosts hand to each other.  A record  *)
(* is the instance entry of a host's Incus daemon.  At most one host runs  *)
(* the guest, only a host with a record can run it, the guest is stopped   *)
(* whenever a second record is made, and the last record is never given up.*)
(***************************************************************************)
EXTENDS FiniteSets

CONSTANTS Hosts,     \* the computes
          Home,      \* the one on which the guest runs at first
          Nobody     \* no host

VARIABLES
    writer,    \* the host on which the guest runs, or Nobody
    records    \* the hosts that hold a record of the instance

vars == <<writer, records>>

Init == writer = Home /\ records = {Home}

Start(h) ==
    /\ writer = Nobody /\ h \in records
    /\ writer' = h /\ UNCHANGED records

Stop(h) ==
    /\ writer = h
    /\ writer' = Nobody /\ UNCHANGED records

\* The record moves while nobody writes the volume it will name.
Receive(h) ==
    /\ writer = Nobody /\ records # {} /\ h \notin records
    /\ records' = records \cup {h} /\ UNCHANGED writer

Forget(h) ==
    /\ writer # h /\ records \ {h} # {}
    /\ records' = records \ {h} /\ UNCHANGED writer

Next == \E h \in Hosts : Start(h) \/ Stop(h) \/ Receive(h) \/ Forget(h)

Spec == Init /\ [][Next]_vars
=============================================================================
