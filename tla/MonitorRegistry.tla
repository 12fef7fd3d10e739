--------------------------- MODULE MonitorRegistry ---------------------------
(***************************************************************************)
(* What the clients of the control device may rely on, without handles,    *)
(* locks or the order of the calls into the OS: a row of connectors, each  *)
(* with the cookie it answers to, and the requests in progress.  It is     *)
(* written from the contract in protocol.h, as a few atomic steps, and     *)
(* VddSlots implements it.                                                 *)
(***************************************************************************)
CONSTANTS
  Clients,     \* who may have a request in progress, one each
  Cookies,
  Connectors,
  None

VARIABLES
  registry,    \* per connector: its state and the cookie it answers to
  calls        \* per client: the request in progress

Free == [state |-> "absent", cookie |-> None]
Reserved(c) == [state |-> "reserved", cookie |-> c]
ListedAs(c) == [state |-> "listed", cookie |-> c]

NoCall == [kind |-> "none", place |-> None, cookie |-> None]
Plugging(i, c) == [kind |-> "plug", place |-> i, cookie |-> c]
Unplugging == [kind |-> "unplug", place |-> None, cookie |-> None]

RegistryInit ==
  /\ registry = [i \in Connectors |-> Free]
  /\ calls = [p \in Clients |-> NoCall]

\* The connectors that answer to c, or that anything is on.
Answering(c) == {i \in Connectors : registry[i] \in {Reserved(c), ListedAs(c)}}
Present == {i \in Connectors : registry[i] # Free}

\* PLUG is accepted: a cookie nothing answers to gets a connector of its own.
Reserve(p, c) ==
  /\ calls[p] = NoCall
  /\ Answering(c) = {}
  /\ \E i \in Connectors \ Present :
       /\ registry' = [registry EXCEPT ![i] = Reserved(c)]
       /\ calls' = [calls EXCEPT ![p] = Plugging(i, c)]

\* It ends with a monitor on its connector, whose reservation may by then be
\* that of a later plug,
Arrive(p) ==
  /\ \E i \in Connectors, c \in Cookies :
       /\ \E d \in Cookies : calls[p] = Plugging(i, d)
       /\ registry[i] = Reserved(c)
       /\ registry' = [registry EXCEPT ![i] = ListedAs(c)]
  /\ calls' = [calls EXCEPT ![p] = NoCall]

\* or without one: then it gives back what it reserved, if that is still there,
\* and touches nothing else.
Abandon(p) ==
  /\ \E i \in Connectors, c \in Cookies :
       /\ calls[p] = Plugging(i, c)
       /\ registry' = IF registry[i] = Reserved(c)
                      THEN [registry EXCEPT ![i] = Free] ELSE registry
  /\ calls' = [calls EXCEPT ![p] = NoCall]

\* UNPLUG of one cookie, or of all (a client's, or the watchdog's): everything
\* that answers is gone at once; the request lasts until the OS has been told.
Remove(p, S) ==
  /\ calls[p] = NoCall
  /\ registry' = [i \in Connectors |-> IF i \in S THEN Free ELSE registry[i]]
  /\ calls' = [calls EXCEPT ![p] = Unplugging]

Removed(p) ==
  /\ calls[p] = Unplugging
  /\ calls' = [calls EXCEPT ![p] = NoCall]
  /\ UNCHANGED registry

RegistryNext ==
  \E p \in Clients :
    \/ \E c \in Cookies :
         Reserve(p, c) \/ (Answering(c) # {} /\ Remove(p, Answering(c)))
    \/ Remove(p, Present)
    \/ Arrive(p) \/ Abandon(p) \/ Removed(p)

registryVars == <<registry, calls>>

\* Every request ends.
RegistryFairness ==
  \A p \in Clients : WF_registryVars(Arrive(p) \/ Abandon(p) \/ Removed(p))

RegistrySafety == RegistryInit /\ [][RegistryNext]_registryVars

RegistrySpec == RegistrySafety /\ RegistryFairness
=============================================================================
