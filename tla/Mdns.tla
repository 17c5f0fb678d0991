-------------------------------- MODULE Mdns --------------------------------
(***************************************************************************)
(* MDNSService: registerService, one call at a time under registerMutex,   *)
(* and unregisterService, which takes no lock, on Linux with and without   *)
(* Avahi and on Windows.  The servers are external.                        *)
(***************************************************************************)
EXTENDS Integers, FiniteSets

CONSTANTS Service,          (* the services an application registers        *)
          Fallback,         (* whether Avahi may fail where it is built in  *)
          Overlap,          (* whether registering and leaving may overlap  *)
          Wrap              (* number of values of a size_t                 *)

ASSUME MdnsAssumption ==
  /\ IsFiniteSet(Service)
  /\ Wrap \in Nat /\ Wrap > 2 * Cardinality(Service)

Builds == {"linux", "avahi", "windows"}

VARIABLES build,
          server,           (* mdnsServer: 0 is null, n the n-th started    *)
          client,           (* avahiClient, likewise                        *)
          stopped,          (* the servers and clients stopped              *)
          started,          (* how many were started                        *)
          instances,
          registerMutex,
          state,            (* of each service                              *)
          on                (* the server or client a service is on         *)

mdnsVars ==
  <<build, server, client, stopped, started, instances, registerMutex, state, on>>

Null == 0
Unheld == 0

MdnsInit ==
  /\ build \in Builds
  /\ server = Null /\ client = Null /\ stopped = {} /\ started = 0
  /\ instances = 0 /\ registerMutex = Unheld
  /\ state = [s \in Service |-> "new"] /\ on = [s \in Service |-> Null]

Become(s, to) == state' = [state EXCEPT ![s] = to]
In(s, from) == state[s] = from

Leaving == {s \in Service : state[s] \in {"removed", "last"}}
Entering == {s \in Service : state[s] \in {"entered", "served"}}

(***************************************************************************)
(* registerService                                                         *)
(***************************************************************************)
Enter(s) ==
  /\ In(s, "new") /\ registerMutex = Unheld
  /\ Overlap \/ Leaving = {}
  /\ registerMutex' = s /\ Become(s, "entered")
  /\ UNCHANGED <<build, server, client, stopped, started, instances, on>>

(* Avahi's client, made if there is none, and a group on it.  Its service  *)
(* is not counted as an instance.                                          *)
RegisterAvahi(s) ==
  /\ In(s, "entered") /\ build = "avahi"
  /\ client' = IF client = Null THEN started + 1 ELSE client
  /\ started' = IF client = Null THEN started + 1 ELSE started
  /\ on' = [on EXCEPT ![s] = client']
  /\ Become(s, "group") /\ registerMutex' = Unheld
  /\ UNCHANGED <<build, server, stopped, instances>>

(* The built-in server, if Avahi fails or is not there.  Windows asserts   *)
(* that it starts; it is not modelled that it does not.                    *)
StartServer(s) ==
  /\ In(s, "entered") /\ (build = "avahi" => Fallback)
  /\ \/ server # Null /\ Become(s, "served") /\ UNCHANGED <<server, started>>
     \/ /\ server = Null /\ server' = started + 1 /\ started' = started + 1
        /\ Become(s, "served")
     \/ server = Null /\ build # "windows" /\ Become(s, "failed") /\ UNCHANGED <<server, started>>
  /\ registerMutex' = IF state'[s] = "failed" THEN Unheld ELSE s
  /\ UNCHANGED <<build, client, stopped, instances, on>>

(* mdnsd_register_svc, which may fail.                                     *)
RegisterService(s) ==
  /\ In(s, "served") /\ registerMutex' = Unheld
  /\ \/ /\ Become(s, "service") /\ on' = [on EXCEPT ![s] = server]
        /\ instances' = (instances + 1) % Wrap
     \/ Become(s, "failed") /\ UNCHANGED <<on, instances>>
  /\ UNCHANGED <<build, server, client, stopped, started>>

(***************************************************************************)
(* unregisterService.  The pointer to the group is never set in a service  *)
(* of the built-in server: it may be taken for one, which is not modelled. *)
(***************************************************************************)
MayLeave == Overlap \/ Entering = {}

(* Mutant: the service is counted out before it is removed.                *)
RemoveService_CountedFirst(s) ==
  /\ state[s] \in {"service", "group"} /\ MayLeave
  /\ instances' = (instances - 1) % Wrap
  /\ Become(s, IF instances' = 0 THEN "last" ELSE "service")
  /\ UNCHANGED <<build, server, client, stopped, started, registerMutex, on>>

RemoveService(s) ==
  /\ state[s] \in {"service", "group"} /\ MayLeave
  /\ Become(s, "removed")
  /\ UNCHANGED <<build, server, client, stopped, started, instances, registerMutex, on>>

Decrement(s) ==
  /\ In(s, "removed")
  /\ instances' = (instances - 1) % Wrap
  /\ Become(s, IF instances' = 0 THEN "last" ELSE "gone")
  /\ UNCHANGED <<build, server, client, stopped, started, registerMutex, on>>

Stop(s) ==
  /\ In(s, "last") /\ Become(s, "gone")
  /\ stopped' = stopped \union ((IF build = "avahi" THEN {client} ELSE {server}) \ {Null})
  /\ IF build = "avahi" THEN client' = Null /\ UNCHANGED server
     ELSE server' = Null /\ UNCHANGED client
  /\ UNCHANGED <<build, started, instances, registerMutex, on>>

Registering == \E s \in Service : Enter(s) \/ RegisterAvahi(s) \/ StartServer(s) \/ RegisterService(s)
Unregistering == \E s \in Service : RemoveService(s) \/ Decrement(s) \/ Stop(s)

MdnsNext == Registering \/ Unregistering

(***************************************************************************)
(* Properties.                                                             *)
(***************************************************************************)
(* A service that was not removed is on a server that was not stopped:     *)
(* whatever the order in which several services leave, the last one stops  *)
(* it.                                                                     *)
ServersLive ==
  \A s \in Service : state[s] \in {"service", "group"} => on[s] \notin stopped

(* Once every service has gone the built-in server is stopped, unless a    *)
(* registration failed: the server it started stays, with no service.      *)
StoppedWithTheLast ==
  build # "avahi" /\ (\A s \in Service : state[s] \in {"new", "gone"}) => server = Null

(* The server the services share is there as long as one of them is, and no*)
(* longer.                                                                 *)
ServerStaysForServices == ServersLive /\ StoppedWithTheLast

(* The same of Avahi's client.  Not so: its services are not counted in.   *)
ClientFreedWithTheLast ==
  build = "avahi" /\ (\A s \in Service : state[s] \in {"new", "gone"}) => client = Null
=============================================================================
