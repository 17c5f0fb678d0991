------------------------------ MODULE Sockets ------------------------------
(***************************************************************************)
(* The life of a SocketBuffer's socket (io/SocketStream.cpp), a TCPSocket  *)
(* (include/TCPSocket.h) or a TLSSocket (io/TLSSocket.cpp), as HTTPClient  *)
(* opens, reopens and drops it.  Resolving, connecting and the handshake   *)
(* fail at any time.  What goes through it is SocketStream's matter.       *)
(***************************************************************************)
EXTENDS Integers, FiniteSets

CONSTANT MaxDescriptors         \* bound on the descriptors ever opened, and
                                \* on the constructors that throw

ASSUME DescriptorAssumption == MaxDescriptors \in Nat

VARIABLES internalSocket,       \* [kind, isClosed, fd]
          descriptors,          \* what the process has open
          contexts,             \* the mbedtls contexts that are not freed
          opened,               \* history: descriptors ever opened
          refused,              \* history: TCP connects that failed
          unseeded              \* history: constructors of TLSSocket that threw

socketVars == <<internalSocket, descriptors, contexts, opened, refused, unseeded>>

NoFd == 0
Socket == [kind : {"none", "tcp", "tls"}, isClosed : BOOLEAN, fd : 0..MaxDescriptors]
NoSocket == [kind |-> "none", isClosed |-> TRUE, fd |-> NoFd]

SocketInit ==
  /\ internalSocket = NoSocket
  /\ descriptors = {} /\ contexts = 0 /\ opened = 0
  /\ refused = 0 /\ unseeded = 0

bufferIsOpen == internalSocket.kind # "none" /\ ~internalSocket.isClosed

(* Mutant: the destructor of a TCPSocket does not close it.                *)
Released_OnlyTls ==
  IF internalSocket.isClosed \/ internalSocket.kind = "tcp" THEN {} ELSE {internalSocket.fd}

(* close and the destructor of the socket there is: what is closed already *)
(* is left alone.                                                          *)
Released == IF internalSocket.isClosed THEN {} ELSE {internalSocket.fd}
Freed == IF internalSocket.kind = "tls" /\ ~internalSocket.isClosed THEN 1 ELSE 0

(***************************************************************************)
(* SocketBuffer::open: the old socket goes, the new one is made and        *)
(* opened; an exception of its open leaves it in its place.                *)
(***************************************************************************)
OpenResult(socket, new, held) ==
  /\ internalSocket' = socket
  /\ descriptors' = (descriptors \ Released) \union new
  /\ contexts' = contexts - Freed + held
  /\ opened' = opened + Cardinality(new)

ResolveFails ==
  /\ OpenResult([kind |-> "tcp", isClosed |-> TRUE, fd |-> NoFd], {}, 0)
  /\ UNCHANGED <<refused, unseeded>>

(* Its call of close does nothing: isClosed is still set.                  *)
ConnectFails ==
  /\ opened < MaxDescriptors
  /\ OpenResult([kind |-> "tcp", isClosed |-> TRUE, fd |-> opened + 1], {opened + 1}, 0)
  /\ refused' = refused + 1 /\ UNCHANGED unseeded

TcpOpens ==
  /\ opened < MaxDescriptors
  /\ OpenResult([kind |-> "tcp", isClosed |-> FALSE, fd |-> opened + 1], {opened + 1}, 0)
  /\ UNCHANGED <<refused, unseeded>>

(* The constructor of a TLSSocket initialises its contexts and throws when *)
(* its generator cannot be seeded.  No destructor runs, so nothing frees   *)
(* them; a socket that was open is closed by then, one that was closed is  *)
(* still in its place.                                                     *)
TlsConstructorThrows ==
  /\ unseeded < MaxDescriptors
  /\ internalSocket' = IF bufferIsOpen THEN NoSocket ELSE internalSocket
  /\ descriptors' = descriptors \ Released
  /\ contexts' = contexts - Freed + 1
  /\ unseeded' = unseeded + 1
  /\ UNCHANGED <<opened, refused>>

(* A TLSSocket is open from its construction on.  net_connect closes what  *)
(* it could not connect; the failure is logged only, and what follows      *)
(* throws, as it does when the configuration, the host name or the         *)
(* handshake fails on a connection that stands.                            *)
TlsFails ==
  /\ \/ OpenResult([kind |-> "tls", isClosed |-> FALSE, fd |-> NoFd], {}, 1)
     \/ /\ opened < MaxDescriptors
        /\ OpenResult([kind |-> "tls", isClosed |-> FALSE, fd |-> opened + 1], {opened + 1}, 1)
  /\ UNCHANGED <<refused, unseeded>>

TlsOpens ==
  /\ opened < MaxDescriptors
  /\ OpenResult([kind |-> "tls", isClosed |-> FALSE, fd |-> opened + 1], {opened + 1}, 1)
  /\ UNCHANGED <<refused, unseeded>>

(* SocketBuffer::close, and ~SocketBuffer and ~Response, which call it; a  *)
(* socket that is not open is kept.                                        *)
BufferClose ==
  /\ bufferIsOpen
  /\ internalSocket' = NoSocket
  /\ descriptors' = descriptors \ Released
  /\ contexts' = contexts - Freed
  /\ UNCHANGED <<opened, refused, unseeded>>

SocketNext ==
  \/ ResolveFails \/ ConnectFails \/ TcpOpens
  \/ TlsConstructorThrows \/ TlsFails \/ TlsOpens \/ BufferClose

SocketSpec == SocketInit /\ [][SocketNext]_socketVars

(***************************************************************************)
(* Properties.                                                             *)
(***************************************************************************)
(* Through any sequence of opens, failures and closes the process holds    *)
(* the one descriptor and the one set of TLS contexts of the socket in     *)
(* use, and besides them what two failures leave, each its own: refused    *)
(* TCP connects a descriptor, TLS constructors that throw their contexts.  *)
OnlyFailedOpensLeak ==
  /\ internalSocket \in Socket
  /\ Cardinality(descriptors) =
       refused + (IF bufferIsOpen /\ internalSocket.fd # NoFd THEN 1 ELSE 0)
  /\ contexts = unseeded + (IF bufferIsOpen /\ internalSocket.kind = "tls" THEN 1 ELSE 0)
  /\ bufferIsOpen => internalSocket.fd \in descriptors \union {NoFd}

(* What a reader expects: nothing but the open socket's is held.           *)
NothingLeaks ==
  /\ descriptors \subseteq {internalSocket.fd}
  /\ ~bufferIsOpen => descriptors = {} /\ contexts = 0
=============================================================================
