------------------------------ MODULE WorkerPool ------------------------------
(***************************************************************************)
(* AutoDetectServer of fortress-sub.py: at most Slots connections are in   *)
(* worker threads; the accept loop refuses the others and never waits.     *)
(*                                                                         *)
(* The accept loop takes a connection from the listening queue, takes a    *)
(* slot without blocking and starts a thread.  The thread does the TLS     *)
(* handshake and serves the request, both under socket timeouts, and gives *)
(* its slot back in a finally clause.                                      *)
(***************************************************************************)
EXTENDS Integers, FiniteSets

CONSTANTS
  Conns,    \* connections of clients
  NoConn,   \* of an accept loop that has taken none
  Slots,    \* the 64 slots of the semaphore
  Backlog   \* request_queue_size

ASSUME PoolAssumption ==
  /\ IsFiniteSet(Conns) /\ NoConn \notin Conns
  /\ Slots \in Nat \ {0} /\ Backlog \in Nat \ {0}

VARIABLES
  free,  \* the value of the semaphore
  conn,  \* where each connection is
  main   \* the connection process_request is at, or NoConn

poolVars == <<free, conn, main>>

\* Connections whose thread, or whose place in process_request, holds a slot.
Holding == {c \in Conns : conn[c] \in {"spawn", "undo", "handshake", "serve", "release"}}
Queued  == {c \in Conns : conn[c] = "queued"}

-----------------------------------------------------------------------------
PoolInit ==
  /\ free = Slots
  /\ conn = [c \in Conns |-> "closed"]
  /\ main = NoConn

Move(c, place) == conn' = [conn EXCEPT ![c] = place]

Connect(c) ==
  /\ conn[c] = "closed" /\ Cardinality(Queued) < Backlog
  /\ Move(c, "queued")
  /\ UNCHANGED <<free, main>>

Accept ==
  /\ main = NoConn
  /\ \E c \in Queued : Move(c, "accepted") /\ main' = c
  /\ UNCHANGED free

\* slots.acquire(blocking=False)
Acquire ==
  /\ main # NoConn /\ conn[main] = "accepted"
  /\ IF free > 0
       THEN free' = free - 1 /\ Move(main, "spawn") /\ UNCHANGED main
       ELSE Move(main, "closed") /\ main' = NoConn /\ UNCHANGED free

\* ThreadingMixIn.process_request: the thread starts, or cannot.
Spawn ==
  /\ main # NoConn /\ conn[main] = "spawn"
  /\ \/ Move(main, "handshake") /\ main' = NoConn
     \/ Move(main, "undo") /\ UNCHANGED main
  /\ UNCHANGED free

\* Mutant: a thread that did not start keeps its slot.
Undo_KeepsSlot ==
  /\ main # NoConn /\ conn[main] = "undo"
  /\ Move(main, "closed") /\ main' = NoConn
  /\ UNCHANGED free

\* The except clause of process_request.
Undo ==
  /\ main # NoConn /\ conn[main] = "undo"
  /\ free' = free + 1
  /\ Move(main, "closed") /\ main' = NoConn

\* Mutant: a failed handshake ends the thread before the finally clause.
Handshake_NoFinally(c) ==
  /\ conn[c] = "handshake"
  /\ \E place \in {"serve", "closed"} : Move(c, place)
  /\ UNCHANGED <<free, main>>

\* wrap_socket within five seconds: an error or the timeout shuts the request.
Handshake(c) ==
  /\ conn[c] = "handshake"
  /\ \E place \in {"serve", "release"} : Move(c, place)
  /\ UNCHANGED <<free, main>>

\* The handler runs; finished or failed, the request is shut.
Serve(c) ==
  /\ conn[c] = "serve"
  /\ Move(c, "release")
  /\ UNCHANGED <<free, main>>

\* The finally clause of process_request_thread.
Release(c) ==
  /\ conn[c] = "release"
  /\ free' = free + 1
  /\ Move(c, "closed")
  /\ UNCHANGED main

Loop      == Accept \/ Acquire \/ Spawn \/ Undo
Thread(c) == Handshake(c) \/ Serve(c) \/ Release(c)

PoolNext == Loop \/ \E c \in Conns : Connect(c) \/ Thread(c)

PoolSpec == PoolInit /\ [][PoolNext]_poolVars

\* The accept loop and every thread run; the socket timeouts end their waits.
FairPoolSpec == PoolSpec /\ WF_poolVars(Loop) /\ \A c \in Conns : WF_poolVars(Thread(c))

-----------------------------------------------------------------------------
\* Types; the semaphore never exceeds its bound (BoundedSemaphore would raise,
\* in the finally clause of a thread or in the accept loop).
PoolTypeOK ==
  /\ free \in 0 .. Slots
  /\ conn \in [Conns -> {"closed", "queued", "accepted", "spawn", "undo",
                         "handshake", "serve", "release"}]
  /\ main \in Conns \cup {NoConn}

\* No slot leaks and none is given back twice, on any path of success, timeout or
\* failed thread: the free slots and the holders always make up the pool.
SlotsAccounted == free + Cardinality(Holding) = Slots

\* An exhausted pool recovers: a slot comes back although clients keep coming.
PoolRecovers == free = 0 ~> free > 0
=============================================================================
