--------------------------------- MODULE Latch ---------------------------------
(***************************************************************************)
(* Connection.close() of src/database.rs: the latch that it swaps and the  *)
(* engine's shutdown behind it.  Each call is a task of a multi-threaded   *)
(* runtime, so each step below can come between any two of another call.   *)
(* Connection conjoins these steps with the operations that the latch      *)
(* gates.                                                                  *)
(***************************************************************************)
EXTENDS Naturals

CONSTANT Closers   \* close() calls that may be outstanding together

VARIABLES
  closed,   \* Connection.closed
  engine,   \* the core: "up", "stopping" (partly shut down) or "down"
  closer,   \* where each close() call is
  answer    \* what it last resolved to: "none", "ok" or "error"

latchVars == <<closed, engine, closer, answer>>

LatchTypeOK ==
  /\ closed \in BOOLEAN
  /\ engine \in {"up", "stopping", "down"}
  /\ closer \in [Closers -> {"idle", "called", "shutting", "unlatching"}]
  /\ answer \in [Closers -> {"none", "ok", "error"}]

(* open() has started the engine and built the connection. *)
LatchInit ==
  /\ closed = FALSE
  /\ engine = "up"
  /\ closer = [k \in Closers |-> "idle"]
  /\ answer = [k \in Closers |-> "none"]

(* close() is called; it may be called again after it resolved. *)
CallClose(k) ==
  /\ closer[k] = "idle"
  /\ closer' = [closer EXCEPT ![k] = "called"]
  /\ answer' = [answer EXCEPT ![k] = "none"]
  /\ UNCHANGED <<closed, engine>>

Resolve(k, a) ==
  /\ closer' = [closer EXCEPT ![k] = "idle"]
  /\ answer' = [answer EXCEPT ![k] = a]

(* Faulty: the latch is set, but its old value is not looked at. *)
LatchFreeBlind == TRUE

(* What self.closed.swap(true) finds. *)
LatchFree == ~closed

(* It was free: this call shuts down. *)
SwapFirst(k) ==
  /\ closer[k] = "called"
  /\ LatchFree
  /\ closed' = TRUE
  /\ closer' = [closer EXCEPT ![k] = "shutting"]
  /\ UNCHANGED <<engine, answer>>

(* It was taken: this call returns Ok at once. *)
SwapTaken(k) ==
  /\ closer[k] = "called"
  /\ closed
  /\ Resolve(k, "ok")
  /\ UNCHANGED <<closed, engine>>

(* The core begins to stop: db.shutdown().await. *)
Stopping(k) ==
  /\ closer[k] = "shutting"
  /\ engine = "up"
  /\ engine' = "stopping"
  /\ UNCHANGED <<closed, closer, answer>>

ShutdownOk(k) ==
  /\ closer[k] = "shutting"
  /\ engine' = "down"
  /\ Resolve(k, "ok")
  /\ UNCHANGED closed

(* The shutdown fails, for instance at the core's own deadline. *)
ShutdownFails(k) ==
  /\ closer[k] = "shutting"
  /\ closer' = [closer EXCEPT ![k] = "unlatching"]
  /\ UNCHANGED <<closed, engine, answer>>

(* Faulty: a failed shutdown leaves the latch set. *)
StoreForgotten == closed

(* self.closed.store(false), and the call rejects. *)
Stored == FALSE

Unlatch(k) ==
  /\ closer[k] = "unlatching"
  /\ closed' = Stored
  /\ Resolve(k, "error")
  /\ UNCHANGED engine

CloseStep(k) ==
  \/ SwapFirst(k) \/ SwapTaken(k)
  \/ Stopping(k) \/ ShutdownOk(k) \/ ShutdownFails(k)
  \/ Unlatch(k)

-----------------------------------------------------------------------------
(* A close() that holds the latch: it is shutting down or giving up. *)
Attempting(k) == closer[k] \in {"shutting", "unlatching"}

(* However many callers race, the core is never asked to shut down by two    *)
(* of them at once.                                                          *)
OneAttempt == \A j, k \in Closers : Attempting(j) /\ Attempting(k) => j = k

(* The latch converges: with no attempt under way, the connection is closed  *)
(* exactly when the engine is down.  So a failed shutdown can be retried,    *)
(* and no failure of one caller undoes what another achieved.                *)
LatchConverges ==
  (\A k \in Closers : ~Attempting(k)) => (closed <=> engine = "down")
=============================================================================
