------------------------------ MODULE UseCases ------------------------------
(***************************************************************************)
(* Use cases in progress.                                                   *)
(*                                                                          *)
(* A use case is an asynchronous function: it reads rows and checks them,   *)
(* then opens a transaction (or sends single statements) that may look      *)
(* again or may not.  Handlers are the requests being served at one time,   *)
(* by any of the API instances; job[h] is the local state of the use case h *)
(* is in.  A use case that reads and writes in one statement, or whose      *)
(* checks cannot be overtaken, is one step and needs no handler.            *)
(*                                                                          *)
(* The modules that extend this one model one component each.               *)
(***************************************************************************)
EXTENDS Integers

CONSTANTS
  Handlers,   \* requests that are served at the same time
  None

ASSUME NoneIsNoHandler == None \notin Handlers

VARIABLES
  job,   \* the local state of each handler, a record whose op names its place
  calm   \* history: no two use cases of this component ever overlapped

Resting == [op |-> "none"]

Idle(h) == job[h] = Resting

At(h, op) == job[h].op = op

NoJobs == job = [h \in Handlers |-> Resting] /\ calm = TRUE

\* A handler enters a use case, or goes on to its next part.
Begin(h, j) ==
  /\ Idle(h)
  /\ job' = [job EXCEPT ![h] = j]
  /\ calm' = (calm /\ \A g \in Handlers \ {h} : Idle(g))

Continue(h, j) == job' = [job EXCEPT ![h] = j] /\ UNCHANGED calm

End(h) == job' = [job EXCEPT ![h] = Resting] /\ UNCHANGED calm

\* A use case of one step: nothing of it is left in progress, but it overlaps
\* with whatever is.
AtOnce == calm' = (calm /\ \A h \in Handlers : Idle(h)) /\ UNCHANGED job

\* The handlers whose job has one of these operations.
Busy(ops) == {h \in Handlers : job[h].op \in ops}
=============================================================================
