------------------------------ MODULE Requests ------------------------------
(***************************************************************************)
(* Requests as every handler of the API serves them: a worker reads rows,  *)
(* decides, and commits later through a session of its own                 *)
(* (app/database.py, get_db).  A module of handlers extends this one, adds *)
(* its tables, and gives each handler a step for what it reads and a step  *)
(* for each of its commits.                                                *)
(*                                                                         *)
(* A workload says which handlers are in use and whether their requests    *)
(* overlap; an instance checks several, each from its own initial state.   *)
(***************************************************************************)
EXTENDS Integers, Sequences, FiniteSets

CONSTANTS
    Workers,      \* requests that may be in flight at once
    Workloads,    \* the workloads of the instance
    None          \* no request

ASSUME WorkloadAssumption ==
    \A l \in Workloads : l.overlap \in BOOLEAN /\ l.fails \in BOOLEAN

VARIABLES
    load,         \* the workload, which never changes
    pc,           \* where each worker's request stands
    job           \* what its session holds

requests == <<load, pc, job>>

RequestsInit ==
    /\ load \in Workloads
    /\ pc = [w \in Workers |-> "idle"]
    /\ job = [w \in Workers |-> None]

Uses(handler) == handler \in load.uses

Busy(w) == pc[w] # "idle"

\* A request for the handler may be served now.
Served(handler) ==
    /\ Uses(handler)
    /\ load.overlap \/ \A w \in Workers : ~Busy(w)

\* It reaches a worker; a handler of one step needs none.
Ready(w, handler) == ~Busy(w) /\ Served(handler)

Goto(w, phase, j) ==
    /\ pc' = [pc EXCEPT ![w] = phase]
    /\ job' = [job EXCEPT ![w] = j]
    /\ UNCHANGED load

Respond(w) == Goto(w, "idle", None)

\* A request dies between two steps; what it has not committed is rolled back.
Die(w) ==
    /\ load.fails
    /\ Busy(w)
    /\ Respond(w)

-----------------------------------------------------------------------------
(* Rows as a session sees them.                                            *)

\* A record with the fields that set names replaced.
Overlay(r, set) == [f \in DOMAIN r |-> IF f \in DOMAIN set THEN set[f] ELSE r[f]]

\* Mutant: an UPDATE of every column, with the values the session read.
WrittenWhole(current, seen, set) == Overlay(seen, set)

\* An UPDATE leaves out a column whose new value is the one the session read.
Written(current, seen, set) ==
    [f \in DOMAIN current |->
        IF f \in DOMAIN set /\ set[f] # seen[f] THEN set[f] ELSE current[f]]
=============================================================================
