---------------------------- MODULE SchemaHistory ----------------------------
(***************************************************************************)
(* What the start-up of any number of backends promises about the schema   *)
(* of the database they share: it grows by one file at a time, the one     *)
(* after the last, run by one backend that needs it, and never back; and a *)
(* backend begins to serve only when the files of its release are all in   *)
(* the schema and somebody can log in.  Migrate implements it with schema  *)
(* the versions in schema_migrations and runner the holder of its lock.    *)
(***************************************************************************)
EXTENDS Naturals

CONSTANTS Procs, Nobody, Latest, Release

VARIABLES
    schema,    \* the files applied
    runner,    \* the backend whose file runs now
    up,        \* the backends that serve
    account    \* somebody can log in

vars == <<schema, runner, up, account>>

Init ==
    /\ schema \in {1..n : n \in 0..Latest}
    /\ runner = Nobody
    /\ up = {}
    /\ account \in BOOLEAN

\* The file after the last one begins to run, for a backend of a release that carries it.
Begin(p) ==
    /\ runner = Nobody
    /\ \E f \in 1..Release[p] : schema = 1..(f - 1)
    /\ p \notin up
    /\ runner' = p
    /\ UNCHANGED <<schema, up, account>>

Complete ==
    /\ runner # Nobody
    /\ \E f \in 1..Release[runner] : schema = 1..(f - 1) /\ schema' = 1..f
    /\ runner' = Nobody
    /\ UNCHANGED <<up, account>>

Fail ==
    /\ runner # Nobody
    /\ runner' = Nobody
    /\ UNCHANGED <<schema, up, account>>

Serve(p) ==
    /\ p # runner
    /\ 1..Release[p] \subseteq schema
    /\ up' = up \union {p}
    /\ account' = TRUE
    /\ UNCHANGED <<schema, runner>>

Stop(p) ==
    /\ up' = up \ {p}
    /\ UNCHANGED <<schema, runner, account>>

Next == Complete \/ Fail \/ \E p \in Procs : Begin(p) \/ Serve(p) \/ Stop(p)

Spec == Init /\ [][Next]_vars
=============================================================================
