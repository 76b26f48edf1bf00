-------------------------- MODULE StartupMigration --------------------------
(***************************************************************************)
(* Any number of apis that run all the files at once implement the one      *)
(* sequence of module Migration.                                            *)
(***************************************************************************)
EXTENDS Startup

AtWork == {q \in Slots : request[q] # << >>}

OneByOne == INSTANCE Migration WITH
    up   <- {p \in Apis : stage[p] = "serve"},
    busy <- {by[q] : q \in AtWork}

(* store.go:142 "in filename order ... re-running is safe": whoever else    *)
(* migrates at the same time, loses a deadlock or is killed, the files come *)
(* to be applied in their order, each once and for good, and no api is up   *)
(* or at work before the last one is.                                       *)
ImplementsMigration == OneByOne!Spec
=============================================================================
