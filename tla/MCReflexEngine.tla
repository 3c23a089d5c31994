--------------------------- MODULE MCReflexEngine ---------------------------
(* A small instance of ReflexEngine for TLC. *)
EXTENDS ReflexEngine

CONSTANTS tests, docs, audit

MCListing == <<docs, tests>>

\* A skill and a mechanism behind one command.
MCEntry ==
  [c \in {docs, tests} |->
    [tier |-> IF c = docs THEN "HIGH" ELSE "CRITICAL", command |-> audit,
     mechanism |-> IF c = docs THEN "none" ELSE "reads"]]
=============================================================================
