------------------------------- MODULE MCNode -------------------------------
(* Constants of the small node instances.                                  *)
EXTENDS Node

Plain ==
  [subcommand |-> FALSE, file |-> "halongbay", id |-> "halongbay",
   force_chain |-> "absent", start_dev |-> FALSE, validator |-> FALSE,
   collator |-> FALSE, keyring |-> FALSE, light |-> FALSE,
   author_id |-> TRUE, sealing |-> "instant"]

\* A full node of the second runtime, a collator, the two ways of sealing in
\* dev mode, chain operations on each spec, and lines that are refused.
Various ==
  {[Plain EXCEPT !.file = "polkasmith", !.id = "pks", !.force_chain = "polkasmith"],
   [Plain EXCEPT !.validator = TRUE],
   [Plain EXCEPT !.start_dev = TRUE, !.collator = TRUE],
   [Plain EXCEPT !.start_dev = TRUE, !.validator = TRUE, !.sealing = "manual"],
   [Plain EXCEPT !.subcommand = TRUE, !.id = "polkafoundry"],
   [Plain EXCEPT !.subcommand = TRUE, !.id = "pkf"],
   [Plain EXCEPT !.force_chain = "polkafoundry"],
   [Plain EXCEPT !.validator = TRUE, !.author_id = FALSE]}

\* Full nodes of both specs, with and without the runtime asked for, and a
\* chain operation.
OfEachSpec ==
  {Plain,
   [Plain EXCEPT !.subcommand = TRUE, !.file = "polkasmith", !.id = "polkasmith"],
   [Plain EXCEPT !.file = "polkasmith", !.id = "pks", !.force_chain = "polkasmith"],
   [Plain EXCEPT !.file = "polkasmith", !.id = "polkasmith"]}
=============================================================================
