-------------------------- MODULE MCIngestJournal --------------------------
(* Instances of the ingest queue and its journal for TLC.                   *)
EXTENDS IngestJournal

CONSTANTS b1, b2

TwoBatches == {b1, b2}
=============================================================================
