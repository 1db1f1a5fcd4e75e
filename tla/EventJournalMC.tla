--------------------------- MODULE EventJournalMC ---------------------------
(* EventJournal instantiated for TLC.                                       *)
EXTENDS EventJournal, TLC

CONSTANTS a, b, mail, audit

(* Both facts are of a kind the topic mail reacts to, audit takes the first. *)
WantsTwo == (mail :> {1, 2}) @@ (audit :> {1})

(* A rolling deploy: the wiring of a does not know audit yet. *)
CarriesRolling == (a :> {mail}) @@ (b :> {mail, audit})
=============================================================================
