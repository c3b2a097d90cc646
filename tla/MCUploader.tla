----------------------------- MODULE MCUploader -----------------------------
(* Uploader for TLC's safety run: events and collectors are interchangeable. *)
EXTENDS Uploader, TLC

Symmetry == Permutations(Event) \cup Permutations(Collector)
=============================================================================
