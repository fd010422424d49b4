------------------------ MODULE MCRealAnalysisJourney ------------------------
(* Small instances of RealAnalysisJourney for TLC. *)
EXTENDS RealAnalysisJourney, TLC

\* Worker slots are interchangeable (used only by runs without liveness).
WorkerSymmetry == Permutations(Workers)

\* The behaviours up to the first claim erased by the write of an older document:
\* all that StrandedAtHandover is about, since lost never shrinks.  Beyond it
\* NeverClaimedAgain is the theorem ClaimedOnce.
NoClaimErased == lost = {}
=============================================================================
