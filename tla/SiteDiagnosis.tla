----------------------------- MODULE SiteDiagnosis -----------------------------
(***************************************************************************)
(* The diagnosis of a site (site_diagnostics_service.py): it reads what is   *)
(* stored of the site in one request, and writes one execution with its      *)
(* findings, or nothing if two occurrences of a finding are equal.           *)
(***************************************************************************)
EXTENDS Naturals, Sequences, FiniteSets

CONSTANTS
    Surveyed,       \* the sites that may be diagnosed
    FamilyOf,       \* of a host, the host without its www
    SectionOf,      \* of a path, its first part
    SimilarPercent, \* of shared words, for near duplicates
    SecurityHeaders,
    Absent,         \* what was not observed, or is not there
    Garbled         \* written, but not an address

\* A page is stored once, under an address of its own, and is of a type of pages.
ASSUME SiteDiagnosisAssumption ==
    /\ Absent \notin Nat /\ "canonical_chain" \notin SecurityHeaders
    /\ \A s \in Surveyed :
          /\ s.pages \in Seq({s.pages[i] : i \in DOMAIN s.pages})
          /\ \A i, j \in DOMAIN s.pages : s.pages[i].at = s.pages[j].at => i = j
          /\ \A i \in DOMAIN s.pages : s.pages[i].type # "canonical_chain"

VARIABLES
    survey,     \* the stored evidence
    diagnosis   \* the stored execution with its findings, or that nothing was stored

diagnosisVars == <<survey, diagnosis>>

\* What the evidence of a site says.
From(s) == INSTANCE SiteFindings WITH survey <- s

DiagnosisWith(surveys) == survey \in surveys /\ diagnosis = Absent
DiagnosisInit == DiagnosisWith(Surveyed)

Diagnose ==
    /\ diagnosis = Absent
    /\ diagnosis' = IF From(survey)!Clash THEN [status |-> "raised"]
                    ELSE [status |-> From(survey)!Completeness, missing |-> From(survey)!Missing,
                          findings |-> From(survey)!Findings]
    /\ UNCHANGED survey

DiagnosisNext == Diagnose
DiagnosisSpec == DiagnosisInit /\ [][DiagnosisNext]_diagnosisVars

-----------------------------------------------------------------------------
(* Properties.                                                              *)

Stored == diagnosis # Absent /\ diagnosis.status # "raised"

\* What a stored diagnosis tells holds of the evidence: absence was observed, orphans are
\* unlinked, circles and groups of copies are told as they are, patterns are shared.
DiagnosisIsSound == Stored => From(survey)!AreSound(diagnosis.findings)

\* Not kept by the code. A page whose canonical target declares itself is reported as a circle
\* (service lines 2230-2246); every link to a page that moved is reported to go round, since its
\* hops begin with its own address; a page of level 2 is reported without a heading, which that
\* level does not store; and one error told twice makes the request raise.
CirclesOnly ==
    Stored => \A i \in From(survey)!ToldAs("canonical_loop", diagnosis.findings) :
                 ~\E j \in From(survey)!SingleTarget(i) : From(survey)!SingleTarget(j) = {j}
MovedIsNoCircle == Stored => From(survey)!ToldAs("internal_redirect_loop", diagnosis.findings) = {}
HeadingsWereSought ==
    Stored => \A i \in From(survey)!Told("missing_h1", diagnosis.findings) :
                 ~From(survey)!HasRun(i) \/ From(survey)!RunOf(i).level = 1
NeverRaises == diagnosis = Absent \/ Stored
=============================================================================
