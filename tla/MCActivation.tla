---------------------------- MODULE MCActivation ----------------------------
(***************************************************************************)
(* From a finding to outreach, for TLC: enrichment, scoring, the review of *)
(* candidates, sequence definitions, the import of prospects, the mailbox  *)
(* and e-mail alerts.  They change no rows of each other, so a behaviour   *)
(* is of one of them (focus) and the others stand still.                   *)
(***************************************************************************)
EXTENDS Governance, Enrichment, Scoring, Alerts, InboundPoll, Definitions, Prospects

CONSTANTS c1, c2, e1, a1
VARIABLE focus

activationvars == <<focus, gvars, evars, svars, avars, ivars, dvars, pvars>>
-----------------------------------------------------------------------------
(* Governance: a contact anybody may approve, and an incident nobody has   *)
(* corroborated.                                                           *)
Candidates ==
  LET clear == [lineage |-> TRUE, origin |-> "event_participant", reuse |-> "permitted",
                suppressed |-> FALSE, basis |-> "given", retention |-> "valid",
                stale |-> FALSE, incident |-> "", method |-> ""]
  IN (c1 :> clear) @@ (c2 :> [clear EXCEPT !.origin = "security_incident"])
BulkOfAll == {{c1, c2}}
-----------------------------------------------------------------------------
(* Enrichment: a participant whose reuse is prohibited, one who may be     *)
(* contacted, a contact of an incident whose company waits for resolution, *)
(* and one whose role is out of scope.                                     *)
Prohibited == [breached |-> FALSE, origin |-> "event_participant", by_hand |-> FALSE,
               lineage |-> TRUE, reuse |-> "prohibited", role |-> "security", domain |-> FALSE,
               case |-> "none", account |-> FALSE, named |-> TRUE]
Permitted == [Prohibited EXCEPT !.reuse = "allowed", !.domain = TRUE, !.role = "unknown"]
Waiting == [Prohibited EXCEPT !.origin = "security_incident", !.case = e1]
OutOfScope == [Prohibited EXCEPT !.origin = "security_incident", !.role = "unknown"]
People == {[c \in {c1} |-> p] : p \in {Prohibited, Permitted, Waiting, OutOfScope}}
Cases == [x \in {e1} |-> [lineage |-> TRUE, matches |-> 2]]
Patterns == [a \in {a1} |-> "first.last"]
Answers == {{"valid"}, {"valid", "catch_all"}, {"invalid"}}
-----------------------------------------------------------------------------
(* Scoring: evidence at the steps of the age scale, once with a            *)
(* corroboration of its own.                                               *)
Clean == [lineage |-> TRUE, origin |-> "security_incident", reuse |-> "", suppressed |-> FALSE,
          basis |-> "given", retention |-> "", stale |-> FALSE, incident |-> "corroborated",
          method |-> "independent_sources"]
Snapshots == {Clean, [Clean EXCEPT !.incident = "", !.method = ""],
              [Clean EXCEPT !.incident = "candidate", !.method = "none"],
              [Clean EXCEPT !.origin = "event_participant", !.reuse = "prohibited"],
              [Clean EXCEPT !.origin = "event_participant", !.stale = TRUE],
              [Clean EXCEPT !.lineage = FALSE]}
Evidences == {[age |-> 7, incident |-> "", method |-> ""], [age |-> 90, incident |-> "", method |-> ""],
              [age |-> 91, incident |-> "corroborated", method |-> ""],
              [age |-> NoAge, incident |-> "", method |-> ""]}
Requests ==
  {[named |-> b, employees |-> IF b THEN 250 ELSE 249, stack |-> TRUE, industry |-> b,
    roleInScope |-> b, context |-> b, signals |-> g, confidence |-> 100, authoritative |-> b,
    sources |-> 2, evidenceIds |-> TRUE, evidence |-> e, snapshot |-> s, maxAge |-> 90]
    : b \in BOOLEAN, g \in {<<-5, 50, 20, 20>>}, e \in Evidences, s \in Snapshots}
-----------------------------------------------------------------------------
(* Prospects: everybody works for one company.  The addresses are alike,   *)
(* so the first prospect starts with the first of them.                    *)
Employers == [m \in CrmAddress |-> "d1"]
-----------------------------------------------------------------------------
ActivationInit ==
  /\ focus \in {"governance", "enrichment", "scoring", "alerts", "mailbox",
                "definitions", "prospects"}
  /\ IF focus = "enrichment" THEN TRUE ELSE payload = [c \in {c1} |-> Permitted]
  /\ crm \in {[p \in Prospect |-> IF p = "p1" THEN "m1" ELSE m] :
               m \in IF focus = "prospects" THEN CrmAddress ELSE {"m1"}}
  /\ GovernanceInit /\ EnrichmentInit /\ ScoringInit
  /\ AlertsInit /\ InboundInit /\ DefinitionsInit /\ ProspectsInit

ActivationNext ==
  \/ /\ focus = "governance" /\ GovernanceNext
     /\ UNCHANGED <<focus, evars, svars, avars, ivars, dvars, pvars>>
  \/ /\ focus = "enrichment" /\ EnrichmentNext
     /\ UNCHANGED <<focus, gvars, svars, avars, ivars, dvars, pvars>>
  \/ /\ focus = "scoring" /\ ScoringNext
     /\ UNCHANGED <<focus, gvars, evars, avars, ivars, dvars, pvars>>
  \/ /\ focus = "alerts" /\ AlertsNext
     /\ UNCHANGED <<focus, gvars, evars, svars, ivars, dvars, pvars>>
  \/ /\ focus = "mailbox" /\ InboundNext
     /\ UNCHANGED <<focus, gvars, evars, svars, avars, dvars, pvars>>
  \/ /\ focus = "definitions" /\ DefinitionsNext
     /\ UNCHANGED <<focus, gvars, evars, svars, avars, ivars, pvars>>
  \/ /\ focus = "prospects" /\ ProspectsNext
     /\ UNCHANGED <<focus, gvars, evars, svars, avars, ivars, dvars>>

ActivationSpec == ActivationInit /\ [][ActivationNext]_activationvars

\* Analyst, Enricher, Scorer, Sender, Poller, Editor and Importer are given the
\* same two workers.
ActivationSymmetry == Permutations(Analyst)
=============================================================================
