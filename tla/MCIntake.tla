------------------------------ MODULE MCIntake ------------------------------
(***************************************************************************)
(* The services that take in what sources publish, for TLC: the source     *)
(* registry, incident intelligence and event intelligence.  Each keeps its *)
(* own tables and the raw items of its own sources, so a behaviour is of   *)
(* one of them (focus) and the others stand still.                         *)
(***************************************************************************)
EXTENDS Sources, Incidents, Events

CONSTANTS s1, x1, x2, x3, i1, i2
VARIABLE focus

intakevars == <<focus, fvars, ivars, evars>>
-----------------------------------------------------------------------------
(* Sources: an article, the same under another id, with its text changed,  *)
(* together with an entry that has no link, and a feed with nothing in it. *)
Adapters == (s1 :> "rss_atom")
Documents ==
  LET entry(id, link, text) == [id |-> id, link |-> link, title |-> "t", text |-> text]
  IN { <<entry("a", "u", "x")>>, <<entry("b", "u", "x")>>, <<entry("", "u", "y")>>,
       <<entry("a", "u", "y"), entry("", "", "x")>>, <<>> }
-----------------------------------------------------------------------------
(* Incidents: three items, one article of two sources and two publishers.  *)
Articles == (x1 :> "u") @@ (x2 :> "u") @@ (x3 :> "v")
Families == (x1 :> "herald") @@ (x2 :> "herald") @@ (x3 :> "times")
Reports == (x1 :> {i1}) @@ (x2 :> {i1}) @@ (x3 :> {i1})
Manuals == [k \in DecisionKeys |-> Incident \cap {i2}]
-----------------------------------------------------------------------------
(* Events: clocks go back by two at the instant 4; two sources publish one *)
(* event, the second with a participant more and at a time that comes      *)
(* twice.                                                                  *)
Autumn == [kind |-> "zone", zone |-> [at |-> 4, before |-> 2, after |-> 0]]
Raw(ext, local, people) ==
  [series |-> "bsides", ext |-> ext, name |-> "day", format |-> "in-person", city |-> "c",
   postcode |-> "p", geo |-> FALSE, start |-> [kind |-> "naive", local |-> local],
   people |-> people]
Person(ext, profile) == [ext |-> ext, profile |-> profile, name |-> "ann"]
Raws == (x1 :> Raw("id", 3, {Person("", "")})) @@ (x2 :> Raw("id", 5, {Person("", "p"), Person("", "")}))
OneReuse == {<<"prohibited", TRUE>>}
Reuses == (x1 :> "allowed") @@ (x2 :> "unknown")
Hints == (x1 :> Autumn) @@ (x2 :> Autumn)
-----------------------------------------------------------------------------
IntakeInit ==
  /\ focus \in {"sources", "incidents", "events"}
  /\ SourcesInit /\ IncidentsInit /\ EventsInit

IntakeNext ==
  \/ focus = "sources" /\ SourcesNext /\ UNCHANGED <<focus, ivars, evars>>
  \/ focus = "incidents" /\ IncidentsNext /\ UNCHANGED <<focus, fvars, evars>>
  \/ focus = "events" /\ EventsNext /\ UNCHANGED <<focus, fvars, ivars>>

IntakeSpec == IntakeInit /\ [][IntakeNext]_intakevars

\* Fetcher, IncidentWorker and EventWorker are given the same two workers.
IntakeSymmetry == Permutations(Fetcher) \cup Permutations(EventKeys)
=============================================================================
