----------------------------- MODULE Prospects ------------------------------
(***************************************************************************)
(* Importing a CRM prospect into a sequence (services/sequencing/          *)
(* prospects.py): ask the CRM for the prospect, make its account, contact  *)
(* and CRM target where they are missing, in one transaction, and enroll   *)
(* the contact in a second one.  The lookups go by domain, by address and  *)
(* by the prospect's key; the inserts are refused by the unique keys.      *)
(***************************************************************************)
EXTENDS Naturals, FiniteSets

CONSTANTS
  Prospect,        \* provider_record_id
  CrmAddress,      \* e-mail addresses
  CompanyOf,       \* the domain of an address
  Importer         \* imports that may be under way at once

VARIABLES
  crm,             \* the CRM: the address it has for a prospect
  accounts,        \* domains with an account
  contacts,        \* address -> "none", or who it was imported for, or "other"
  targets,         \* prospect -> address of the contact its CRM target stands for, or "none"
  imports,         \* imports under way
  enrolled,        \* enrollments: target and contact
  moved            \* history: prospects whose address the CRM changed

pvars == <<crm, accounts, contacts, targets, imports, enrolled, moved>>

NoImport == [stage |-> "none"]

ProspectsInit ==
  /\ crm \in [Prospect -> CrmAddress]
  /\ accounts = {}
  /\ contacts = [m \in CrmAddress |-> "none"]
  /\ targets = [p \in Prospect |-> "none"]
  /\ imports = [i \in Importer |-> NoImport]
  /\ enrolled = {}
  /\ moved = {}

\* A person changes employer, or the CRM is corrected; bound: once for each.
CrmChanges(p, m) ==
  /\ crm[p] # m
  /\ p \notin moved
  /\ crm' = [crm EXCEPT ![p] = m]
  /\ moved' = moved \cup {p}
  /\ UNCHANGED <<accounts, contacts, targets, imports, enrolled>>

\* Enrichment finds the same person by itself.
ContactAppears(m) ==
  /\ contacts[m] = "none"
  /\ contacts' = [contacts EXCEPT ![m] = "other"]
  /\ accounts' = accounts \cup {CompanyOf[m]}
  /\ UNCHANGED <<crm, targets, imports, enrolled, moved>>

\* get_prospect, or the search when it answers nothing
ImportAsks(i, p) ==
  /\ imports[i] = NoImport
  /\ imports' = [imports EXCEPT ![i] = [stage |-> "asked", p |-> p, address |-> crm[p]]]
  /\ UNCHANGED <<crm, accounts, contacts, targets, enrolled, moved>>

ImportReads(i) ==
  LET t == imports[i] IN
  /\ t.stage = "asked"
  /\ imports' = [imports EXCEPT ![i] =
       [stage |-> "read", p |-> t.p, address |-> t.address,
        account |-> CompanyOf[t.address] \in accounts,
        contact |-> contacts[t.address] # "none",
        target |-> targets[t.p] # "none"]]
  /\ UNCHANGED <<crm, accounts, contacts, targets, enrolled, moved>>

\* crm-account:<domain>, the address within the account, crm-import-contact:<id>,
\* crm-import-target:<id>
KeysTaken(t) ==
  \/ ~t.account /\ CompanyOf[t.address] \in accounts
  \/ ~t.contact /\ (contacts[t.address] # "none" \/ \E m \in CrmAddress : contacts[m] = t.p)
  \/ ~t.target /\ targets[t.p] # "none"

\* Mutant: one CRM target for everyone of a company.
TargetForCompany(t) ==
  [p \in Prospect |-> IF targets[p] = "none" /\ CompanyOf[crm[p]] = CompanyOf[t.address]
                      THEN t.address ELSE targets[p]]

TargetFor(t) == [targets EXCEPT ![t.p] = IF t.target THEN @ ELSE t.address]

ImportStores(i) ==
  LET t == imports[i] IN
  /\ t.stage = "read"
  /\ ~KeysTaken(t)
  /\ accounts' = accounts \cup {CompanyOf[t.address]}
  /\ contacts' = [contacts EXCEPT ![t.address] = IF t.contact THEN @ ELSE t.p]
  /\ targets' = TargetFor(t)
  /\ imports' = [imports EXCEPT ![i] = [stage |-> "stored", p |-> t.p, address |-> t.address]]
  /\ UNCHANGED <<crm, enrolled, moved>>

\* create_sequence_enrollment with the target and the contact of the first transaction
ImportEnrolls(i) ==
  LET t == imports[i] IN
  /\ t.stage = "stored"
  /\ enrolled' = enrolled \cup {<<t.p, t.address>>}
  /\ imports' = [imports EXCEPT ![i] = NoImport]
  /\ UNCHANGED <<crm, accounts, contacts, targets, moved>>

\* A key is taken, the enrollment is refused, or the process ends: what an earlier
\* transaction committed stays.
ImportEnds(i) ==
  /\ imports[i] # NoImport
  /\ imports' = [imports EXCEPT ![i] = NoImport]
  /\ UNCHANGED <<crm, accounts, contacts, targets, enrolled, moved>>

ProspectsNext ==
  \/ \E p \in Prospect, m \in CrmAddress : CrmChanges(p, m)
  \/ \E m \in CrmAddress : ContactAppears(m)
  \/ \E i \in Importer :
       \/ \E p \in Prospect : ImportAsks(i, p)
       \/ ImportReads(i) \/ ImportStores(i) \/ ImportEnrolls(i) \/ ImportEnds(i)

ProspectsSpec == ProspectsInit /\ [][ProspectsNext]_pvars
-----------------------------------------------------------------------------
\* Whoever an import enrolls is the person the CRM target of the enrollment was exported for,
\* across repeated, overlapping and half-finished imports, unless the CRM gave the prospect
\* another address in between (prospects.py:149-152: the target is found by the prospect
\* alone, the contact by its address).
EnrolledIsTheTarget == \A e \in enrolled : e[1] \in moved \/ targets[e[1]] = e[2]
=============================================================================
