------------------------------ MODULE Companies ------------------------------
(***************************************************************************)
(* Companies shared by all organizations, and which organization works     *)
(* with which (application/companies.py): attached one by one or imported  *)
(* from a CSV file, all rows or none.                                      *)
(*                                                                         *)
(* A request is one transaction: preview and import decide from its        *)
(* snapshot, and a company or relationship that was inserted meanwhile     *)
(* meets a unique key, which rolls everything back.                        *)
(***************************************************************************)
EXTENDS Naturals, FiniteSets, SequencesExt

CONSTANTS
  Domains,
  Organizations,
  SharedValues,   \* what a shared column may be told
  Importers,      \* requests at work at the same time
  MaxImportRows,  \* bound: rows of a file
  MaxImports,     \* bound: requests
  NoCompany, NoValue, NoImport

ImportLine == [domain : Domains, value : SharedValues \cup {NoValue}]

Files == UNION {[1 .. n -> ImportLine] : n \in 1 .. MaxImportRows}

ASSUME CompanyAssumption ==
  /\ {MaxImportRows, MaxImports} \subseteq Nat
  /\ NoCompany \notin SharedValues \cup {NoValue} /\ NoValue \notin SharedValues

VARIABLES
  companies, \* companies[d]: the shared column of d's company, or NoCompany
  attached,  \* <<o, d>>: organization o works with d's company
  importing, \* importing[u]: the open transaction of u, or NoImport
  imports,   \* bound: transactions begun
  told       \* the last committed report, beside what the commit added

companyVars == <<companies, attached, importing, imports, told>>

-----------------------------------------------------------------------------
CompanyInit ==
  /\ companies \in [Domains -> {NoCompany, NoValue}]
  /\ attached = {} /\ imports = 0
  /\ importing = [u \in Importers |-> NoImport]
  /\ told = [report |-> <<0, 0>>, added |-> <<0, 0>>]

BeginImport(u, o, file) ==
  /\ importing[u] = NoImport /\ imports < MaxImports /\ imports' = imports + 1
  /\ importing' = [importing EXCEPT ![u] =
       [owner |-> o, file |-> file, companies |-> companies, attached |-> attached]]
  /\ UNCHANGED <<companies, attached, told>>

(* virtual_new and virtual_attached: what earlier rows will have done.     *)
Earlier(t, n) == {t.file[m].domain : m \in 1 .. n - 1}

AlreadyAttached(t, n) ==
  <<t.owner, t.file[n].domain>> \in t.attached \/ t.file[n].domain \in Earlier(t, n)

(* preview_csv: rows that create a company, and rows that attach one.      *)
ImportReport(t) ==
  LET taken == {n \in DOMAIN t.file : ~AlreadyAttached(t, n)} IN
  <<Cardinality({n \in taken : t.companies[t.file[n].domain] = NoCompany}),
    Cardinality(taken)>>

(* attach_company and what import_csv adds: a new company takes the value, *)
(* one without a value is filled.                                          *)
Filled(C, line) ==
  IF C[line.domain] \in {NoCompany, NoValue} THEN [C EXCEPT ![line.domain] = line.value] ELSE C

Imported(t) ==
  FoldLeftDomain(LAMBDA C, n : IF AlreadyAttached(t, n) THEN C ELSE Filled(C, t.file[n]),
                 t.companies, t.file)

(* The commit: a column is written if it changed.                          *)
LandImport(u) ==
  /\ importing[u] # NoImport
  /\ LET t == importing[u]
         mine == Imported(t)
         links == {<<t.owner, t.file[n].domain>> : n \in DOMAIN t.file}
     IN
     /\ \A d \in Domains :
          t.companies[d] = NoCompany /\ mine[d] # NoCompany => companies[d] = NoCompany
     /\ (links \ t.attached) \cap attached = {}
     /\ companies' = [d \in Domains |-> IF mine[d] = t.companies[d] THEN companies[d]
                                        ELSE mine[d]]
     /\ attached' = attached \cup links
     /\ told' = [report |-> ImportReport(t),
                 added |-> <<Cardinality({d \in Domains : companies[d] = NoCompany
                                                          /\ companies'[d] # NoCompany}),
                             Cardinality(attached' \ attached)>>]
  /\ importing' = [importing EXCEPT ![u] = NoImport]
  /\ UNCHANGED imports

(* attach_company of a request of its own; a known company stays as it is. *)
AttachCompany(o, line) ==
  /\ imports < MaxImports /\ imports' = imports + 1
  /\ companies' = IF companies[line.domain] = NoCompany
                  THEN [companies EXCEPT ![line.domain] = line.value] ELSE companies
  /\ attached' = attached \cup {<<o, line.domain>>}
  /\ UNCHANGED <<importing, told>>

DropImport(u) ==
  /\ importing[u] # NoImport
  /\ importing' = [importing EXCEPT ![u] = NoImport]
  /\ UNCHANGED <<companies, attached, imports, told>>

CompanyNext ==
  \/ \E u \in Importers :
       \/ \E o \in Organizations, file \in Files : BeginImport(u, o, file)
       \/ LandImport(u) \/ DropImport(u)
  \/ \E o \in Organizations, line \in ImportLine : AttachCompany(o, line)

CompanySpec == CompanyInit /\ [][CompanyNext]_companyVars

-----------------------------------------------------------------------------
(* "Existing non-null shared values are never replaced" (companies.py),    *)
(* but by an import whose snapshot did not have the value yet.             *)
SharedValuesStand ==
  [][\A d \in Domains :
       companies[d] \in SharedValues /\ companies'[d] # companies[d]
         => \E u \in Importers :
              /\ importing[u] # NoImport /\ importing'[u] = NoImport
              /\ importing[u].companies[d] = NoValue]_companyVars

(* A report counts what the import did, also of a file that names a domain *)
(* twice and of companies that other organizations brought in before.      *)
ReportIsTrue == told.report = told.added
=============================================================================
