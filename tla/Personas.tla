------------------------------- MODULE Personas -------------------------------
(***************************************************************************)
(* A product's target personas (replace_personas in                        *)
(* application/decision_makers.py): a request replaces the whole list, and *)
(* rows that stay may swap names.  Names are unique in the table.  In      *)
(* three flushes the request deletes the rows no item names, parks those   *)
(* that stay under names of their own, and inserts and renames; the        *)
(* statements of one flush come in any order.  Nothing keeps two requests  *)
(* apart: each matches its items with the rows of its own snapshot, its    *)
(* statements meet the rows committed since and wait for the rows and      *)
(* names another open request holds, and it lands when it commits.         *)
(***************************************************************************)
EXTENDS Naturals, Sequences, FiniteSets

CONSTANTS
  PersonaIds,   \* rows of product_personas; also the names they park under
  PersonaNames,
  MaxPersonas,  \* MAX_PERSONAS
  Editors,      \* bound: requests open at a time
  MaxReplaced,  \* bound: requests
  NoPersona, Unwritten, NoReplacement

(* One item of a request: perhaps the id of a row, which may be gone.      *)
PersonaItem == [id : PersonaIds \cup {NoPersona}, name : PersonaNames]

(* Names of one request are distinct.                                      *)
PersonaLists ==
  {items \in UNION {[1 .. n -> PersonaItem] : n \in 0 .. MaxPersonas} :
     \A i, j \in DOMAIN items : items[i].name = items[j].name => i = j}

ASSUME PersonaAssumption ==
  /\ {MaxPersonas, MaxReplaced} \subseteq Nat
  /\ {NoPersona, Unwritten} \cap (PersonaIds \cup PersonaNames) = {}
  /\ NoPersona # Unwritten
  /\ PersonaIds \cap PersonaNames = {} /\ IsFiniteSet(PersonaIds)

(* A table gives every row its name, or NoPersona; names are unique.       *)
PersonaTable == [PersonaIds -> PersonaNames \cup {NoPersona}]

Stored(table) == {i \in PersonaIds : table[i] # NoPersona}

NamesIn(table, rows) == {table[i] : i \in rows}

AllDistinct(table) ==
  \A i, j \in Stored(table) : table[i] = table[j] => i = j

(* A request: the table it read, the name asked for each row of the new    *)
(* list, and what its statements have made of the rows so far.             *)
Replacement ==
  [base : PersonaTable, asked : UNION {[S -> PersonaNames] : S \in SUBSET PersonaIds},
   own : [PersonaIds -> PersonaNames \cup PersonaIds \cup {NoPersona, Unwritten}]]

VARIABLES
  personas,     \* the committed table
  replacement,  \* replacement[u]: the open request of u, or NoReplacement
  landed,       \* history: the last list that landed, and the rows inserted
                \* by others since its request read the table
  refused,      \* history: a request was refused although the table still
                \* was the one it had read
  replaced      \* bound

personaVars == <<personas, replacement, landed, refused, replaced>>

-----------------------------------------------------------------------------
Replacing == {u \in Editors : replacement[u] # NoReplacement}

(* The row of an item: by id, or else by name.                             *)
CandidateRow(item) ==
  IF item.id \in Stored(personas) THEN {item.id}
  ELSE {i \in Stored(personas) : personas[i] = item.name}

(* A row is matched once.                                                  *)
MatchedRow(items, n) ==
  IF \E m \in 1 .. n - 1 : CandidateRow(items[m]) = CandidateRow(items[n]) THEN {}
  ELSE CandidateRow(items[n])

(* Rows whose id nobody has: new rows are born with ids of their own.      *)
FreshRows ==
  {i \in PersonaIds \ Stored(personas) :
     \A u \in Replacing :
       i \notin Stored(replacement[u].base) \cup DOMAIN replacement[u].asked}

(* The request, with a new row for every item that has none.               *)
Matchings(items) ==
  LET choice == [n \in DOMAIN items |->
                   IF MatchedRow(items, n) = {} THEN FreshRows ELSE MatchedRow(items, n)]
  IN {rows \in [DOMAIN items -> PersonaIds] :
        /\ \A n \in DOMAIN items : rows[n] \in choice[n]
        /\ \A m, n \in DOMAIN items : rows[m] = rows[n] => m = n}

AskedOf(items, rows) ==
  [i \in {rows[n] : n \in DOMAIN rows} |->
     items[CHOOSE n \in DOMAIN rows : rows[n] = i].name]

(* What each flush has left to write: rows of the old list that no item    *)
(* names are deleted, the others parked, and then every row gets its name. *)
ToDelete(r) == {i \in Stored(r.base) \ DOMAIN r.asked : r.own[i] = Unwritten}

(* Mutant: rows keep their names until they get their new ones.            *)
NothingToPark(r) == {}

ToPark(r) == {i \in Stored(r.base) \cap DOMAIN r.asked : r.own[i] = Unwritten}

ToName(r) == {i \in DOMAIN r.asked : r.own[i] # r.asked[i]}

(* The table as the statements of u meet it: what is committed, and its    *)
(* own writes.                                                             *)
Met(u) ==
  [i \in PersonaIds |->
     IF replacement[u].own[i] = Unwritten THEN personas[i] ELSE replacement[u].own[i]]

(* Another open request has written row i, or holds the name: it wrote it, *)
(* or has taken it from a row and may yet roll back.                       *)
RowHeld(u, i) == \E v \in Replacing \ {u} : replacement[v].own[i] # Unwritten

NameHeld(u, name) ==
  \E v \in Replacing \ {u} : \E j \in PersonaIds :
    replacement[v].own[j] # Unwritten /\ name \in {replacement[v].own[j], personas[j]}

NameTaken(u, i, name) == \E j \in PersonaIds \ {i} : Met(u)[j] = name

(* A row that was read and is gone: an UPDATE that matches none is fatal.  *)
RowGone(u, i) ==
  i \in Stored(replacement[u].base) /\ personas[i] = NoPersona
  /\ replacement[u].own[i] = Unwritten

-----------------------------------------------------------------------------
PersonaInit ==
  /\ personas \in {t \in PersonaTable : AllDistinct(t)}
  /\ replacement = [u \in Editors |-> NoReplacement]
  /\ landed = [names |-> NamesIn(personas, Stored(personas)), late |-> {}]
  /\ refused = FALSE /\ replaced = 0

MayBegin(u) == u \notin Replacing /\ replaced < MaxReplaced

BeginReplace(u, items, rows) ==
  /\ MayBegin(u) /\ replaced' = replaced + 1
  /\ replacement' = [replacement EXCEPT ![u] =
       [base |-> personas, asked |-> AskedOf(items, rows),
        own |-> [i \in PersonaIds |-> Unwritten]]]
  /\ UNCHANGED <<personas, landed, refused>>

Wrote(u, i, name) ==
  /\ replacement' = [replacement EXCEPT ![u].own[i] = name]
  /\ UNCHANGED <<personas, landed, refused, replaced>>

(* The end of a request.                                                   *)
RolledBack(u) ==
  /\ replacement' = [replacement EXCEPT ![u] = NoReplacement]
  /\ UNCHANGED <<personas, landed, replaced>>

(* A statement gives row i a name: it is written, or the request is        *)
(* refused, with PERSONA_NAME_DUPLICATE or because the row is gone.        *)
Put(u, i, name) ==
  /\ ~RowHeld(u, i) /\ ~NameHeld(u, name)
  /\ IF NameTaken(u, i, name) \/ RowGone(u, i)
     THEN RolledBack(u) /\ refused' = (refused \/ replacement[u].base = personas)
     ELSE Wrote(u, i, name)

(* Deleting a row that is gone is only a warning.                          *)
DeletePersona(u, i) ==
  /\ u \in Replacing /\ i \in ToDelete(replacement[u])
  /\ ~RowHeld(u, i)
  /\ Wrote(u, i, NoPersona)

ParkPersona(u, i) ==
  /\ u \in Replacing /\ ToDelete(replacement[u]) = {}
  /\ i \in ToPark(replacement[u])
  /\ Put(u, i, i)

(* One flush inserts the new rows and renames the others.                  *)
NamePersona(u, i) ==
  /\ u \in Replacing
  /\ ToDelete(replacement[u]) = {} /\ ToPark(replacement[u]) = {}
  /\ i \in ToName(replacement[u])
  /\ Put(u, i, replacement[u].asked[i])

CommitReplace(u) ==
  /\ u \in Replacing
  /\ ToDelete(replacement[u]) = {} /\ ToPark(replacement[u]) = {}
  /\ ToName(replacement[u]) = {}
  /\ personas' = Met(u)
  /\ landed' = [names |-> {replacement[u].asked[i] : i \in DOMAIN replacement[u].asked},
                late |-> Stored(personas) \ Stored(replacement[u].base)]
  /\ replacement' = [replacement EXCEPT ![u] = NoReplacement]
  /\ UNCHANGED <<refused, replaced>>

(* A crash, a lock wait that times out, or the victim of a deadlock.       *)
DropReplace(u) == u \in Replacing /\ RolledBack(u) /\ UNCHANGED refused

PersonaNext ==
  \E u \in Editors :
    \/ /\ MayBegin(u)
       /\ \E items \in PersonaLists : \E rows \in Matchings(items) : BeginReplace(u, items, rows)
    \/ \E i \in PersonaIds :
         DeletePersona(u, i) \/ ParkPersona(u, i) \/ NamePersona(u, i)
    \/ CommitReplace(u) \/ DropReplace(u)

PersonaSpec == PersonaInit /\ [][PersonaNext]_personaVars

-----------------------------------------------------------------------------
(* A list of distinct names is refused only when another request has       *)
(* changed the table since this one read it: however rows swap, pass on or *)
(* give up their names, in any order of a flush's statements, they never   *)
(* collide among themselves.                                               *)
RenamesNeverCollide == ~refused

(* The table is the list the last request to land asked for, but for the   *)
(* rows another request inserted after it had read the table: alone, a     *)
(* request leaves exactly its list, and of two that overlap the later      *)
(* loses none of its own names to the other.                               *)
ListIsWhatWasAsked ==
  NamesIn(personas, Stored(personas) \ landed.late) = landed.names
=============================================================================
