------------------------------ MODULE Directory ------------------------------
(***************************************************************************)
(* The personnel directory: importing personnel with their chains and      *)
(* accounts from a spreadsheet (services/personnel_import.py), adding them *)
(* one by one (create_personnel), and the catalogue of organisation units, *)
(* whose names personnel rows carry as plain text (routers/org_units.py).  *)
(*                                                                         *)
(* An import reads the tables while it parses the file and writes later:   *)
(* other requests, also those that edit accounts, may commit in between.   *)
(* So may they between the steps of a request that renames or deletes a    *)
(* unit.  A row of a file keeps what its checks tell apart; "sound" stands *)
(* for the fields that are checked on their own (dates, words for yes and  *)
(* no, blanks, the initial password).  A name is a whole organisation      *)
(* unit, site included.                                                    *)
(***************************************************************************)
EXTENDS ChainRules, Sequences, FiniteSets

CONSTANTS
    Codes,           \* personnel codes
    Files,           \* the files that may be uploaded: sequences of rows
    Evaluators,      \* accounts that may be named in a file
    InitialProfile,  \* their role, activity and full name
    ProfilesOf,      \* per account, what an administrator may make of it
    Traceless,       \* accounts without a row in the audit log: they may be deleted
    Imports,         \* import requests
    Editors,         \* requests that rename or delete units
    UnitIds, UnitNames

\* Units of rows are never NULL: the column is not.
ASSUME DirectoryAssumption ==
    /\ \A e \in Evaluators : \A known \in ProfilesOf[e] \cup {InitialProfile[e]} :
          known # None /\ known.role \in Roles /\ known.active \in BOOLEAN
    /\ None \notin Codes \cup Evaluators \cup UnitNames
    /\ \A file \in Files : DOMAIN file \subseteq Nat \ {0} /\ \A n \in DOMAIN file : file[n].unit # None

VARIABLES
    people,      \* per code the personnel row, or None
    profile,     \* per evaluator what his account says, or None
    catalogue,   \* per id of the catalogue the full name of the unit, or None
    upload,      \* per import request: its stage, the rows found valid, the profiles it read
    unit_edit    \* per editor: its stage, the entry, the name it read, the new one (None: delete),
                 \* and the people it found to move

directory_vars == <<people, profile, catalogue, upload, unit_edit>>

no_upload == [stage |-> "none", file |-> <<>>, valid |-> {}, seen |-> None]
unasked == [stage |-> "none", unit |-> None, name |-> None, to |-> None, found |-> {}]

DirectoryInit ==
    /\ people = [p \in Codes |-> None]
    /\ profile = [e \in Evaluators |-> InitialProfile[e]]
    /\ catalogue = [i \in UnitIds |-> None]
    /\ upload = [i \in Imports |-> no_upload]
    /\ unit_edit = [e \in Editors |-> unasked]

enrolled == {p \in Codes : people[p] # None}
usernames == {people[p].username : p \in enrolled} \ {None}
-----------------------------------------------------------------------------
(* A name in a column of the chain: a full name that one active account    *)
(* has, or else the user name of an active account (here, the account).    *)
(* "seen" are the profiles as the import read them.                        *)

active_evaluators(seen) == {e \in Evaluators : seen[e] # None /\ seen[e].active}

matches(seen, written) ==
    LET named == {e \in active_evaluators(seen) : seen[e].full_name = written}
    IN  IF named # {} THEN named ELSE {written} \cap active_evaluators(seen)

resolves(seen, row, seat) ==
    \/ row[seat] = None
    \/ /\ row[seat] # row.full_name
       /\ Cardinality(matches(seen, row[seat])) = 1
       /\ \A e \in matches(seen, row[seat]) : may_act_at(seen[e].role, seat)

seated(seen, row, seat) == IF row[seat] = None THEN None ELSE CHOOSE e \in matches(seen, row[seat]) : TRUE

\* Accounts without a full name are not counted.
ceos(seen) == {e \in active_evaluators(seen) : seen[e].role = "ceo" /\ seen[e].full_name # None}
sole_ceo(seen) == IF Cardinality(ceos(seen)) = 1 THEN CHOOSE e \in ceos(seen) : TRUE ELSE None

\* What is written to evaluation_access: an empty CEO column takes the only CEO there is.
resolved_chain(seen, row) ==
    [unit_supervisor |-> IF row.is_manager THEN None ELSE seated(seen, row, "unit_supervisor"),
     deputy |-> seated(seen, row, "deputy"),
     ceo |-> IF row.ceo = None THEN sole_ceo(seen) ELSE seated(seen, row, "ceo")]

\* Mutant: the seats are compared before the empty CEO column is filled.
resolve_chain_before_filling(seen, row) ==
    /\ \A seat \in Seats : resolves(seen, row, seat)
    /\ ~redundant([resolved_chain(seen, row) EXCEPT !.ceo = seated(seen, row, "ceo")])

resolve_chain(seen, row) ==
    /\ \A seat \in Seats : resolves(seen, row, seat)
    /\ ~redundant(resolved_chain(seen, row))

\* The first row of the file with a code or a user name has it, valid or not.
first_with(file, n, field) == \A m \in 1 .. n - 1 : file[m][field] # file[n][field]

\* Mutant: user names are compared with those in the table, not with the rows above.
row_ok_but_for_rows_above(file, n) ==
    LET row == file[n]
    IN  /\ row.sound
        /\ row.code \notin enrolled /\ first_with(file, n, "code")
        /\ row.username # None => row.username \notin usernames
        /\ resolve_chain(profile, row)

row_ok(file, n) ==
    LET row == file[n]
    IN  /\ row.sound
        /\ row.code \notin enrolled /\ first_with(file, n, "code")
        /\ row.username # None => row.username \notin usernames /\ first_with(file, n, "username")
        /\ resolve_chain(profile, row)

parse_workbook(i, file) ==
    /\ upload[i].stage = "none"
    /\ upload' = [upload EXCEPT ![i] =
          [stage |-> "parsed", file |-> file, valid |-> {n \in DOMAIN file : row_ok(file, n)}, seen |-> profile]]
    /\ UNCHANGED <<people, profile, catalogue, unit_edit>>

personnel_of(row, access) ==
    [full_name |-> row.full_name, username |-> row.username, unit |-> row.unit,
     is_manager |-> row.is_manager, access |-> access]

\* A row without a CEO is added without a chain.
chain_of(seen, row) == IF resolved_chain(seen, row).ceo = None THEN None ELSE resolved_chain(seen, row)

valid_rows(i) == {upload[i].file[n] : n \in upload[i].valid}

\* The chain of a row seats an account that has been deleted.
seats_nobody(seen, row) ==
    /\ chain_of(seen, row) # None
    /\ \E seat \in Seats : LET e == chain_of(seen, row)[seat] IN e # None /\ profile[e] = None

\* Codes and user names are unique columns and seats are foreign keys: the first conflict rolls
\* everything back.
in_conflict(i) ==
    \/ \E row \in valid_rows(i) :
          row.code \in enrolled \/ row.username \in usernames \/ seats_nobody(upload[i].seen, row)
    \/ \E m, n \in upload[i].valid : m # n /\
          \/ upload[i].file[m].code = upload[i].file[n].code
          \/ upload[i].file[m].username = upload[i].file[n].username /\ upload[i].file[m].username # None

\* What was resolved is written as it is: the accounts are not looked at again.
commit_import(i) ==
    /\ upload[i].stage = "parsed"
    /\ IF in_conflict(i)
       THEN /\ upload' = [upload EXCEPT ![i].stage = "rolled_back"]
            /\ UNCHANGED people
       ELSE /\ people' = [p \in Codes |->
                  IF \E row \in valid_rows(i) : row.code = p
                  THEN LET row == CHOOSE row \in valid_rows(i) : row.code = p
                       IN  personnel_of(row, chain_of(upload[i].seen, row))
                  ELSE people[p]]
            /\ upload' = [upload EXCEPT ![i].stage = "done"]
    /\ UNCHANGED <<profile, catalogue, unit_edit>>

\* One person from the form; the chain is set later.
create_personnel(row) ==
    /\ row.sound
    /\ row.code \notin enrolled
    /\ row.username \notin usernames
    /\ people' = [people EXCEPT ![row.code] = personnel_of(row, None)]
    /\ UNCHANGED <<profile, catalogue, upload, unit_edit>>

\* The role, the activity or the name of an evaluator's account is edited, whatever seats he holds.
edit_account(e, new) ==
    /\ profile[e] # None
    /\ profile' = [profile EXCEPT ![e] = new]
    /\ UNCHANGED <<people, catalogue, upload, unit_edit>>

\* An account that a chain refers to is not deleted.
delete_account(e) ==
    /\ profile[e] # None /\ e \in Traceless
    /\ \A p \in enrolled : people[p].access # None => \A seat \in Seats : people[p].access[seat] # e
    /\ profile' = [profile EXCEPT ![e] = None]
    /\ UNCHANGED <<people, catalogue, upload, unit_edit>>
-----------------------------------------------------------------------------
(* The catalogue of units.  Two entries may have the same full name: the   *)
(* unique key is on site and name, and a NULL site equals nothing.         *)
(*                                                                         *)
(* A rename reads the entry without a lock, writes it (which locks the     *)
(* row) and moves the people of the name it read: the UPDATE finds those   *)
(* committed by then, and passes over who has been moved elsewhere when    *)
(* it gets his row.  All of it is committed together, after the audit log  *)
(* let the request in.  A deletion counts the people of the name it read,  *)
(* and deletes the entry as it commits, by its id.                         *)

members(name) == {p \in enrolled : people[p].unit = name}

create_org_unit(i, name) ==
    /\ catalogue[i] = None
    /\ catalogue' = [catalogue EXCEPT ![i] = name]
    /\ UNCHANGED <<people, profile, upload, unit_edit>>

\* The entry is read: to rename it, or with "to" None to delete it.
get_org_unit(e, i, to) ==
    /\ unit_edit[e] = unasked
    /\ catalogue[i] # None /\ to # catalogue[i]
    /\ unit_edit' = [unit_edit EXCEPT ![e] =
          [stage |-> "read", unit |-> i, name |-> catalogue[i], to |-> to, found |-> {}]]
    /\ UNCHANGED <<people, profile, catalogue, upload>>

entry_is_locked(i) == \E e \in Editors : unit_edit[e].stage = "moving" /\ unit_edit[e].unit = i

\* The flush of the new name, which fails if the entry is gone, and the UPDATE of its people.
move_personnel(e) ==
    /\ unit_edit[e].stage = "read" /\ unit_edit[e].to # None
    /\ ~entry_is_locked(unit_edit[e].unit)
    /\ unit_edit' = IF catalogue[unit_edit[e].unit] = None
                    THEN [unit_edit EXCEPT ![e] = unasked]
                    ELSE [unit_edit EXCEPT ![e].stage = "moving", ![e].found = members(unit_edit[e].name)]
    /\ UNCHANGED <<people, profile, catalogue, upload>>

\* Mutant: only the catalogue is renamed.
update_org_unit_alone(e) ==
    /\ unit_edit[e].stage = "moving"
    /\ catalogue' = [catalogue EXCEPT ![unit_edit[e].unit] = unit_edit[e].to]
    /\ unit_edit' = [unit_edit EXCEPT ![e] = unasked]
    /\ UNCHANGED <<people, profile, upload>>

\* Entry and people are committed together.
update_org_unit(e) ==
    /\ unit_edit[e].stage = "moving"
    /\ catalogue' = [catalogue EXCEPT ![unit_edit[e].unit] = unit_edit[e].to]
    /\ people' = [p \in Codes |->
          IF p \in unit_edit[e].found \cap members(unit_edit[e].name)
          THEN [people[p] EXCEPT !.unit = unit_edit[e].to] ELSE people[p]]
    /\ unit_edit' = [unit_edit EXCEPT ![e] = unasked]
    /\ UNCHANGED <<profile, upload>>

\* An entry in use is not deleted.
count_personnel(e) ==
    /\ unit_edit[e].stage = "read" /\ unit_edit[e].to = None
    /\ unit_edit' = IF members(unit_edit[e].name) = {}
                    THEN [unit_edit EXCEPT ![e].stage = "counted"]
                    ELSE [unit_edit EXCEPT ![e] = unasked]
    /\ UNCHANGED <<people, profile, catalogue, upload>>

delete_org_unit(e) ==
    /\ unit_edit[e].stage = "counted"
    /\ ~entry_is_locked(unit_edit[e].unit)
    /\ catalogue' = [catalogue EXCEPT ![unit_edit[e].unit] = None]
    /\ unit_edit' = [unit_edit EXCEPT ![e] = unasked]
    /\ UNCHANGED <<people, profile, upload>>
-----------------------------------------------------------------------------
all_rows == UNION {{file[n] : n \in DOMAIN file} : file \in Files}

DirectoryNext ==
    \/ \E i \in Imports : commit_import(i) \/ \E file \in Files : parse_workbook(i, file)
    \/ \E row \in all_rows : create_personnel(row)
    \/ \E e \in Evaluators : delete_account(e) \/ \E new \in ProfilesOf[e] : edit_account(e, new)
    \/ \E i \in UnitIds, name \in UnitNames : create_org_unit(i, name)
    \/ \E e \in Editors :
          \/ \E i \in UnitIds, to \in UnitNames \cup {None} : get_org_unit(e, i, to)
          \/ move_personnel(e) \/ update_org_unit(e)
          \/ count_personnel(e) \/ delete_org_unit(e)

DirectorySpec == DirectoryInit /\ [][DirectoryNext]_directory_vars
-----------------------------------------------------------------------------
\* A chain that upsert_access would take from accounts such as these: every seat is held by an
\* active account of sufficient rank, none is held twice, and no supervisor is over a manager.
enterable(chain, is_manager, seen) ==
    /\ chain.ceo # None /\ ~redundant(chain)
    /\ is_manager => is_manager_path(chain)
    /\ \A seat \in Seats : chain[seat] # None =>
          /\ seen[chain[seat]] # None /\ seen[chain[seat]].active
          /\ may_act_at(seen[chain[seat]].role, seat)

\* Importing is a second way to write a chain, by rules of its own (_resolve_chain): every
\* chain it has written could have been entered when the file was parsed.  (What becomes of
\* the accounts after that is not looked at, by the import or by the editing of accounts.)
ImportedChainsAreEnterable ==
    \A p \in enrolled : people[p].access # None =>
        \E i \in Imports : /\ upload[i].stage = "done"
                           /\ enterable(people[p].access, people[p].is_manager, upload[i].seen)

\* A slip in one row costs that row only: an import that is rolled back met another request
\* which took a code or a user name, or deleted an account, after the file was parsed (commit_import).
OneBadRowCostsOneRow ==
    [][\A i \in Imports : upload[i].stage # "rolled_back" /\ upload'[i].stage = "rolled_back" =>
          \E row \in valid_rows(i) :
              row.code \in enrolled \/ row.username \in usernames \/ seats_nobody(upload[i].seen, row)]_directory_vars

listed(p) == \E i \in UnitIds : catalogue[i] = people[p].unit

\* Who came into the unit after the request had moved or counted its people.
latecomers(e) == members(unit_edit[e].name) \ unit_edit[e].found

commits(e) == unit_edit[e].stage \in {"moving", "counted"} /\ unit_edit'[e] = unasked

\* Whoever is listed in a unit of the catalogue stays in one, however entries of the same name
\* are renamed, merged and deleted by requests that cross; only a request that was overtaken -
\* its entry was renamed after it had read it, or somebody came into the unit after it had
\* looked for people - may leave somebody behind (update_org_unit, delete_org_unit).
ListedStayListed ==
    [][\A p \in enrolled : listed(p) /\ ~listed(p)' =>
          \E e \in Editors : /\ commits(e)
                             /\ catalogue[unit_edit[e].unit] # unit_edit[e].name \/ latecomers(e) # {}]_directory_vars

\* "So both change together": what update_org_unit says of itself.  A rename takes along
\* whoever is in the unit, but for those who came in under the old name at the last moment.
RenamesTakeTheirPeople ==
    [][\A e \in Editors : unit_edit[e].stage = "moving" /\ commits(e) =>
          \A p \in members(catalogue[unit_edit[e].unit]) \ latecomers(e) :
              people'[p].unit = catalogue'[unit_edit[e].unit]]_directory_vars
=============================================================================
