---------------------------- MODULE PeopleProofs ----------------------------
(***************************************************************************)
(* Who is in the system and what they may do.                              *)
(*                                                                         *)
(* Administration, for every set of users and capabilities: where the      *)
(* power to grant comes from, and that granting does not lose it.  Both    *)
(* rest on what a request under way remembers of the state in which it was *)
(* checked (Vouched).                                                      *)
(*                                                                         *)
(* Directory, for every set of codes, files and units: imported chains are *)
(* enterable, a bad row costs that row only, and who is listed stays       *)
(* listed.  The first two rest on what a file keeps of its checks until it *)
(* is committed (Checked).                                                 *)
(***************************************************************************)
EXTENDS Administration, Directory, FiniteSetTheorems, TLAPS

Right == [holder : People, capability : Capabilities, by : People \cup {Nobody}]
Request == [whom : People, held : SUBSET Capabilities, give : SUBSET Capabilities,
            take : SUBSET Capabilities, relies_on : SUBSET People]
Person == [role : Staffers \cup {Nobody}, active : BOOLEAN]

\* Every table keeps its type.
AdminTypeOK ==
    /\ person \in [People -> Person]
    /\ rights \subseteq Right
    /\ logged \subseteq People
    /\ granting \in [People -> Request \cup {no_request}]

\* A request under way was made by somebody who could grant; and if it takes that power away,
\* it relies on another holder.
Vouched == \A a \in People : granting[a] # no_request =>
    /\ "manage_capabilities" \in granting[a].held
    /\ "manage_capabilities" \in granting[a].take =>
          granting[a].relies_on # {} /\ granting[a].whom \notin granting[a].relies_on

\* Who holds a capability is written in user_capabilities.
LEMMA Holding ==
    ASSUME NEW u, NEW capability
    PROVE  capability \in capabilities_of(u) <=> \E g \in rights : g.holder = u /\ g.capability = capability
BY DEF capabilities_of

\* Capabilities that are held are capabilities of the system.
LEMMA HeldTyped ==
    ASSUME AdminTypeOK, NEW u PROVE capabilities_of(u) \subseteq Capabilities
BY DEF AdminTypeOK, Right, capabilities_of

\* The rows that a grant inserts are well formed.
LEMMA GivenTyped ==
    ASSUME NEW u \in People, NEW capabilities \in SUBSET Capabilities, NEW by \in People \cup {Nobody}
    PROVE  rights_of(u, capabilities, by) \subseteq Right
BY DEF rights_of, Right

\* A request that has passed the checks is well formed, and vouched for by the state it saw.
LEMMA RequestMade ==
    ASSUME AdminTypeOK, NEW a \in People, NEW u \in People, NEW desired \in SUBSET Capabilities,
           begin_set_capabilities(a, u, desired)
    PROVE  LET new == grant_request(a, u, desired)
           IN  /\ new \in Request
               /\ "manage_capabilities" \in new.held
               /\ "manage_capabilities" \in new.take => new.relies_on # {} /\ new.whom \notin new.relies_on
<1> DEFINE new == grant_request(a, u, desired)
           others == IF "manage_capabilities" \in capabilities_of(u) \ desired THEN active_holders \ {u} ELSE {}
<1>1. others \in SUBSET People
  BY DEF active_holders
<1>2. new = [whom |-> u, held |-> capabilities_of(a), give |-> desired \ capabilities_of(u),
             take |-> capabilities_of(u) \ desired, relies_on |-> others]
  BY DEF grant_request
<1>3. capabilities_of(a) \subseteq Capabilities /\ capabilities_of(u) \subseteq Capabilities
  BY HeldTyped
<1>4. "manage_capabilities" \in capabilities_of(a)
  BY DEF begin_set_capabilities, require_capability
<1>5. "manage_capabilities" \in capabilities_of(u) \ desired => others # {} /\ u \notin others
  BY DEF begin_set_capabilities
<1> HIDE DEF others
<1>6. new \in Request
  BY <1>1, <1>2, <1>3 DEF Request
<1> HIDE DEF new
<1> QED
  BY <1>2, <1>4, <1>5, <1>6 DEF new
-----------------------------------------------------------------------------
\* A request under way is a request: no user is Nobody.
LEMMA RequestsDiffer == no_request \notin Request
<1>1. \A new \in Request : new.whom # no_request.whom
  BY AdministrationAssumption DEF Request, no_request
<1> QED
  BY <1>1

\* The tables of users and rights keep their type.
LEMMA AdminTypeStep ==
    ASSUME AdminTypeOK, [AdminNext]_admin_vars PROVE AdminTypeOK'
<1> USE DEF AdminTypeOK
<1>1. ASSUME NEW a \in People, NEW u \in People, NEW desired \in SUBSET Capabilities,
             begin_set_capabilities(a, u, desired)
      PROVE  AdminTypeOK'
  BY <1>1, RequestMade DEF begin_set_capabilities
<1>2. \A u \in People : apply_default_hr_capabilities(u) \subseteq Right
  <2>1. DefaultHR \in SUBSET Capabilities
    BY AdministrationAssumption
  <2> QED
    BY <2>1, GivenTyped DEF apply_default_hr_capabilities
<1>3. ASSUME NEW a \in People, NEW u \in People, NEW role \in Staffers, add_user(a, u, role)
      PROVE  AdminTypeOK'
  <2>1. [role |-> role, active |-> TRUE] \in Person
    BY DEF Person
  <2> QED
    BY <1>2, <1>3, <2>1 DEF add_user
<1>4. ASSUME NEW a \in People, NEW u \in People, NEW role \in Staffers, NEW active \in BOOLEAN,
             edit_user(a, u, role, active)
      PROVE  AdminTypeOK'
  <2>1. [role |-> role, active |-> active] \in Person
    BY DEF Person
  <2> QED
    BY <1>2, <1>4, <2>1 DEF edit_user
<1>5. no_row \in Person
  BY DEF no_row, Person
<1>6. ASSUME NEW a \in People, NEW u \in People, delete_user(a, u) PROVE AdminTypeOK'
  BY <1>5, <1>6 DEF delete_user
<1>7. ASSUME NEW a \in People, commit_set_capabilities(a) PROVE AdminTypeOK'
  <2>1. granting[a] \in Request
    BY <1>7 DEF commit_set_capabilities
  <2>2. with_request(granting[a], a) \subseteq Right
    BY <2>1, GivenTyped DEF with_request, Request
  <2> QED
    BY <1>7, <2>2 DEF commit_set_capabilities
<1>8. ASSUME NEW a \in People, act(a) PROVE AdminTypeOK'
  BY <1>8 DEF act
<1>9. CASE ensure_bootstrap_admin
  <2>1. PICK u \in People :
          /\ person' = [person EXCEPT ![u] = [role |-> "support", active |-> TRUE]]
          /\ rights' = rights \cup rights_of(u, Capabilities, Nobody)
    BY <1>9 DEF ensure_bootstrap_admin
  <2>2. [role |-> "support", active |-> TRUE] \in Person
    BY AdministrationAssumption DEF Person
  <2>3. rights_of(u, Capabilities, Nobody) \subseteq Right
    BY GivenTyped
  <2> QED
    BY <1>9, <2>1, <2>2, <2>3 DEF ensure_bootstrap_admin
<1>10. CASE UNCHANGED admin_vars
  BY <1>10 DEF admin_vars
<1> QED
  BY <1>1, <1>3, <1>4, <1>6, <1>7, <1>8, <1>9, <1>10 DEF AdminNext

\* Requests remain vouched for: what a request remembers does not change until it ends.
LEMMA VouchedStep ==
    ASSUME AdminTypeOK, Vouched, [AdminNext]_admin_vars PROVE Vouched'
<1>1. ASSUME NEW a \in People, NEW u \in People, NEW desired \in SUBSET Capabilities,
             begin_set_capabilities(a, u, desired)
      PROVE  Vouched'
  BY <1>1, RequestMade DEF begin_set_capabilities, AdminTypeOK, Vouched
<1>2. ASSUME NEW a \in People, commit_set_capabilities(a) PROVE Vouched'
  BY <1>2 DEF commit_set_capabilities, AdminTypeOK, Vouched
<1>3. CASE granting' = granting
  BY <1>3 DEF Vouched
<1> QED
  BY <1>1, <1>2, <1>3 DEF AdminNext, add_user, edit_user, delete_user, act, ensure_bootstrap_admin, admin_vars

\* Users, rights and requests under way keep their shape, and every request under way was made
\* by a holder of the power to grant.
THEOREM RequestsVouched == AdminSpec => [](AdminTypeOK /\ Vouched)
<1>1. AdminInit => AdminTypeOK /\ Vouched
  <2> SUFFICES ASSUME AdminInit PROVE AdminTypeOK /\ Vouched
    OBVIOUS
  <2>1. logged \subseteq People /\ granting \in [People -> Request \cup {no_request}] /\ Vouched
    BY DEF AdminInit, Vouched
  <2>2. CASE person = [u \in People |-> no_row] /\ rights = {}
    BY <2>1, <2>2 DEF AdminTypeOK, Person, no_row
  <2>3. ASSUME NEW first \in People, NEW role \in Staffers,
               person = [u \in People |-> IF u = first THEN [role |-> role, active |-> TRUE] ELSE no_row],
               rights = rights_of(first, Capabilities, Nobody)
        PROVE  person \in [People -> Person] /\ rights \subseteq Right
    <3>1. no_row \in Person /\ [role |-> role, active |-> TRUE] \in Person
      BY DEF Person, no_row
    <3> QED
      BY <2>3, <3>1, GivenTyped
  <2> QED
    BY <2>1, <2>2, <2>3 DEF AdminInit, AdminTypeOK
<1> QED
  BY <1>1, AdminTypeStep, VouchedStep, PTL DEF AdminSpec
-----------------------------------------------------------------------------
\* Only the end of a request ends a request.
LEMMA OnlyCommitEnds ==
    ASSUME AdminTypeOK, [AdminNext]_admin_vars, NEW a \in People,
           granting[a] # no_request, granting'[a] = no_request
    PROVE  commit_set_capabilities(a)
<1>1. ASSUME NEW x \in People, NEW u \in People, NEW desired \in SUBSET Capabilities,
             begin_set_capabilities(x, u, desired)
      PROVE  FALSE
  BY <1>1, RequestMade, RequestsDiffer DEF begin_set_capabilities, AdminTypeOK
<1>2. ASSUME NEW x \in People, commit_set_capabilities(x) PROVE x = a
  BY <1>2 DEF commit_set_capabilities, AdminTypeOK
<1> QED
  BY <1>1, <1>2 DEF AdminNext, add_user, edit_user, delete_user, act, ensure_bootstrap_admin, admin_vars

\* A holder whose right the request does not take is a holder after it.
LEMMA HolderStays ==
    ASSUME NEW a \in People, commit_set_capabilities(a), NEW h \in active_holders,
           "manage_capabilities" \in granting[a].take => granting[a].whom # h
    PROVE  h \in active_holders'
<1>1. h \in People /\ person[h].active
  BY DEF active_holders
<1>2. PICK g \in rights : g.holder = h /\ g.capability = "manage_capabilities"
  BY Holding DEF active_holders
<1>3. g \in rights'
  BY <1>2 DEF commit_set_capabilities, with_request
<1>4. "manage_capabilities" \in capabilities_of(h)'
  BY <1>2, <1>3 DEF capabilities_of
<1>5. person' = person
  BY DEF commit_set_capabilities
<1> QED
  BY <1>1, <1>4, <1>5 DEF active_holders

\* Giving and taking rights leaves somebody who can give them, unless a holder the request
\* relied on is none any more when it commits.
THEOREM GrantorRemains == AdminSpec => GrantingKeepsAGrantor
<1>1. ASSUME AdminTypeOK, Vouched, [AdminNext]_admin_vars, NEW a \in People,
             granting[a] # no_request, granting'[a] = no_request, active_holders # {},
             granting[a].relies_on \ active_holders = {}
      PROVE  active_holders' # {}
  <2>1. commit_set_capabilities(a)
    BY <1>1, OnlyCommitEnds
  <2>2. CASE "manage_capabilities" \notin granting[a].take
    BY <1>1, <2>1, <2>2, HolderStays
  <2>3. CASE "manage_capabilities" \in granting[a].take
    <3>1. PICK h \in granting[a].relies_on : h # granting[a].whom
      BY <1>1, <2>3 DEF Vouched
    <3>2. h \in active_holders
      BY <1>1, <3>1
    <3> QED
      BY <2>1, <3>1, <3>2, HolderStays
  <2> QED
    BY <2>2, <2>3
<1>2. AdminTypeOK /\ Vouched /\ [AdminNext]_admin_vars =>
        [\A a \in People : granting[a] # no_request /\ granting'[a] = no_request /\ active_holders # {} =>
            active_holders' # {} \/ granting[a].relies_on \ active_holders # {}]_admin_vars
  BY <1>1
<1> QED
  BY <1>2, RequestsVouched, PTL DEF AdminSpec, GrantingKeepsAGrantor

\* The power to grant comes from a request whose maker had it, or from the start-up that finds
\* no holder: never from creating an account, changing a role or the defaults of HR.
THEOREM PowerFromPower == AdminSpec => PowerComesFromPower
<1> DEFINE Power == "manage_capabilities"
<1>1. ASSUME AdminTypeOK, Vouched, [AdminNext]_admin_vars, NEW u \in People,
             Power \in capabilities_of(u)' \ capabilities_of(u), active_holders # {}
      PROVE  \E a \in People : /\ granting[a] # no_request /\ granting'[a] = no_request
                               /\ granting[a].whom = u /\ Power \in granting[a].held
  <2>1. PICK g \in rights' : g.holder = u /\ g.capability = Power /\ g \notin rights
    BY <1>1 DEF capabilities_of
  <2>2. \A x \in People : g \notin apply_default_hr_capabilities(x)
    BY <2>1, AdministrationAssumption DEF apply_default_hr_capabilities, rights_of
  <2>3. ~ensure_bootstrap_admin
    BY <1>1 DEF ensure_bootstrap_admin
  <2>4. PICK a \in People : commit_set_capabilities(a)
    BY <1>1, <2>1, <2>2, <2>3
       DEF AdminNext, begin_set_capabilities, add_user, edit_user, delete_user, act, admin_vars
  <2>5. rights' = with_request(granting[a], a)
    BY <2>1, <2>4 DEF commit_set_capabilities
  <2>6. g \in rights_of(granting[a].whom, granting[a].give, a)
    BY <2>1, <2>5 DEF with_request
  <2>7. granting[a].whom = u
    BY <2>1, <2>6 DEF rights_of
  <2>8. granting[a] # no_request /\ granting'[a] = no_request
    BY <1>1, <2>4 DEF commit_set_capabilities, AdminTypeOK
  <2> QED
    BY <1>1, <2>7, <2>8 DEF Vouched
<1>2. AdminTypeOK /\ Vouched /\ [AdminNext]_admin_vars =>
        [\A u \in People : "manage_capabilities" \in capabilities_of(u)' \ capabilities_of(u) =>
            \/ active_holders = {}
            \/ \E a \in People : /\ granting[a] # no_request /\ granting'[a] = no_request
                                 /\ granting[a].whom = u /\ "manage_capabilities" \in granting[a].held]_admin_vars
  BY <1>1
<1> QED
  BY <1>2, RequestsVouched, PTL DEF AdminSpec, PowerComesFromPower
-----------------------------------------------------------------------------
(* The directory.                                                          *)

Stages == {"none", "parsed", "done", "rolled_back"}
Known == (UNION {ProfilesOf[e] : e \in Evaluators}) \cup {InitialProfile[e] : e \in Evaluators} \cup {None}
Uploads == [stage : Stages, file : Files \cup {<<>>}, valid : SUBSET Nat, seen : [Evaluators -> Known] \cup {None}]
UnitEdits == [stage : {"none", "read", "moving", "counted"}, unit : UnitIds \cup {None},
              name : UnitNames \cup {None}, to : UnitNames \cup {None}, found : SUBSET Codes]

\* Every table keeps its type.  Of a row of a file nothing is known but that it has a unit.
DirectoryTypeOK ==
    /\ people = [p \in Codes |-> people[p]]
    /\ \A p \in enrolled : people[p] = personnel_of(people[p], people[p].access) /\ people[p].unit # None
    /\ profile \in [Evaluators -> Known]
    /\ catalogue \in [UnitIds -> UnitNames \cup {None}]
    /\ upload \in [Imports -> Uploads]

\* A request for a unit has read an entry; one that moves people has a name for them, any other
\* has found nobody to move.
EditsOK ==
    /\ unit_edit \in [Editors -> UnitEdits]
    /\ \A e \in Editors :
          /\ unit_edit[e].stage # "none" => unit_edit[e].unit \in UnitIds
          /\ unit_edit[e].stage = "moving" => unit_edit[e].to # None
          /\ unit_edit[e].stage \in {"read", "counted"} => unit_edit[e].found = {}

\* What the checks of a row tell for ever, whatever becomes of the tables.
Checked(file, n, known) ==
    /\ n \in DOMAIN file
    /\ first_with(file, n, "code")
    /\ file[n].username # None => first_with(file, n, "username")
    /\ resolve_chain(known, file[n])

FilesChecked ==
    \A i \in Imports : \A n \in upload[i].valid :
        upload[i].file \in Files /\ Checked(upload[i].file, n, upload[i].seen)

DirectorySafe == DirectoryTypeOK /\ EditsOK /\ FilesChecked /\ ImportedChainsAreEnterable

\* A seat of a row that resolves is held by an active account of sufficient rank.
LEMMA SeatedIsFit ==
    ASSUME NEW known, NEW row, NEW seat, resolves(known, row, seat), seated(known, row, seat) # None
    PROVE  /\ known[seated(known, row, seat)] # None /\ known[seated(known, row, seat)].active
           /\ may_act_at(known[seated(known, row, seat)].role, seat)
<1>1. row[seat] # None /\ seated(known, row, seat) = CHOOSE e \in matches(known, row[seat]) : TRUE
  BY DEF seated
<1>2. /\ Cardinality(matches(known, row[seat])) = 1
      /\ \A e \in matches(known, row[seat]) : may_act_at(known[e].role, seat)
  BY <1>1 DEF resolves
<1>3. matches(known, row[seat]) # {}
  BY <1>2, FS_EmptySet
<1>4. seated(known, row, seat) \in matches(known, row[seat])
  BY <1>1, <1>3
<1>5. \A e \in matches(known, row[seat]) : known[e] # None /\ known[e].active
  BY DEF matches, active_evaluators
<1> QED
  BY <1>2, <1>4, <1>5

\* The only chief executive there is, is fit for the seat.
LEMMA SoleCeoIsFit ==
    ASSUME NEW known, sole_ceo(known) # None
    PROVE  /\ known[sole_ceo(known)] # None /\ known[sole_ceo(known)].active
           /\ may_act_at(known[sole_ceo(known)].role, "ceo")
<1>1. Cardinality(ceos(known)) = 1 /\ sole_ceo(known) = CHOOSE e \in ceos(known) : TRUE
  BY DEF sole_ceo
<1>2. ceos(known) # {}
  BY <1>1, FS_EmptySet
<1>3. sole_ceo(known) \in ceos(known)
  BY <1>1, <1>2
<1> QED
  BY <1>3 DEF ceos, active_evaluators, may_act_at, Seats, chain_rank

\* The chain of a row that resolves, once it has a CEO, is one that the form would take.
LEMMA ResolvedIsEnterable ==
    ASSUME NEW known, NEW row, resolve_chain(known, row), resolved_chain(known, row).ceo # None
    PROVE  enterable(resolved_chain(known, row), row.is_manager, known)
<1> DEFINE chain == resolved_chain(known, row)
<1>1. ~redundant(chain) /\ \A seat \in Seats : resolves(known, row, seat)
  BY DEF resolve_chain
<1>2. row.is_manager => is_manager_path(chain)
  BY DEF is_manager_path, resolved_chain
<1>3. ASSUME NEW seat \in Seats, chain[seat] # None
      PROVE  /\ known[chain[seat]] # None /\ known[chain[seat]].active
             /\ may_act_at(known[chain[seat]].role, seat)
  <2>1. \/ chain[seat] = seated(known, row, seat)
        \/ chain[seat] = None
        \/ seat = "ceo" /\ chain[seat] = sole_ceo(known)
    BY DEF resolved_chain, Seats
  <2>2. CASE chain[seat] = seated(known, row, seat)
    <3>1. PICK holder : holder = chain[seat]
      OBVIOUS
    <3>2. holder = seated(known, row, seat) /\ holder # None
      BY <1>3, <2>2, <3>1
    <3>3. known[holder] # None /\ known[holder].active /\ may_act_at(known[holder].role, seat)
      BY <1>1, <3>2, SeatedIsFit
    <3> QED
      BY <3>1, <3>3
  <2>3. CASE seat = "ceo" /\ chain[seat] = sole_ceo(known)
    <3>1. PICK holder : holder = chain[seat]
      OBVIOUS
    <3>2. holder = sole_ceo(known) /\ holder # None
      BY <1>3, <2>3, <3>1
    <3>3. known[holder] # None /\ known[holder].active /\ may_act_at(known[holder].role, seat)
      BY <2>3, <3>2, SoleCeoIsFit
    <3> QED
      BY <3>1, <3>3
  <2> QED
    BY <1>3, <2>1, <2>2, <2>3
<1> QED
  BY <1>1, <1>2, <1>3 DEF enterable

\* The rows of a file that are found valid do not conflict with each other.
LEMMA RowsApart ==
    ASSUME DirectorySafe, NEW i \in Imports, NEW m \in upload[i].valid, NEW n \in upload[i].valid, m # n
    PROVE  /\ upload[i].file[m].code # upload[i].file[n].code
           /\ upload[i].file[m].username = upload[i].file[n].username => upload[i].file[m].username = None
<1> DEFINE file == upload[i].file
<1>1. file \in Files /\ Checked(file, m, upload[i].seen) /\ Checked(file, n, upload[i].seen)
  BY DEF DirectorySafe, FilesChecked
<1>2. m \in Nat \ {0} /\ n \in Nat \ {0}
  BY <1>1, DirectoryAssumption DEF Checked
<1>3. ASSUME NEW j \in Nat \ {0}, NEW k \in Nat \ {0}, j < k,
             Checked(file, j, upload[i].seen), Checked(file, k, upload[i].seen)
      PROVE  file[j].code # file[k].code /\ (file[j].username = file[k].username => file[j].username = None)
  <2>1. j \in 1 .. k - 1
    BY <1>3
  <2> QED
    BY <1>3, <2>1 DEF Checked, first_with
<1>4. m < n \/ n < m
  BY <1>2
<1> QED
  BY <1>1, <1>2, <1>3, <1>4

\* Empty tables are sound.
LEMMA DirectoryStarts ==
    DirectoryInit => DirectorySafe
<1> SUFFICES ASSUME DirectoryInit PROVE DirectorySafe
  OBVIOUS
<1>1. DirectoryTypeOK
  <2>1. profile \in [Evaluators -> Known]
    BY DEF DirectoryInit, Known
  <2>2. upload \in [Imports -> Uploads]
    BY DEF DirectoryInit, no_upload, Uploads, Stages
  <2> QED
    BY <2>1, <2>2 DEF DirectoryInit, DirectoryTypeOK, enrolled
<1>2. EditsOK
  BY DEF DirectoryInit, EditsOK, UnitEdits, unasked
<1>3. FilesChecked
  BY DEF DirectoryInit, FilesChecked, no_upload
<1>4. ImportedChainsAreEnterable
  BY DEF DirectoryInit, ImportedChainsAreEnterable, enrolled
<1> QED
  BY <1>1, <1>2, <1>3, <1>4 DEF DirectorySafe

\* A person as a row of a file has him, with the chain given.
LEMMA PersonOfRow ==
    ASSUME NEW row, NEW access
    PROVE  /\ personnel_of(row, access) = personnel_of(personnel_of(row, access), access)
           /\ personnel_of(row, access).access = access
           /\ personnel_of(row, access).unit = row.unit
           /\ personnel_of(row, access).is_manager = row.is_manager
BY DEF personnel_of

\* What one person's row must be for the tables to be sound, over the uploads given.
Sound(entry, uploads) ==
    /\ entry = personnel_of(entry, entry.access) /\ entry.unit # None
    /\ entry.access # None =>
          \E i \in Imports : /\ uploads[i].stage = "done"
                             /\ enterable(entry.access, entry.is_manager, uploads[i].seen)

\* What holds of everybody enrolled, said of one person.
LEMMA EverybodySound ==
    (\A p \in enrolled : Sound(people[p], upload)) <=>
        /\ \A p \in enrolled : people[p] = personnel_of(people[p], people[p].access) /\ people[p].unit # None
        /\ ImportedChainsAreEnterable
BY DEF Sound, ImportedChainsAreEnterable

\* Rows of the files have a unit.
LEMMA RowsHaveUnits ==
    ASSUME NEW row \in all_rows
    PROVE  row.unit # None
BY DirectoryAssumption DEF all_rows

\* A valid row makes a sound person, once its import is done.
LEMMA ImportedIsSound ==
    ASSUME DirectorySafe, NEW i \in Imports, NEW row \in valid_rows(i), NEW uploads,
           uploads[i].stage = "done", uploads[i].seen = upload[i].seen
    PROVE  Sound(personnel_of(row, chain_of(upload[i].seen, row)), uploads)
<1> DEFINE known == upload[i].seen
<1>1. PICK n \in upload[i].valid : row = upload[i].file[n]
  BY DEF valid_rows
<1>2. upload[i].file \in Files /\ n \in DOMAIN upload[i].file /\ resolve_chain(known, row)
  BY <1>1 DEF DirectorySafe, FilesChecked, Checked
<1>3. row.unit # None
  BY <1>1, <1>2, DirectoryAssumption
<1>4. chain_of(known, row) # None => enterable(chain_of(known, row), row.is_manager, known)
  BY <1>2, ResolvedIsEnterable DEF chain_of
<1> HIDE DEF DirectorySafe
<1>5. PICK entry : entry = personnel_of(row, chain_of(known, row))
  OBVIOUS
<1>6. /\ entry = personnel_of(entry, entry.access) /\ entry.access = chain_of(known, row)
      /\ entry.unit = row.unit /\ entry.is_manager = row.is_manager
  BY <1>5, PersonOfRow
<1> QED
  BY <1>3, <1>4, <1>5, <1>6 DEF Sound

\* Nobody but the people of a step changes, and they are sound; what is done stays done.
LEMMA PeopleStep ==
    ASSUME DirectorySafe,
           people' = [p \in Codes |-> people'[p]],
           \A p \in Codes : people'[p] = people[p] \/ Sound(people'[p], upload'),
           \A i \in Imports : upload[i].stage = "done" => upload'[i].stage = "done" /\ upload'[i].seen = upload[i].seen,
           profile' \in [Evaluators -> Known],
           catalogue' \in [UnitIds -> UnitNames \cup {None}],
           upload' \in [Imports -> Uploads],
           EditsOK', FilesChecked'
    PROVE  DirectorySafe'
<1>1. \A p \in enrolled : Sound(people[p], upload)
  BY EverybodySound DEF DirectorySafe, DirectoryTypeOK
<1>2. \A p \in enrolled : Sound(people[p], upload')
  BY <1>1 DEF Sound
<1>3. ASSUME NEW p \in Codes, people'[p] # None PROVE Sound(people'[p], upload')
  BY <1>2, <1>3 DEF enrolled
<1>4. \A p \in Codes : people'[p] # None =>
         people'[p] = personnel_of(people'[p], people'[p].access) /\ people'[p].unit # None
  BY <1>3 DEF Sound
<1>5. DirectoryTypeOK'
  BY <1>4 DEF DirectoryTypeOK, enrolled, personnel_of
<1>6. ImportedChainsAreEnterable'
  <2> SUFFICES ASSUME NEW p \in Codes, people'[p] # None, people'[p].access # None
               PROVE  \E i \in Imports : /\ upload'[i].stage = "done"
                                         /\ enterable(people'[p].access, people'[p].is_manager, upload'[i].seen)
    BY DEF ImportedChainsAreEnterable, enrolled, enterable, redundant, is_manager_path
  <2> QED
    BY <1>3 DEF Sound
<1> QED
  BY <1>5, <1>6 DEF DirectorySafe

\* Parsing writes nothing but what it has found.
LEMMA ParseStep ==
    ASSUME DirectorySafe, NEW i \in Imports, NEW file \in Files, parse_workbook(i, file)
    PROVE  DirectorySafe'
<1> DEFINE found == {n \in DOMAIN file : row_ok(file, n)}
<1>1. /\ people' = people /\ profile' = profile /\ catalogue' = catalogue /\ unit_edit' = unit_edit
      /\ upload' = [upload EXCEPT ![i] = [stage |-> "parsed", file |-> file, valid |-> found, seen |-> profile]]
      /\ upload[i].stage = "none"
  BY DEF parse_workbook
<1>2. found \in SUBSET Nat
  BY DirectoryAssumption
<1>3. \A n \in found : Checked(file, n, profile)
  BY DEF row_ok, Checked
<1> HIDE DEF found
<1>4. upload' \in [Imports -> Uploads]
  BY <1>1, <1>2 DEF DirectorySafe, DirectoryTypeOK, Stages, Uploads
<1>5. FilesChecked'
  <2> SUFFICES ASSUME NEW j \in Imports, NEW n \in upload'[j].valid
               PROVE  upload'[j].file \in Files /\ Checked(upload'[j].file, n, upload'[j].seen)
    BY DEF FilesChecked, Checked, first_with, resolve_chain
  <2>1. CASE j = i
    <3>1. upload'[j].file = file /\ upload'[j].valid = found /\ upload'[j].seen = profile
      BY <1>1, <2>1 DEF DirectorySafe, DirectoryTypeOK, Uploads
    <3> QED
      BY <1>3, <3>1
  <2>2. CASE j # i
    <3>1. upload'[j] = upload[j]
      BY <1>1, <2>2 DEF DirectorySafe, DirectoryTypeOK
    <3> QED
      BY <3>1 DEF DirectorySafe, FilesChecked
  <2> QED
    BY <2>1, <2>2
<1>6. \A j \in Imports : upload[j].stage = "done" => upload'[j] = upload[j]
  BY <1>1 DEF DirectorySafe, DirectoryTypeOK
<1>7. EditsOK'
  BY <1>1 DEF DirectorySafe, EditsOK
<1> QED
  BY <1>1, <1>4, <1>5, <1>6, <1>7, PeopleStep DEF DirectorySafe, DirectoryTypeOK

\* What was found in the files stays when only stages change.
LEMMA StageStep ==
    ASSUME DirectorySafe, NEW i \in Imports, NEW stage \in Stages, upload[i].stage # "done",
           upload' = [upload EXCEPT ![i].stage = stage]
    PROVE  /\ upload' \in [Imports -> Uploads]
           /\ upload'[i].stage = stage /\ upload'[i].seen = upload[i].seen
           /\ \A j \in Imports : upload[j].stage = "done" =>
                 upload'[j].stage = "done" /\ upload'[j].seen = upload[j].seen
           /\ FilesChecked'
<1>1. upload \in [Imports -> Uploads]
  BY DEF DirectorySafe, DirectoryTypeOK
<1>2. \A j \in Imports : /\ upload'[j].file = upload[j].file /\ upload'[j].valid = upload[j].valid
                         /\ upload'[j].seen = upload[j].seen
  BY <1>1 DEF Uploads
<1>3. \A j \in Imports : \A n \in upload[j].valid :
         upload[j].file \in Files /\ Checked(upload[j].file, n, upload[j].seen)
  BY DEF DirectorySafe, FilesChecked
<1>4. \A j \in Imports : \A n \in upload'[j].valid :
         upload'[j].file \in Files /\ Checked(upload'[j].file, n, upload'[j].seen)
  BY <1>2, <1>3
<1>5. FilesChecked'
  BY <1>4 DEF FilesChecked, Checked, first_with, resolve_chain
<1>6. upload' \in [Imports -> Uploads] /\ upload'[i].stage = stage
  BY <1>1 DEF Uploads
<1>7. \A j \in Imports : upload[j].stage = "done" => upload'[j].stage = "done"
  BY <1>1 DEF Uploads
<1> QED
  BY <1>2, <1>5, <1>6, <1>7

\* A commit writes the valid rows, or nothing.
LEMMA ImportStep ==
    ASSUME DirectorySafe, NEW i \in Imports, commit_import(i)
    PROVE  DirectorySafe'
<1>1. PICK stage \in Stages : /\ upload' = [upload EXCEPT ![i].stage = stage]
                              /\ ~in_conflict(i) => stage = "done"
  BY DEF commit_import, Stages
<1>2. profile' = profile /\ catalogue' = catalogue /\ unit_edit' = unit_edit /\ upload[i].stage = "parsed"
  BY DEF commit_import
<1>3. /\ upload' \in [Imports -> Uploads]
      /\ upload'[i].stage = stage /\ upload'[i].seen = upload[i].seen
      /\ \A j \in Imports : upload[j].stage = "done" =>
            upload'[j].stage = "done" /\ upload'[j].seen = upload[j].seen
      /\ FilesChecked'
  BY <1>1, <1>2, StageStep
<1>4. /\ people' = [p \in Codes |-> people'[p]]
      /\ \A p \in Codes : people'[p] = people[p] \/ Sound(people'[p], upload')
  <2>1. CASE in_conflict(i)
    BY <2>1 DEF commit_import, DirectorySafe, DirectoryTypeOK
  <2>2. CASE ~in_conflict(i)
    <3>1. people' = [p \in Codes |->
             IF \E row \in valid_rows(i) : row.code = p
             THEN personnel_of(CHOOSE row \in valid_rows(i) : row.code = p,
                               chain_of(upload[i].seen, CHOOSE row \in valid_rows(i) : row.code = p))
             ELSE people[p]]
      BY <2>2 DEF commit_import
    <3>2. ASSUME NEW p \in Codes, \E row \in valid_rows(i) : row.code = p
          PROVE  Sound(people'[p], upload')
      <4>1. PICK row \in valid_rows(i) : row = CHOOSE r \in valid_rows(i) : r.code = p
        BY <3>2
      <4>2. people'[p] = personnel_of(row, chain_of(upload[i].seen, row))
        BY <3>1, <3>2, <4>1
      <4>3. upload'[i].stage = "done" /\ upload'[i].seen = upload[i].seen
        BY <1>1, <1>3, <2>2
      <4>4. Sound(personnel_of(row, chain_of(upload[i].seen, row)), upload')
        BY <4>3, ImportedIsSound
      <4> QED
        BY <4>2, <4>4
    <3>3. \A p \in Codes : people'[p] = people[p] \/ Sound(people'[p], upload')
      BY <3>1, <3>2
    <3> QED
      BY <3>1, <3>3
  <2> QED
    BY <2>1, <2>2
<1>5. EditsOK'
  BY <1>2 DEF DirectorySafe, EditsOK
<1> QED
  BY <1>2, <1>3, <1>4, <1>5, PeopleStep DEF DirectorySafe, DirectoryTypeOK

\* What was found in the files stays when the uploads do.
LEMMA FilesStay ==
    ASSUME DirectorySafe, upload' = upload
    PROVE  FilesChecked'
BY DEF DirectorySafe, FilesChecked, Checked, first_with, resolve_chain

\* A person from the form has no chain yet.
LEMMA CreateStep ==
    ASSUME DirectorySafe, NEW row \in all_rows, create_personnel(row)
    PROVE  DirectorySafe'
<1>1. /\ people' = [people EXCEPT ![row.code] = personnel_of(row, None)]
      /\ profile' = profile /\ catalogue' = catalogue /\ upload' = upload /\ unit_edit' = unit_edit
  BY DEF create_personnel
<1>2. Sound(personnel_of(row, None), upload')
  BY RowsHaveUnits, PersonOfRow DEF Sound
<1>3. /\ people' = [p \in Codes |-> people'[p]]
      /\ \A p \in Codes : people'[p] = people[p] \/ Sound(people'[p], upload')
  BY <1>1, <1>2 DEF DirectorySafe, DirectoryTypeOK
<1>4. EditsOK'
  BY <1>1 DEF DirectorySafe, EditsOK
<1> QED
  BY <1>1, <1>3, <1>4, FilesStay, PeopleStep DEF DirectorySafe, DirectoryTypeOK

\* Accounts are edited and deleted; what an import has read of them stays what it was.
LEMMA AccountStep ==
    ASSUME DirectorySafe, NEW e \in Evaluators, NEW known \in Known,
           profile' = [profile EXCEPT ![e] = known],
           UNCHANGED <<people, catalogue, upload, unit_edit>>
    PROVE  DirectorySafe'
<1>1. profile' \in [Evaluators -> Known]
  BY DEF DirectorySafe, DirectoryTypeOK
<1>2. EditsOK'
  BY DEF DirectorySafe, EditsOK
<1> QED
  BY <1>1, <1>2, FilesStay, PeopleStep DEF DirectorySafe, DirectoryTypeOK

\* A request for a unit that reads, moves or counts changes no table.
LEMMA ReadStep ==
    ASSUME DirectorySafe, EditsOK', UNCHANGED <<people, profile, catalogue, upload>>
    PROVE  DirectorySafe'
BY FilesStay, PeopleStep DEF DirectorySafe, DirectoryTypeOK

\* The catalogue moves people from unit to unit, and changes nothing else of them.
LEMMA UnitStep ==
    ASSUME DirectorySafe, EditsOK', UNCHANGED <<profile, upload>>,
           NEW i \in UnitIds, NEW name \in UnitNames \cup {None}, NEW moved,
           catalogue' = [catalogue EXCEPT ![i] = name],
           people' = people \/ (name # None /\ moved \subseteq enrolled /\ people' = [p \in Codes |->
               IF p \in moved THEN [people[p] EXCEPT !.unit = name] ELSE people[p]])
    PROVE  DirectorySafe'
<1>1. catalogue' \in [UnitIds -> UnitNames \cup {None}]
  BY DEF DirectorySafe, DirectoryTypeOK
<1>2. /\ people' = [p \in Codes |-> people'[p]]
      /\ \A p \in Codes : people'[p] = people[p] \/ Sound(people'[p], upload')
  <2>1. CASE people' = people
    BY <2>1 DEF DirectorySafe, DirectoryTypeOK
  <2>2. CASE name # None /\ moved \subseteq enrolled /\ people' = [p \in Codes |->
               IF p \in moved THEN [people[p] EXCEPT !.unit = name] ELSE people[p]]
    <3>1. ASSUME NEW p \in moved
          PROVE  Sound([people[p] EXCEPT !.unit = name], upload')
      <4>1. p \in enrolled
        BY <2>2
      <4>2. Sound(people[p], upload)
        BY <4>1, EverybodySound DEF DirectorySafe, DirectoryTypeOK
      <4>3. PICK entry : entry = people[p] /\ Sound(entry, upload)
        BY <4>2
      <4>4. PICK mover : mover = [entry EXCEPT !.unit = name]
        OBVIOUS
      <4>5. entry = personnel_of(entry, entry.access)
        BY <4>3 DEF Sound
      <4>6. /\ mover = personnel_of(mover, mover.access) /\ mover.unit = name
            /\ mover.access = entry.access /\ mover.is_manager = entry.is_manager
        BY <4>4, <4>5 DEF personnel_of
      <4>7. Sound(mover, upload')
        BY <2>2, <4>3, <4>6 DEF Sound
      <4> QED
        BY <4>3, <4>4, <4>7
    <3>2. \A p \in Codes : people'[p] = people[p] \/ Sound(people'[p], upload')
      BY <2>2, <3>1
    <3> QED
      BY <2>2, <3>2
  <2> QED
    BY <2>1, <2>2
<1> QED
  BY <1>1, <1>2, FilesStay, PeopleStep DEF DirectorySafe, DirectoryTypeOK

\* The steps of a request for a unit keep to what it has read and found.
LEMMA EditStep ==
    ASSUME DirectorySafe, NEW e \in Editors, NEW next \in UnitEdits,
           unit_edit' = [unit_edit EXCEPT ![e] = next],
           next.stage # "none" => next.unit \in UnitIds,
           next.stage = "moving" => next.to # None,
           next.stage \in {"read", "counted"} => next.found = {}
    PROVE  EditsOK'
BY DEF DirectorySafe, EditsOK

\* A request is over.
LEMMA EditEnds ==
    ASSUME DirectorySafe, NEW e \in Editors, unit_edit' = [unit_edit EXCEPT ![e] = unasked]
    PROVE  EditsOK'
<1>1. unasked \in UnitEdits /\ unasked.stage = "none"
  BY DEF unasked, UnitEdits
<1> QED
  BY <1>1, EditStep

\* Renaming and deleting a unit, step by step.
LEMMA EditorStep ==
    ASSUME DirectorySafe, NEW e \in Editors,
           \/ \E i \in UnitIds, to \in UnitNames \cup {None} : get_org_unit(e, i, to)
           \/ move_personnel(e) \/ update_org_unit(e)
           \/ count_personnel(e) \/ delete_org_unit(e)
    PROVE  DirectorySafe'
<1> DEFINE now == unit_edit[e]
<1>1. /\ now \in UnitEdits /\ unit_edit \in [Editors -> UnitEdits]
      /\ now.stage # "none" => now.unit \in UnitIds
      /\ now.stage = "moving" => now.to # None
      /\ now.stage \in {"read", "counted"} => now.found = {}
      /\ catalogue \in [UnitIds -> UnitNames \cup {None}]
  BY DEF DirectorySafe, DirectoryTypeOK, EditsOK
<1>2. ASSUME NEW i \in UnitIds, NEW to \in UnitNames \cup {None}, get_org_unit(e, i, to)
      PROVE  DirectorySafe'
  <2> DEFINE next == [stage |-> "read", unit |-> i, name |-> catalogue[i], to |-> to, found |-> {}]
  <2>1. next \in UnitEdits /\ unit_edit' = [unit_edit EXCEPT ![e] = next]
    BY <1>1, <1>2 DEF get_org_unit, UnitEdits
  <2>2. EditsOK'
    BY <2>1, EditStep
  <2> QED
    BY <1>2, <2>2, ReadStep DEF get_org_unit
<1>3. CASE move_personnel(e)
  <2> DEFINE next == [now EXCEPT !.stage = "moving", !.found = members(now.name)]
  <2>1. members(now.name) \subseteq Codes
    BY DEF members, enrolled
  <2>2. /\ next \in UnitEdits /\ next.stage = "moving"
        /\ next.unit \in UnitIds /\ next.to # None
    BY <1>1, <1>3, <2>1 DEF move_personnel, UnitEdits
  <2>3. CASE unit_edit' = [unit_edit EXCEPT ![e] = unasked]
    BY <1>3, <2>3, EditEnds, ReadStep DEF move_personnel
  <2>4. CASE unit_edit' = [unit_edit EXCEPT ![e] = next]
    <3>1. EditsOK'
      BY <2>2, <2>4, EditStep
    <3> QED
      BY <1>3, <3>1, ReadStep DEF move_personnel
  <2> QED
    BY <1>1, <1>3, <2>3, <2>4 DEF move_personnel
<1>4. CASE update_org_unit(e)
  <2> DEFINE moved == now.found \cap members(now.name)
  <2>1. /\ now.unit \in UnitIds /\ now.to \in UnitNames /\ now.to # None
        /\ moved \subseteq enrolled
    BY <1>1, <1>4 DEF update_org_unit, UnitEdits, members
  <2>2. EditsOK'
    BY <1>4, EditEnds DEF update_org_unit
  <2>3. /\ catalogue' = [catalogue EXCEPT ![now.unit] = now.to]
        /\ people' = [p \in Codes |-> IF p \in moved THEN [people[p] EXCEPT !.unit = now.to] ELSE people[p]]
        /\ profile' = profile /\ upload' = upload
    BY <1>4 DEF update_org_unit
  <2> HIDE DEF moved, now
  <2> QED
    BY <2>1, <2>2, <2>3, UnitStep
<1>5. CASE count_personnel(e)
  <2> DEFINE next == [now EXCEPT !.stage = "counted"]
  <2>1. CASE unit_edit' = [unit_edit EXCEPT ![e] = unasked]
    BY <1>5, <2>1, EditEnds, ReadStep DEF count_personnel
  <2>2. CASE unit_edit' = [unit_edit EXCEPT ![e] = next]
    <3>1. next \in UnitEdits /\ next.stage = "counted" /\ next.unit \in UnitIds /\ next.found = {}
      BY <1>1, <1>5 DEF count_personnel, UnitEdits
    <3>2. EditsOK'
      BY <2>2, <3>1, EditStep
    <3> QED
      BY <1>5, <3>2, ReadStep DEF count_personnel
  <2> QED
    BY <1>1, <1>5, <2>1, <2>2 DEF count_personnel
<1>6. CASE delete_org_unit(e)
  <2>1. now.unit \in UnitIds
    BY <1>1, <1>6 DEF delete_org_unit
  <2>2. EditsOK'
    BY <1>6, EditEnds DEF delete_org_unit
  <2>3. /\ catalogue' = [catalogue EXCEPT ![now.unit] = None]
        /\ people' = people /\ profile' = profile /\ upload' = upload
    BY <1>6 DEF delete_org_unit
  <2> HIDE DEF now
  <2> QED
    BY <2>1, <2>2, <2>3, UnitStep
<1> QED
  BY <1>2, <1>3, <1>4, <1>5, <1>6

\* The invariant of the directory.
LEMMA DirectoryStaysSafe ==
    DirectorySafe /\ [DirectoryNext]_directory_vars => DirectorySafe'
<1> SUFFICES ASSUME DirectorySafe, [DirectoryNext]_directory_vars
             PROVE  DirectorySafe'
  OBVIOUS
<1>1. ASSUME NEW i \in Imports, commit_import(i)
      PROVE  DirectorySafe'
  BY <1>1, ImportStep
<1>2. ASSUME NEW i \in Imports, NEW file \in Files, parse_workbook(i, file)
      PROVE  DirectorySafe'
  BY <1>2, ParseStep
<1>3. ASSUME NEW row \in all_rows, create_personnel(row)
      PROVE  DirectorySafe'
  BY <1>3, CreateStep
<1>4. ASSUME NEW i \in UnitIds, NEW name \in UnitNames, create_org_unit(i, name)
      PROVE  DirectorySafe'
  <2>1. EditsOK'
    BY <1>4 DEF create_org_unit, DirectorySafe, EditsOK
  <2> QED
    BY <1>4, <2>1, UnitStep DEF create_org_unit
<1>5. ASSUME NEW e \in Evaluators, NEW new \in ProfilesOf[e], edit_account(e, new)
      PROVE  DirectorySafe'
  <2>1. new \in Known
    BY DEF Known
  <2> QED
    BY <1>5, <2>1, AccountStep DEF edit_account
<1>6. ASSUME NEW e \in Evaluators, delete_account(e)
      PROVE  DirectorySafe'
  <2>1. None \in Known
    BY DEF Known
  <2> QED
    BY <1>6, <2>1, AccountStep DEF delete_account
<1>7. ASSUME NEW e \in Editors,
             \/ \E i \in UnitIds, to \in UnitNames \cup {None} : get_org_unit(e, i, to)
             \/ move_personnel(e) \/ update_org_unit(e)
             \/ count_personnel(e) \/ delete_org_unit(e)
      PROVE  DirectorySafe'
  BY <1>7, EditorStep
<1>8. CASE UNCHANGED directory_vars
  <2>1. UNCHANGED <<people, profile, catalogue, upload>> /\ unit_edit' = unit_edit
    BY <1>8 DEF directory_vars
  <2>2. EditsOK'
    BY <2>1 DEF DirectorySafe, EditsOK
  <2> QED
    BY <2>1, <2>2, ReadStep
<1> QED
  BY <1>1, <1>2, <1>3, <1>4, <1>5, <1>6, <1>7, <1>8 DEF DirectoryNext

\* Importing writes no chain that the form of the chain would have refused when the file was
\* parsed: _resolve_chain and commit_import, whatever the file and whatever happens in between.
THEOREM ImportsObeyTheForm ==
    DirectorySpec => []ImportedChainsAreEnterable
<1>1. DirectorySafe => ImportedChainsAreEnterable
  BY DEF DirectorySafe
<1> QED
  BY <1>1, DirectoryStarts, DirectoryStaysSafe, PTL DEF DirectorySpec

\* Only a commit rolls an import back.
LEMMA OnlyImportsRollBack ==
    ASSUME DirectorySafe, DirectoryNext, NEW i \in Imports,
           upload[i].stage # "rolled_back", upload'[i].stage = "rolled_back"
    PROVE  commit_import(i) /\ in_conflict(i)
<1>1. upload \in [Imports -> Uploads]
  BY DEF DirectorySafe, DirectoryTypeOK
<1>2. upload' # upload
  OBVIOUS
<1>3. ASSUME NEW j \in Imports, NEW file \in Files, parse_workbook(j, file)
      PROVE  FALSE
  <2> DEFINE found == {n \in DOMAIN file : row_ok(file, n)}
  <2>1. upload' = [upload EXCEPT ![j] = [stage |-> "parsed", file |-> file, valid |-> found, seen |-> profile]]
    BY <1>3 DEF parse_workbook
  <2> HIDE DEF found
  <2> QED
    BY <1>1, <2>1
<1>4. PICK j \in Imports : commit_import(j)
  <2>1. ~ \E row \in all_rows : create_personnel(row)
    BY <1>2 DEF create_personnel
  <2>2. ~ \E e \in Evaluators : delete_account(e) \/ \E new \in ProfilesOf[e] : edit_account(e, new)
    BY <1>2 DEF delete_account, edit_account
  <2>3. ~ \E k \in UnitIds, name \in UnitNames : create_org_unit(k, name)
    BY <1>2 DEF create_org_unit
  <2>4. ~ \E e \in Editors :
            \/ \E k \in UnitIds, to \in UnitNames \cup {None} : get_org_unit(e, k, to)
            \/ move_personnel(e) \/ update_org_unit(e)
            \/ count_personnel(e) \/ delete_org_unit(e)
    BY <1>2 DEF get_org_unit, move_personnel, update_org_unit, count_personnel, delete_org_unit
  <2> QED
    BY <1>3, <2>1, <2>2, <2>3, <2>4 DEF DirectoryNext
<1>5. j = i
  <2>1. CASE j # i
    BY <1>1, <1>4, <2>1 DEF commit_import
  <2> QED
    BY <2>1
<1>6. in_conflict(i)
  <2>1. CASE ~in_conflict(i)
    <3>1. upload' = [upload EXCEPT ![i].stage = "done"]
      BY <1>4, <1>5, <2>1 DEF commit_import
    <3>2. upload'[i].stage = "done"
      BY <1>1, <3>1 DEF Uploads
    <3> QED
      BY <3>2
  <2> QED
    BY <2>1
<1> QED
  BY <1>4, <1>5, <1>6

\* An import is rolled back only over a row of somebody else or an account that is gone:
\* parse_workbook and commit_import.
THEOREM BadRowsStayAlone ==
    DirectorySpec => OneBadRowCostsOneRow
<1>1. ASSUME DirectorySafe, DirectoryNext, NEW i \in Imports,
             upload[i].stage # "rolled_back", upload'[i].stage = "rolled_back"
      PROVE  \E row \in valid_rows(i) :
                row.code \in enrolled \/ row.username \in usernames \/ seats_nobody(upload[i].seen, row)
  BY <1>1, OnlyImportsRollBack, RowsApart DEF in_conflict
<1>2. DirectorySafe /\ [DirectoryNext]_directory_vars =>
        [\A i \in Imports : upload[i].stage # "rolled_back" /\ upload'[i].stage = "rolled_back" =>
            \E row \in valid_rows(i) :
                row.code \in enrolled \/ row.username \in usernames \/ seats_nobody(upload[i].seen, row)]_directory_vars
  BY <1>1
<1> QED
  BY <1>2, DirectoryStarts, DirectoryStaysSafe, PTL DEF DirectorySpec, OneBadRowCostsOneRow

\* A rename that was not overtaken takes everybody of its unit along.
LEMMA RenameTakesAll ==
    ASSUME DirectorySafe, NEW e \in Editors, update_org_unit(e), latecomers(e) = {},
           NEW p \in enrolled, people[p].unit = unit_edit[e].name
    PROVE  \E i \in UnitIds : catalogue'[i] = people'[p].unit
<1> DEFINE now == unit_edit[e]
<1>1. now.unit \in UnitIds /\ catalogue \in [UnitIds -> UnitNames \cup {None}]
  BY DEF update_org_unit, DirectorySafe, DirectoryTypeOK, EditsOK
<1>2. p \in Codes /\ people[p] = personnel_of(people[p], people[p].access)
  BY DEF DirectorySafe, DirectoryTypeOK, enrolled
<1>3. p \in now.found \cap members(now.name)
  BY DEF latecomers, members
<1>4. people'[p] = [people[p] EXCEPT !.unit = now.to] /\ catalogue'[now.unit] = now.to
  BY <1>1, <1>2, <1>3 DEF update_org_unit
<1>5. people'[p].unit = now.to
  BY <1>2, <1>4 DEF personnel_of
<1> QED
  BY <1>1, <1>4, <1>5

\* Whoever is listed stays listed, but for requests that were overtaken: update_org_unit takes
\* along whom it found, delete_org_unit takes nothing that has members when it counts them.
THEOREM MembersStayListed ==
    DirectorySpec => ListedStayListed
<1>1. ASSUME DirectorySafe, DirectoryNext, NEW p \in enrolled,
             NEW k \in UnitIds, catalogue[k] = people[p].unit,
             \A e \in Editors : commits(e) => catalogue[unit_edit[e].unit] = unit_edit[e].name /\ latecomers(e) = {}
      PROVE  \E i \in UnitIds : catalogue'[i] = people'[p].unit
  <2>1. /\ p \in Codes /\ people[p] # None /\ people[p].unit # None
        /\ people = [q \in Codes |-> people[q]]
        /\ catalogue \in [UnitIds -> UnitNames \cup {None}]
        /\ unit_edit \in [Editors -> UnitEdits]
    BY <1>1 DEF DirectorySafe, DirectoryTypeOK, EditsOK, enrolled
  <2>2. ASSUME NEW i \in Imports, commit_import(i)
        PROVE  people'[p] = people[p] /\ catalogue' = catalogue
    <3>1. CASE in_conflict(i)
      BY <2>2, <3>1 DEF commit_import
    <3>2. CASE ~in_conflict(i)
      <4>1. ~ \E row \in valid_rows(i) : row.code = p
        BY <3>2, <1>1 DEF in_conflict
      <4> QED
        BY <2>1, <2>2, <3>2, <4>1 DEF commit_import
    <3> QED
      BY <3>1, <3>2
  <2>3. ASSUME NEW row \in all_rows, create_personnel(row)
        PROVE  people'[p] = people[p] /\ catalogue' = catalogue
    <3>1. row.code # p
      BY <2>3 DEF create_personnel
    <3> QED
      BY <2>1, <2>3, <3>1 DEF create_personnel
  <2>4. ASSUME NEW i \in UnitIds, NEW name \in UnitNames, create_org_unit(i, name)
        PROVE  people'[p] = people[p] /\ catalogue'[k] = catalogue[k]
    BY <1>1, <2>1, <2>4 DEF create_org_unit
  <2>5. ASSUME NEW i \in Imports, NEW file \in Files, parse_workbook(i, file)
        PROVE  people'[p] = people[p] /\ catalogue' = catalogue
    BY <2>5 DEF parse_workbook
  <2>6. ASSUME NEW e \in Evaluators, delete_account(e) \/ \E new \in ProfilesOf[e] : edit_account(e, new)
        PROVE  people'[p] = people[p] /\ catalogue' = catalogue
    BY <2>6 DEF delete_account, edit_account
  <2>7. ASSUME NEW e \in Editors, \E i \in UnitIds, to \in UnitNames \cup {None} : get_org_unit(e, i, to)
        PROVE  people'[p] = people[p] /\ catalogue' = catalogue
    BY <2>7 DEF get_org_unit
  <2>8. ASSUME NEW e \in Editors, move_personnel(e) \/ count_personnel(e)
        PROVE  people'[p] = people[p] /\ catalogue' = catalogue
    BY <2>8 DEF move_personnel, count_personnel
  <2>9. ASSUME NEW e \in Editors, update_org_unit(e)
        PROVE  \E j \in UnitIds : catalogue'[j] = people'[p].unit
    <3>1. unit_edit'[e] = unasked /\ unit_edit[e].stage = "moving"
      BY <2>1, <2>9 DEF update_org_unit
    <3>2. catalogue[unit_edit[e].unit] = unit_edit[e].name /\ latecomers(e) = {}
      BY <1>1, <3>1 DEF commits
    <3>3. CASE people[p].unit = unit_edit[e].name
      BY <1>1, <2>9, <3>2, <3>3, RenameTakesAll
    <3>4. CASE people[p].unit # unit_edit[e].name
      <4>1. k # unit_edit[e].unit /\ p \notin members(unit_edit[e].name)
        BY <1>1, <3>2, <3>4 DEF members
      <4>2. people'[p] = people[p] /\ catalogue'[k] = catalogue[k]
        BY <2>1, <2>9, <4>1 DEF update_org_unit
      <4> QED
        BY <1>1, <4>2
    <3> QED
      BY <3>3, <3>4
  <2>10. ASSUME NEW e \in Editors, delete_org_unit(e)
         PROVE  people'[p] = people[p] /\ catalogue'[k] = catalogue[k]
    <3>1. unit_edit'[e] = unasked /\ unit_edit[e].stage = "counted"
      BY <2>1, <2>10 DEF delete_org_unit
    <3>2. catalogue[unit_edit[e].unit] = unit_edit[e].name /\ latecomers(e) = {}
      BY <1>1, <3>1 DEF commits
    <3>3. unit_edit[e].found = {}
      BY <1>1, <3>1 DEF DirectorySafe, EditsOK
    <3>4. p \notin members(unit_edit[e].name)
      BY <3>2, <3>3 DEF latecomers
    <3>5. k # unit_edit[e].unit
      BY <1>1, <3>2, <3>4 DEF members
    <3> QED
      BY <2>1, <2>10, <3>5 DEF delete_org_unit
  <2> QED
    BY <1>1, <2>2, <2>3, <2>4, <2>5, <2>6, <2>7, <2>8, <2>9, <2>10 DEF DirectoryNext
<1>2. DirectorySafe /\ [DirectoryNext]_directory_vars =>
        [\A p \in enrolled : listed(p) /\ ~listed(p)' =>
            \E e \in Editors : /\ commits(e)
                               /\ catalogue[unit_edit[e].unit] # unit_edit[e].name \/ latecomers(e) # {}]_directory_vars
  <2> SUFFICES ASSUME DirectorySafe, DirectoryNext, NEW p \in enrolled, listed(p),
                      \A e \in Editors : commits(e) =>
                          catalogue[unit_edit[e].unit] = unit_edit[e].name /\ latecomers(e) = {}
               PROVE  listed(p)'
    OBVIOUS
  <2> QED
    BY <1>1 DEF listed
<1> QED
  BY <1>2, DirectoryStarts, DirectoryStaysSafe, PTL DEF DirectorySpec, ListedStayListed
=============================================================================
