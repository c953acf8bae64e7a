--------------------- MODULE CompanyProvisioningProofs ---------------------
(***************************************************************************)
(* Theorems about CompanyProvisioning, for any number of creations that run *)
(* beside each other, beside the requests of CompanyAccess and beside what *)
(* superusers do to the catalogue of permissions.                          *)
(***************************************************************************)
EXTENDS CompanyProvisioning, CompanyAccessProofs

-----------------------------------------------------------------------------
(* Type correctness, with the local variables a creation has at each stage. *)

DraftsReal ==
  \A k \in Creators :
    /\ stage[k] # "idle" =>
         draft[k].company \in Companies /\ draft[k].founder \in Users
    /\ stage[k] \in {"seeded", "enabled", "admitting"} =>
         \A n \in DefaultNames : draft[k].roles[n] \in Roles
    /\ stage[k] = "admitting" => draft[k].owner \in Roles

CreationTyped ==
  /\ catalogue \in [SystemPermissions \cup OwnIds ->
                      SystemPermissions \cup {"own", None}]
  /\ migrated \in BOOLEAN
  /\ made \subseteq Companies
  /\ stage \in [Creators -> Stages]
  /\ draft \in [Creators -> Draft]
  /\ refused \subseteq Creators /\ disturbed \subseteq Creators
  /\ answered \subseteq Companies
  /\ halfMade \subseteq [disturbed : BOOLEAN, lost : BOOLEAN, reserved : BOOLEAN]
  /\ DraftsReal

ProvisioningTyped == Typed /\ CreationTyped

LEMMA NoDraftType ==
  /\ NoDraft \in Draft
  /\ \A c \in Companies, u \in Users :
       /\ [NoDraft EXCEPT !.company = c, !.founder = u] \in Draft
       /\ [NoDraft EXCEPT !.company = c, !.founder = u].company = c
       /\ [NoDraft EXCEPT !.company = c, !.founder = u].founder = u
BY DEF NoDraft, Draft

LEMMA DoneTyped ==
  ASSUME CreationTyped, NEW k \in Creators, Done(k)
  PROVE  /\ stage' \in [Creators -> Stages] /\ draft' \in [Creators -> Draft]
         /\ refused' \subseteq Creators /\ DraftsReal'
         /\ stage'[k] = "idle"
         /\ \A l \in Creators \ {k} : stage'[l] = stage[l] /\ draft'[l] = draft[l]
<1>1. stage' = [stage EXCEPT ![k] = "idle"] /\ draft' = [draft EXCEPT ![k] = NoDraft]
  BY DEF Done, Continue
<1>2. /\ stage' \in [Creators -> Stages] /\ draft' \in [Creators -> Draft]
      /\ stage'[k] = "idle"
      /\ \A l \in Creators \ {k} : stage'[l] = stage[l] /\ draft'[l] = draft[l]
  BY <1>1, NoDraftType DEF CreationTyped, Stages
<1>3. DraftsReal'
  BY <1>2 DEF CreationTyped, DraftsReal
<1> QED
  BY <1>2, <1>3 DEF Done, CreationTyped

LEMMA ContinueTyped ==
  ASSUME CreationTyped, NEW k \in Creators, NEW label \in Stages, Continue(k, label)
  PROVE  /\ stage' \in [Creators -> Stages] /\ stage'[k] = label
         /\ \A l \in Creators \ {k} : stage'[l] = stage[l]
BY DEF CreationTyped, Continue

\* What a creation reads of the roles: open ones, of the names looked for.
LEMMA RolesFound ==
  ASSUME CreationTyped, NEW k \in Creators, FindRoles(k)
  PROVE  /\ draft' \in [Creators -> Draft]
         /\ \A l \in Creators \ {k} : draft'[l] = draft[l]
         /\ draft'[k].company = draft[k].company
         /\ draft'[k].founder = draft[k].founder
         /\ \A n \in DefaultNames :
              IF RolesNamed(n) = {} THEN draft'[k].roles[n] = None
                                    ELSE draft'[k].roles[n] \in RolesNamed(n)
<1> DEFINE found == [n \in DefaultNames |->
             IF RolesNamed(n) = {} THEN None ELSE CHOOSE x \in RolesNamed(n) : TRUE]
<1>1. draft' = [draft EXCEPT ![k].roles = found]
  BY DEF FindRoles
<1>2. \A n \in DefaultNames :
        IF RolesNamed(n) = {} THEN found[n] = None ELSE found[n] \in RolesNamed(n)
  OBVIOUS
<1>3. \A n : RolesNamed(n) \subseteq Roles
  BY DEF RolesNamed
<1>4. found \in [DefaultNames -> Roles \cup {None}]
  BY <1>3
<1> HIDE DEF found
<1> QED
  BY <1>1, <1>2, <1>4 DEF CreationTyped, Draft

\* The roles a creation commits with: those it found and fresh ones.
LEMMA RolesCommitted ==
  ASSUME Typed, CreationTyped, NEW k \in Creators, CommitRoles(k)
  PROVE  /\ draft' \in [Creators -> Draft]
         /\ \A l \in Creators \ {k} : draft'[l] = draft[l]
         /\ draft'[k].company = draft[k].company
         /\ draft'[k].founder = draft[k].founder
         /\ \A n \in DefaultNames :
              /\ draft'[k].roles[n] \in Roles
              /\ n \notin Missing(k) => draft'[k].roles[n] = draft[k].roles[n]
              /\ n \in Missing(k) =>
                   /\ role[draft'[k].roles[n]].state = "absent"
                   /\ role'[draft'[k].roles[n]] = [state |-> "open", name |-> n]
                   /\ \A m \in Missing(k) :
                        draft'[k].roles[m] = draft'[k].roles[n] => m = n
         /\ role' \in [Roles -> [state : RowStates, name : Names]]
         /\ \A x \in Roles : \/ role'[x] = role[x]
                             \/ \E n \in Missing(k) : draft'[k].roles[n] = x
         /\ granted' \subseteq granted \cup
              {g \in Roles \X SystemPermissions :
                 \E n \in Missing(k) : g[1] = draft'[k].roles[n]}
         /\ Missing(k) # {} => \A p \in SystemPermissions : catalogue'[p] = p
         /\ Missing(k) = {} => UNCHANGED <<role, granted, catalogue>>
         /\ catalogue' \in [SystemPermissions \cup OwnIds ->
                              SystemPermissions \cup {"own", None}]
         /\ \A p \in OwnIds \ SystemPermissions : catalogue'[p] = catalogue[p]
<1> DEFINE missing == Missing(k)
           new == CHOOSE f \in FreshRoles(missing) : TRUE
           roles == [n \in DefaultNames |->
                       IF n \in missing THEN new[n] ELSE draft[k].roles[n]]
<1>0. /\ draft \in [Creators -> Draft]
      /\ draft[k].roles \in [DefaultNames -> Roles \cup {None}]
  BY DEF CreationTyped, Draft
<1>1. new \in FreshRoles(missing)
  BY DEF CommitRoles
<1>2. /\ new \in [missing -> Roles]
      /\ \A n \in missing : role[new[n]].state = "absent"
      /\ \A m, n \in missing : new[m] = new[n] => m = n
  <2>1. /\ new \in [missing -> {x \in Roles : role[x].state = "absent"}]
        /\ IsInjective(new)
    BY <1>1 DEF FreshRoles, Injection
  <2> QED
    BY <2>1, Zenon DEF IsInjective
<1>3. /\ role' = [x \in Roles |->
           IF \E n \in missing : new[n] = x
             THEN [state |-> "open", name |-> CHOOSE n \in missing : new[n] = x]
             ELSE role[x]]
      /\ granted' = granted \cup SeedLinks(roles, missing)
      /\ catalogue' = [p \in DOMAIN catalogue |->
           IF p \in SystemPermissions /\ missing # {} THEN p ELSE catalogue[p]]
      /\ draft' = [draft EXCEPT ![k].roles = roles]
  BY DEF CommitRoles
<1>4. missing \subseteq DefaultNames /\ \A n \in DefaultNames \ missing :
        draft[k].roles[n] \in Roles
  BY <1>0 DEF Missing
<1> HIDE DEF missing, new
<1>5. roles \in [DefaultNames -> Roles]
  BY <1>2, <1>4
<1>6. /\ draft' \in [Creators -> Draft]
      /\ \A l \in Creators \ {k} : draft'[l] = draft[l]
      /\ draft'[k].company = draft[k].company
      /\ draft'[k].founder = draft[k].founder
      /\ draft'[k].roles = roles
  <2> HIDE DEF roles
  <2>1. roles \in [DefaultNames -> Roles \cup {None}]
    BY <1>5
  <2> QED
    BY <1>0, <1>3, <2>1 DEF Draft
<1>7. ASSUME NEW n \in missing
      PROVE  /\ role'[new[n]] = [state |-> "open", name |-> n]
             /\ roles[n] = new[n]
  <2>1. new[n] \in Roles /\ n \in DefaultNames
    BY <1>2, <1>4
  <2>2. (CHOOSE m \in missing : new[m] = new[n]) = n
    BY <1>2
  <2> QED
    BY <1>3, <2>1, <2>2
<1>8. ASSUME NEW x \in Roles
      PROVE  /\ role'[x] = role[x] \/ \E n \in missing : roles[n] = x
             /\ role'[x] \in [state : RowStates, name : Names]
  <2>1. CASE \E n \in missing : new[n] = x
    <3>1. PICK n \in missing : new[n] = x
      BY <2>1
    <3>2. role'[x] = [state |-> "open", name |-> n] /\ roles[n] = x
      BY <1>7, <3>1
    <3>3. n \in Names /\ "open" \in RowStates
      BY <1>4 DEF RowStates, Names
    <3>4. [state |-> "open", name |-> n] \in [state : RowStates, name : Names]
      BY <3>3
    <3> QED
      BY <1>4, <3>2, <3>4
  <2>2. CASE ~\E n \in missing : new[n] = x
    BY <1>3, <2>2 DEF Typed, AccessTypeOK
  <2> QED
    BY <2>1, <2>2
<1>9. role' \in [Roles -> [state : RowStates, name : Names]]
  <2>1. role' = [x \in Roles |-> role'[x]]
    BY <1>3
  <2> QED
    BY <1>8, <2>1
<1>10. SeedLinks(roles, missing) \subseteq
         {g \in Roles \X SystemPermissions : \E n \in missing : g[1] = roles[n]}
  <2>1. DefaultLinks \subseteq DefaultNames \X SystemPermissions
    BY CreatorAssumption DEF SystemPermissions
  <2> HIDE DEF roles
  <2> QED
    BY <1>5, <2>1 DEF SeedLinks
<1>11. /\ missing # {} => \A p \in SystemPermissions : catalogue'[p] = p
       /\ catalogue' \in [SystemPermissions \cup OwnIds ->
                            SystemPermissions \cup {"own", None}]
       /\ \A p \in OwnIds \ SystemPermissions : catalogue'[p] = catalogue[p]
  BY <1>3 DEF CreationTyped
<1>12. missing = {} => UNCHANGED <<role, granted, catalogue>>
  <2>1. SUFFICES ASSUME missing = {} PROVE UNCHANGED <<role, granted, catalogue>>
    OBVIOUS
  <2>2. role' = role
    BY <1>3, <2>1 DEF Typed, AccessTypeOK
  <2>3. SeedLinks(roles, missing) = {}
    BY <2>1 DEF SeedLinks
  <2>4. catalogue' = catalogue
    BY <1>3, <2>1 DEF CreationTyped
  <2> QED
    BY <1>3, <2>2, <2>3, <2>4
<1>13. granted' \subseteq granted \cup
         {g \in Roles \X SystemPermissions : \E n \in missing : g[1] = roles[n]}
  BY <1>3, <1>10
<1>14. \A n \in DefaultNames :
         /\ roles[n] \in Roles
         /\ n \notin missing => roles[n] = draft[k].roles[n]
         /\ n \in missing =>
              /\ role[roles[n]].state = "absent"
              /\ role'[roles[n]] = [state |-> "open", name |-> n]
              /\ \A m \in missing : roles[m] = roles[n] => m = n
  BY <1>2, <1>4, <1>5, <1>7
<1> HIDE DEF roles
<1> QED
  BY <1>6, <1>8, <1>9, <1>11, <1>12, <1>13, <1>14 DEF missing

LEMMA TypedUnlessTables ==
  ASSUME Typed, UNCHANGED <<pc, req>>, TablesTyped'
  PROVE  Typed'
BY DEF Typed, AccessTypeOK, RequestsReal, TablesTyped

LEMMA TypedUnchanged ==
  ASSUME Typed, UNCHANGED vars
  PROVE  Typed'
BY StepTyped

\* The records of one company that EnableRoles writes.
LEMMA RolesEnabled ==
  ASSUME Typed, CreationTyped, NEW k \in Creators, EnableRoles(k)
  PROVE  /\ enabled' \in [Companies \X Roles -> RowStates]
         /\ draft[k].company \in Companies
         /\ \A n \in DefaultNames :
              /\ draft[k].roles[n] \in Roles
              /\ enabled'[draft[k].company, draft[k].roles[n]] = "open"
         /\ \A c \in Companies : \A x \in Roles :
              c # draft[k].company => enabled'[c, x] = enabled[c, x]
         /\ \A c \in Companies : \A x \in Roles :
              enabled[c, x] # "absent" => enabled'[c, x] # "absent"
<1> DEFINE d == draft[k].company
           roles == {draft[k].roles[n] : n \in DefaultNames}
<1>1. enabled \in [Companies \X Roles -> RowStates]
  BY DEF Typed, AccessTypeOK
<1>2. enabled' = [cx \in Companies \X Roles |->
        IF cx[1] = d /\ cx[2] \in roles THEN "open" ELSE enabled[cx]]
  BY <1>1 DEF EnableRoles
<1>3. d \in Companies /\ \A n \in DefaultNames : draft[k].roles[n] \in Roles
  BY DEF EnableRoles, CreationTyped, DraftsReal
<1>4. \A n \in DefaultNames : draft[k].roles[n] \in roles
  OBVIOUS
<1> HIDE DEF d, roles
<1>5. enabled' \in [Companies \X Roles -> RowStates]
  BY <1>1, <1>2 DEF RowStates
<1>6. ASSUME NEW c \in Companies, NEW x \in Roles
      PROVE  enabled'[c, x] = IF c = d /\ x \in roles THEN "open" ELSE enabled[c, x]
  BY <1>2
<1>7. \A n \in DefaultNames : enabled'[d, draft[k].roles[n]] = "open"
  BY <1>3, <1>4, <1>6
<1>8. /\ \A c \in Companies : \A x \in Roles :
           c # d => enabled'[c, x] = enabled[c, x]
      /\ \A c \in Companies : \A x \in Roles :
           enabled[c, x] # "absent" => enabled'[c, x] # "absent"
  BY <1>6
<1> QED
  BY <1>3, <1>5, <1>7, <1>8 DEF d

LEMMA StepProvisioningTyped ==
  ASSUME ProvisioningTyped, [ProvisioningNext]_allVars
  PROVE  ProvisioningTyped'
<1>0. Typed /\ CreationTyped /\ TablesTyped /\ None \notin Roles
  BY TypedMeans, RequestAssumption DEF ProvisioningTyped
<1>1. CASE AccessStep
  <2>1. Typed'
    BY <1>0, <1>1, StepTyped DEF AccessStep
  <2>2. Busy \subseteq Creators
    BY DEF Busy
  <2> QED
    BY <1>0, <1>1, <2>1, <2>2
       DEF AccessStep, permissions, CreationTyped, DraftsReal, ProvisioningTyped
<1>2. CASE CatalogueStep
  <2>1. /\ UNCHANGED <<vars, migrated, made, stage, draft, refused, disturbed,
                        answered, halfMade>>
        /\ catalogue' \in [SystemPermissions \cup OwnIds ->
                              SystemPermissions \cup {"own", None}]
    BY <1>0, <1>2
       DEF CatalogueStep, CreatePermission, RenamePermission, DeletePermission,
           KeepCatalogue, CreationTyped
  <2> QED
    BY <1>0, <2>1, TypedUnchanged DEF CreationTyped, DraftsReal, ProvisioningTyped
<1>3. ASSUME NEW k \in Creators, NEW u \in Users, NEW c \in Companies,
             BeginCreation(k, u, c)
      PROVE  ProvisioningTyped'
  <2>1. /\ stage' \in [Creators -> Stages] /\ stage'[k] = "checked"
        /\ \A l \in Creators \ {k} : stage'[l] = stage[l]
    BY <1>0, <1>3, ContinueTyped DEF BeginCreation, Stages
  <2>2. /\ draft' \in [Creators -> Draft]
        /\ draft'[k].company = c /\ draft'[k].founder = u
        /\ \A l \in Creators \ {k} : draft'[l] = draft[l]
    <3> DEFINE d == [NoDraft EXCEPT !.company = c, !.founder = u]
    <3>1. d \in Draft
      BY NoDraftType
    <3>2. d.company = c /\ d.founder = u
      BY DEF NoDraft
    <3>3. draft \in [Creators -> Draft] /\ draft' = [draft EXCEPT ![k] = d]
      BY <1>0, <1>3 DEF BeginCreation, CreationTyped
    <3> HIDE DEF d
    <3> QED
      BY <3>1, <3>2, <3>3
  <2>3. DraftsReal'
    BY <1>0, <2>1, <2>2 DEF CreationTyped, DraftsReal
  <2> QED
    BY <1>0, <1>3, <2>1, <2>2, <2>3, TypedUnchanged
       DEF BeginCreation, permissions, CreationTyped, ProvisioningTyped
<1>4. ASSUME NEW k \in Creators, InsertCompany(k) PROVE ProvisioningTyped'
  <2>1. draft[k].company \in Companies
    BY <1>0, <1>4 DEF InsertCompany, CreationTyped, DraftsReal
  <2>2. /\ made' \subseteq Companies /\ openCompany' \subseteq Companies
    BY <1>0, <1>4, <2>1 DEF InsertCompany, CreationTyped, TablesTyped
  <2>3. Typed'
    BY <1>0, <1>4, <2>2, TypedUnlessTables DEF InsertCompany, TablesTyped
  <2>4. /\ stage' \in [Creators -> Stages] /\ draft' \in [Creators -> Draft]
        /\ refused' \subseteq Creators /\ DraftsReal'
    <3>1. CASE Done(k)
      BY <1>0, <3>1, DoneTyped
    <3>2. CASE Continue(k, "inserted") /\ UNCHANGED <<draft, refused>>
      <4>1. /\ stage' \in [Creators -> Stages] /\ stage'[k] = "inserted"
            /\ \A l \in Creators \ {k} : stage'[l] = stage[l]
        BY <1>0, <3>2, ContinueTyped DEF Stages
      <4> QED
        BY <1>0, <1>4, <3>2, <4>1 DEF InsertCompany, CreationTyped, DraftsReal
    <3> QED
      BY <1>4, <3>1, <3>2 DEF InsertCompany
  <2> QED
    BY <1>0, <1>4, <2>2, <2>3, <2>4
       DEF InsertCompany, permissions, CreationTyped, ProvisioningTyped
<1>5. ASSUME NEW k \in Creators, FindRoles(k) PROVE ProvisioningTyped'
  <2>1. /\ stage' \in [Creators -> Stages] /\ stage'[k] = "found"
        /\ \A l \in Creators \ {k} : stage'[l] = stage[l]
    BY <1>0, <1>5, ContinueTyped DEF FindRoles, Stages
  <2>2. DraftsReal'
    BY <1>0, <1>5, <2>1, RolesFound DEF CreationTyped, DraftsReal, FindRoles
  <2>3. refused' \subseteq Creators
    BY <1>0, <1>5 DEF FindRoles, CreationTyped
  <2> QED
    BY <1>0, <1>5, <2>1, <2>2, <2>3, RolesFound, TypedUnchanged
       DEF FindRoles, permissions, CreationTyped, ProvisioningTyped
<1>6. ASSUME NEW k \in Creators, CommitRoles(k) PROVE ProvisioningTyped'
  <2>1. /\ stage' \in [Creators -> Stages] /\ stage'[k] = "seeded"
        /\ \A l \in Creators \ {k} : stage'[l] = stage[l]
    BY <1>0, <1>6, ContinueTyped DEF CommitRoles, Stages
  <2>2. /\ role' \in [Roles -> [state : RowStates, name : Names]]
        /\ granted' \subseteq Roles \X SystemPermissions
        /\ draft' \in [Creators -> Draft]
        /\ catalogue' \in [SystemPermissions \cup OwnIds ->
                              SystemPermissions \cup {"own", None}]
    BY <1>0, <1>6, RolesCommitted DEF TablesTyped
  <2>3. DraftsReal'
    <3>1. /\ \A l \in Creators \ {k} : draft'[l] = draft[l]
          /\ draft'[k].company = draft[k].company
          /\ draft'[k].founder = draft[k].founder
          /\ \A n \in DefaultNames : draft'[k].roles[n] \in Roles
      BY <1>0, <1>6, RolesCommitted
    <3>2. stage[k] = "found"
      BY <1>6 DEF CommitRoles
    <3> QED
      BY <1>0, <2>1, <3>1, <3>2 DEF CreationTyped, DraftsReal
  <2>4. Typed'
    BY <1>0, <1>6, <2>2, TypedUnlessTables DEF CommitRoles, TablesTyped
  <2>5. disturbed' \subseteq Creators
    BY <1>0, <1>6 DEF CommitRoles, CreationTyped, Busy
  <2> QED
    BY <1>0, <1>6, <2>1, <2>2, <2>3, <2>4, <2>5
       DEF CommitRoles, CreationTyped, ProvisioningTyped
<1>7. ASSUME NEW k \in Creators, EnableRoles(k) PROVE ProvisioningTyped'
  <2>1. /\ stage' \in [Creators -> Stages] /\ stage'[k] = "enabled"
        /\ \A l \in Creators \ {k} : stage'[l] = stage[l]
    BY <1>0, <1>7, ContinueTyped DEF EnableRoles, Stages
  <2>2. Typed'
    BY <1>0, <1>7, RolesEnabled, TypedUnlessTables DEF EnableRoles, TablesTyped
  <2>3. DraftsReal'
    BY <1>0, <1>7, <2>1 DEF EnableRoles, CreationTyped, DraftsReal
  <2> QED
    BY <1>0, <1>7, <2>1, <2>2, <2>3
       DEF EnableRoles, permissions, CreationTyped, ProvisioningTyped
<1>8. ASSUME NEW k \in Creators, AdmitFounder(k) PROVE ProvisioningTyped'
  <2>1. /\ stage' \in [Creators -> Stages] /\ stage'[k] = "admitting"
        /\ \A l \in Creators \ {k} : stage'[l] = stage[l]
    BY <1>0, <1>8, ContinueTyped DEF AdmitFounder, Stages
  <2>2. PICK x \in Roles : draft' = [draft EXCEPT ![k].owner = x]
    BY <1>8 DEF AdmitFounder, OwnerRoles, RolesNamed
  <2>3. /\ draft' \in [Creators -> Draft] /\ draft'[k].owner = x
        /\ draft'[k].company = draft[k].company
        /\ draft'[k].founder = draft[k].founder /\ draft'[k].roles = draft[k].roles
        /\ \A l \in Creators \ {k} : draft'[l] = draft[l]
    BY <1>0, <2>2 DEF CreationTyped, Draft
  <2>4. DraftsReal'
    BY <1>0, <1>8, <2>1, <2>3 DEF AdmitFounder, CreationTyped, DraftsReal
  <2> QED
    BY <1>0, <1>8, <2>1, <2>3, <2>4, TypedUnchanged
       DEF AdmitFounder, permissions, CreationTyped, ProvisioningTyped
<1>9. ASSUME NEW k \in Creators, CommitFounder(k) PROVE ProvisioningTyped'
  <2>1. /\ draft[k].company \in Companies /\ draft[k].founder \in Users
        /\ draft[k].owner \in Roles
    BY <1>0, <1>9 DEF CommitFounder, CreationTyped, DraftsReal
  <2>2. member' \in [Users \X Companies -> [state : RowStates, role : Roles]]
    BY <1>0, <1>9, <2>1 DEF CommitFounder, TablesTyped, RowStates
  <2>3. Typed'
    BY <1>0, <1>9, <2>2, TypedUnlessTables DEF CommitFounder, TablesTyped
  <2> QED
    BY <1>0, <1>9, <2>1, <2>3, DoneTyped
       DEF CommitFounder, permissions, CreationTyped, ProvisioningTyped
<1>10. ASSUME NEW k \in Creators, CreationFails(k) PROVE ProvisioningTyped'
  <2>1. halfMade' \subseteq [disturbed : BOOLEAN, lost : BOOLEAN, reserved : BOOLEAN]
    <3> DEFINE d == k \in disturbed
               v == k \in refused \/ Reserved
               h == [disturbed |-> d, lost |-> NameLost, reserved |-> v]
    <3>1. d \in BOOLEAN
      OBVIOUS
    <3>2. NameLost \in BOOLEAN
      BY Zenon DEF NameLost
    <3>3. v \in BOOLEAN
      BY Zenon
    <3>4. halfMade' = halfMade \cup {h}
      BY <1>10 DEF CreationFails
    <3> HIDE DEF d, v
    <3>5. h \in [disturbed : BOOLEAN, lost : BOOLEAN, reserved : BOOLEAN]
      BY <3>1, <3>2, <3>3, Zenon
    <3> QED
      BY <1>0, <3>4, <3>5 DEF CreationTyped
  <2> QED
    BY <1>0, <1>10, <2>1, DoneTyped, TypedUnchanged
       DEF CreationFails, permissions, CreationTyped, ProvisioningTyped
<1>11. ASSUME NEW k \in Creators, Dies(k) PROVE ProvisioningTyped'
  BY <1>0, <1>11, DoneTyped, TypedUnchanged
     DEF Dies, permissions, CreationTyped, ProvisioningTyped
<1>12. CASE UNCHANGED allVars
  BY <1>0, <1>12, TypedUnchanged
     DEF allVars, provisioning, permissions, CreationTyped, DraftsReal,
         ProvisioningTyped
<1> QED
  BY <1>1, <1>2, <1>3, <1>4, <1>5, <1>6, <1>7, <1>8, <1>9, <1>10, <1>11, <1>12
     DEF ProvisioningNext, CreationStep

LEMMA InitProvisioningTyped == ProvisioningInit => ProvisioningTyped
<1> SUFFICES ASSUME ProvisioningInit PROVE ProvisioningTyped
  OBVIOUS
<1>1. (CHOOSE x \in Roles : TRUE) \in Roles
  BY RoleAssumption
<1>2. TablesTyped
  BY <1>1 DEF ProvisioningInit, TablesTyped, RowStates, Names
<1>3. RequestsTyped
  BY NoRequestType DEF ProvisioningInit, RequestsTyped, RequestsReal, Pcs
<1>4. CreationTyped
  BY NoDraftType DEF ProvisioningInit, CreationTyped, DraftsReal, Stages
<1> QED
  BY <1>2, <1>3, <1>4, TypedMeans DEF ProvisioningTyped

\* Every variable of CompanyProvisioning keeps its type.
THEOREM ProvisioningTypeCorrect == ProvisioningSpec => []ProvisioningTypeOK
<1>1. ProvisioningTyped => ProvisioningTypeOK
  BY DEF ProvisioningTyped, Typed, CreationTyped, ProvisioningTypeOK
<1> QED
  BY <1>1, InitProvisioningTyped, StepProvisioningTyped, PTL DEF ProvisioningSpec

-----------------------------------------------------------------------------
(* The catalogue.  An id of the system's is unused or has its own name, and  *)
(* a request for a link is about a permission that exists.                 *)

CatalogueInv ==
  /\ \A p \in SystemPermissions : catalogue[p] \in {p, None}
  /\ \A r \in Requests :
       pc[r] # "idle" /\ req[r].op \in {"grant", "revoke"} =>
         catalogue[req[r].permission] # None
  /\ SystemPermissionsHold
  /\ migrated => refused = {}

\* Requests add a link to a role only where a superuser asked for it.
LEMMA LinksGranted ==
  ASSUME AccessNext, NEW g \in granted', g \notin granted
  PROVE  \E r \in Requests :
           /\ pc[r] = "checked" /\ req[r].op = "grant"
           /\ g = <<req[r].role, req[r].permission>>
<1>1. PICK r \in Requests : Commit(r)
  BY StepMoves DEF CloseAccount, tables
<1>2. CommitGrant(r)
  BY <1>1
     DEF Commit, CommitAdd, CommitUpdate, CommitRemove, CommitAssign, AssignNext,
         CommitAssignNext, CommitUnassign, CommitReassign, CommitRole, CommitRename,
         CommitDeleteRole, CommitPlatform, CommitNewPermission,
         CommitDropPermission, CommitAttach, CommitDetach, CommitDeleteCompany,
         tables
<1> QED
  BY <1>2 DEF CommitGrant, Committing

\* Nothing but the default roles' links and superusers change granted.
LEMMA StepLinksNotRestored ==
  ASSUME ProvisioningTyped, ProvisioningNext, NEW g \in granted', g \notin granted
  PROVE  \/ role[g[1]].state = "absent"
         \/ \E r \in Requests : pc[r] = "checked" /\ req[r].op = "grant"
<1>1. CASE AccessStep
  BY <1>1, LinksGranted DEF AccessStep
<1>2. CASE CatalogueStep
  BY <1>2
     DEF CatalogueStep, CreatePermission, RenamePermission, DeletePermission,
         KeepCatalogue, vars, tables
<1>3. ASSUME NEW k \in Creators, CommitRoles(k)
      PROVE  role[g[1]].state = "absent"
  <2>1. PICK n \in Missing(k) : g[1] = draft'[k].roles[n]
    BY <1>3, RolesCommitted DEF ProvisioningTyped
  <2>2. n \in DefaultNames
    BY DEF Missing
  <2>3. role[draft'[k].roles[n]].state = "absent"
    BY <1>3, <2>1, <2>2, RolesCommitted, ZenonT(30) DEF ProvisioningTyped
  <2> QED
    BY <2>1, <2>3
<1>4. ASSUME NEW k \in Creators, CreationStep(k), ~CommitRoles(k)
      PROVE  granted' = granted
  BY <1>4
     DEF CreationStep, BeginCreation, InsertCompany, FindRoles, EnableRoles,
         AdmitFounder, CommitFounder, CreationFails, Dies, vars, tables
<1> QED
  BY <1>1, <1>2, <1>3, <1>4 DEF ProvisioningNext

\* A permission taken from a default role stays away when further companies are
\* created, whatever else is going on.
THEOREM LinksStayRemoved == ProvisioningSpec => LinksNotRestored
<1>1. ProvisioningTyped /\ [ProvisioningNext]_allVars =>
        [\A g \in granted' \ granted :
           \/ role[g[1]].state = "absent"
           \/ \E r \in Requests : pc[r] = "checked" /\ req[r].op = "grant"]_granted
  BY StepLinksNotRestored DEF allVars, vars, tables
<1> QED
  BY <1>1, InitProvisioningTyped, StepProvisioningTyped, PTL
     DEF ProvisioningSpec, LinksNotRestored

LEMMA ReservedUnchanged ==
  ASSUME UNCHANGED catalogue
  PROVE  Reserved' = Reserved
BY Zenon DEF Reserved

LEMMA StepCatalogue ==
  ASSUME ProvisioningTyped, CatalogueInv, [ProvisioningNext]_allVars
  PROVE  CatalogueInv'
<1> DEFINE Sys == SystemPermissions
<1>0. /\ Typed /\ TablesTyped /\ CreationTyped
      /\ catalogue \in [Sys \cup OwnIds -> Sys \cup {"own", None}]
      /\ {None, "own"} \cap Sys = {} /\ OwnIds \cap Sys = {}
  BY TypedMeans, CreatorAssumption DEF ProvisioningTyped, CreationTyped
<1>1. /\ \A p \in Sys : catalogue[p] \in {p, None}
      /\ \A r \in Requests :
           pc[r] # "idle" /\ req[r].op \in {"grant", "revoke"} =>
             catalogue[req[r].permission] # None
      /\ \A g \in granted : catalogue[g[2]] = g[2]
      /\ migrated => ~Reserved /\ refused = {} /\ \A p \in Sys : catalogue[p] = p
  BY DEF CatalogueInv, SystemPermissionsHold
<1>2. ASSUME NEW r \in Requests, pc[r] # "idle", req[r].op \in {"grant", "revoke"}
      PROVE  req[r].permission \in Sys
  BY <1>0, <1>2 DEF Typed, RequestsReal, Wellformed
<1>3. CASE AccessStep
  <2>1. UNCHANGED <<catalogue, migrated, refused>> /\ AccessNext
    BY <1>3 DEF AccessStep, permissions
  <2>2. \A r \in Requests : req'[r].op \in {"grant", "revoke"} =>
          catalogue'[req'[r].permission] # None
    BY <1>3, <2>1 DEF AccessStep
  <2>3. ASSUME NEW g \in granted' PROVE catalogue'[g[2]] = g[2]
    <3>1. CASE g \in granted
      BY <1>1, <2>1, <3>1
    <3>2. CASE g \notin granted
      <4>1. PICK r \in Requests : /\ pc[r] = "checked" /\ req[r].op = "grant"
                                  /\ g = <<req[r].role, req[r].permission>>
        BY <2>1, <3>2, LinksGranted
      <4>2. catalogue[req[r].permission] = req[r].permission
        BY <1>1, <1>2, <4>1
      <4> QED
        BY <2>1, <4>1, <4>2
    <3> QED
      BY <3>1, <3>2
  <2> QED
    BY <1>1, <2>1, <2>2, <2>3, ReservedUnchanged
       DEF CatalogueInv, SystemPermissionsHold
<1>4. CASE CatalogueStep
  <2>1. PICK p \in Sys \cup OwnIds :
          \/ \E name \in Sys \cup {"own"} :
               CreatePermission(p, name) \/ RenamePermission(p, name)
          \/ DeletePermission(p)
    BY <1>0, <1>4 DEF CatalogueStep
  <2>2. /\ p \notin Sys
        /\ UNCHANGED <<pc, req, granted, migrated, refused>>
        /\ \E value \in Sys \cup {"own", None} :
             /\ catalogue' = [catalogue EXCEPT ![p] = value]
             /\ value \in Sys => \A d \in Sys \cup OwnIds : catalogue[d] # value
    BY <1>0, <2>1
       DEF CreatePermission, RenamePermission, DeletePermission, KeepCatalogue,
           PermissionNameFree, vars, tables
  <2>3. PICK value \in Sys \cup {"own", None} :
          /\ catalogue' = [catalogue EXCEPT ![p] = value]
          /\ value \in Sys => \A d \in Sys \cup OwnIds : catalogue[d] # value
    BY <2>2
  <2>4. /\ DOMAIN catalogue' = DOMAIN catalogue
        /\ \A d \in Sys : catalogue'[d] = catalogue[d]
    BY <1>0, <2>2, <2>3
  <2>5. ASSUME migrated PROVE ~Reserved'
    <3>1. value \notin Sys
      BY <1>1, <2>3, <2>5
    <3>2. ASSUME NEW d \in Sys, NEW e \in Sys \cup OwnIds, e # d
          PROVE  catalogue'[d] = d /\ catalogue'[e] # d
      BY <1>0, <1>1, <2>3, <2>4, <2>5, <3>1, <3>2 DEF Reserved
    <3>3. \A d \in Sys : catalogue'[d] = d
      BY <1>1, <2>4, <2>5
    <3> QED
      BY <1>0, <2>4, <3>2, <3>3 DEF Reserved
  <2>6. \A g \in granted : g[2] \in Sys
    BY <1>0 DEF TablesTyped
  <2> QED
    BY <1>1, <1>2, <2>2, <2>4, <2>5, <2>6 DEF CatalogueInv, SystemPermissionsHold
<1>5. ASSUME NEW k \in Creators, CommitRoles(k) PROVE CatalogueInv'
  <2>1. CASE Missing(k) = {}
    <3>1. UNCHANGED <<granted, catalogue, pc, req, migrated, refused>>
      BY <1>0, <1>5, <2>1, RolesCommitted DEF CommitRoles
    <3> QED
      BY <1>1, <3>1, ReservedUnchanged DEF CatalogueInv, SystemPermissionsHold
  <2>2. CASE Missing(k) # {}
    <3>1. UNCHANGED <<pc, req, migrated, refused>>
      BY <1>5 DEF CommitRoles
    <3>2. /\ \A p \in Sys : catalogue'[p] = p
          /\ catalogue' \in [Sys \cup OwnIds -> Sys \cup {"own", None}]
          /\ \A p \in OwnIds \ Sys : catalogue'[p] = catalogue[p]
          /\ \A g \in granted' : g \in granted \/ g[2] \in Sys
      BY <1>0, <1>5, <2>2, RolesCommitted
    <3>3. \A g \in granted' : g[2] \in Sys
      BY <1>0, <3>2 DEF TablesTyped
    <3>4. ASSUME migrated PROVE ~Reserved'
      BY <1>0, <1>1, <3>2, <3>4 DEF Reserved
    <3>5. \A r \in Requests :
            pc[r] # "idle" /\ req[r].op \in {"grant", "revoke"} =>
              catalogue'[req[r].permission] # None
      BY <1>0, <1>2, <3>2
    <3> QED
      BY <1>1, <3>1, <3>2, <3>3, <3>4, <3>5 DEF CatalogueInv, SystemPermissionsHold
  <2> QED
    BY <2>1, <2>2
<1>6. ASSUME NEW k \in Creators, CreationStep(k), ~CommitRoles(k)
      PROVE  CatalogueInv'
  <2>1. UNCHANGED <<granted, catalogue, pc, req, migrated>>
    BY <1>6
       DEF CreationStep, BeginCreation, InsertCompany, FindRoles, EnableRoles,
           AdmitFounder, CommitFounder, CreationFails, Dies, vars, tables, permissions
  <2>2. migrated => refused' \subseteq refused
    BY <1>1, <1>6
       DEF CreationStep, BeginCreation, InsertCompany, FindRoles, EnableRoles,
           AdmitFounder, CommitFounder, CreationFails, Dies, Done
  <2> QED
    BY <1>1, <2>1, <2>2, ReservedUnchanged DEF CatalogueInv, SystemPermissionsHold
<1>7. CASE UNCHANGED allVars
  <2>1. UNCHANGED <<granted, catalogue, pc, req, migrated, refused>>
    BY <1>7 DEF allVars, vars, tables, provisioning, permissions
  <2> QED
    BY <1>1, <2>1, ReservedUnchanged DEF CatalogueInv, SystemPermissionsHold
<1> QED
  BY <1>3, <1>4, <1>5, <1>6, <1>7 DEF ProvisioningNext

LEMMA InitCatalogue == ProvisioningInit => CatalogueInv
BY CreatorAssumption
   DEF ProvisioningInit, CatalogueInv, SystemPermissionsHold, Reserved

\* Whatever superusers do to the catalogue, roles are linked to the permissions
\* of the system under their own names, and a migrated database keeps them all.
THEOREM SystemPermissionsAlwaysHold ==
  ProvisioningSpec => []SystemPermissionsHold
<1>1. CatalogueInv => SystemPermissionsHold
  BY DEF CatalogueInv
<1> QED
  BY <1>1, InitProvisioningTyped, StepProvisioningTyped, InitCatalogue,
     StepCatalogue, PTL DEF ProvisioningSpec

-----------------------------------------------------------------------------
(* What a creation relies on between its commits: roles may be renamed,      *)
(* deleted and taken from the company meanwhile, but no record vanishes.   *)

LEMMA OthersContinue ==
  ASSUME ProvisioningTyped, NEW k \in Creators, CreationStep(k)
  PROVE  /\ UNCHANGED <<pc, req, owner, attached>>
         /\ \A l \in Creators \ {k} : stage'[l] = stage[l] /\ draft'[l] = draft[l]
<1>1. UNCHANGED <<pc, req, owner, attached>>
  BY DEF CreationStep, BeginCreation, InsertCompany, FindRoles, CommitRoles,
         EnableRoles, AdmitFounder, CommitFounder, CreationFails, Dies, vars, tables
<1>2. stage \in [Creators -> Stages] /\ draft \in [Creators -> Draft]
  BY DEF ProvisioningTyped, CreationTyped
<1>3. \A l \in Creators \ {k} : stage'[l] = stage[l] /\ draft'[l] = draft[l]
  BY <1>2
     DEF CreationStep, BeginCreation, InsertCompany, FindRoles, CommitRoles,
         EnableRoles, AdmitFounder, CommitFounder, CreationFails, Dies, Done,
         Continue
<1> QED
  BY <1>1, <1>3

RolesPersist ==
  \A x \in Roles : role[x].state # "absent" => role'[x].state # "absent"

LEMMA AccessRolesPersist ==
  ASSUME Typed, AccessNext
  PROVE  RolesPersist
<1>0. role \in [Roles -> [state : RowStates, name : Names]]
  BY DEF Typed, AccessTypeOK
<1>1. ASSUME NEW r \in Requests, Commit(r),
             ~CommitRole(r), ~CommitRename(r), ~CommitDeleteRole(r)
      PROVE  role' = role
  BY <1>1
     DEF Commit, CommitAdd, CommitUpdate, CommitRemove, CommitAssign, AssignNext,
         CommitAssignNext, CommitUnassign, CommitReassign, CommitGrant,
         CommitPlatform, CommitNewPermission, CommitDropPermission, CommitAttach,
         CommitDetach, CommitDeleteCompany, tables
<1>2. ASSUME NEW r \in Requests,
             CommitRole(r) \/ CommitRename(r) \/ CommitDeleteRole(r)
      PROVE  RolesPersist
  BY <1>0, <1>2 DEF CommitRole, CommitRename, CommitDeleteRole, RolesPersist
<1> QED
  BY <1>1, <1>2, StepMoves DEF CloseAccount, tables, RolesPersist

LEMMA ProvisioningPersists ==
  ASSUME ProvisioningTyped, [ProvisioningNext]_allVars
  PROVE  Persists /\ RolesPersist
<1>0. Typed /\ TablesTyped /\ CreationTyped
  BY TypedMeans DEF ProvisioningTyped
<1>1. UNCHANGED <<enabled, member, owner, role>> => Persists /\ RolesPersist
  BY RecordsUntouched DEF RolesPersist
<1>2. CASE AccessStep
  BY <1>0, <1>2, StepPersists, AccessRolesPersist DEF AccessStep
<1>3. CASE CatalogueStep
  BY <1>1, <1>3
     DEF CatalogueStep, CreatePermission, RenamePermission, DeletePermission,
         KeepCatalogue, vars, tables
<1>4. ASSUME NEW k \in Creators, CommitRoles(k) PROVE Persists /\ RolesPersist
  <2>1. \A x \in Roles : role'[x] = role[x] \/ role[x].state = "absent"
    <3>1. ASSUME NEW n \in Missing(k)
          PROVE  role[draft'[k].roles[n]].state = "absent"
      <4>1. n \in DefaultNames
        BY DEF Missing
      <4> QED
        BY <1>0, <1>4, <4>1, RolesCommitted
    <3>2. \A x \in Roles : \/ role'[x] = role[x]
                           \/ \E n \in Missing(k) : draft'[k].roles[n] = x
      BY <1>0, <1>4, RolesCommitted
    <3> QED
      BY <3>1, <3>2
  <2> QED
    BY <1>4, <2>1, RecordsUntouched DEF CommitRoles, RolesPersist
<1>5. ASSUME NEW k \in Creators, EnableRoles(k) PROVE Persists /\ RolesPersist
  BY <1>0, <1>5, RolesEnabled DEF EnableRoles, Persists, RolesPersist
<1>6. ASSUME NEW k \in Creators, CommitFounder(k) PROVE Persists /\ RolesPersist
  BY <1>0, <1>6 DEF CommitFounder, TablesTyped, Persists, RolesPersist
<1>7. ASSUME NEW k \in Creators, CreationStep(k),
             ~CommitRoles(k), ~EnableRoles(k), ~CommitFounder(k)
      PROVE  Persists /\ RolesPersist
  BY <1>1, <1>7
     DEF CreationStep, BeginCreation, InsertCompany, FindRoles, AdmitFounder,
         CreationFails, Dies, vars, tables
<1>8. CASE UNCHANGED allVars
  BY <1>1, <1>8 DEF allVars, vars, tables
<1> QED
  BY <1>2, <1>3, <1>4, <1>5, <1>6, <1>7, <1>8 DEF ProvisioningNext

\* A creation has found or made a role of its own for each default name.
RolesApart ==
  \A k \in Creators :
    stage[k] \in {"found", "seeded", "enabled", "admitting"} =>
      \A m \in DefaultNames : draft[k].roles[m] # None =>
        /\ role[draft[k].roles[m]].state # "absent"
        /\ \A n \in DefaultNames :
             draft[k].roles[m] = draft[k].roles[n] => m = n

\* The company has these roles, and the one its founder will get.
RolesKnown ==
  \A k \in Creators :
    /\ stage[k] \in {"enabled", "admitting"} =>
         \A n \in DefaultNames :
           enabled[draft[k].company, draft[k].roles[n]] # "absent"
    /\ stage[k] = "admitting" =>
         enabled[draft[k].company, draft[k].owner] # "absent"

LEMMA StepRolesApart ==
  ASSUME ProvisioningTyped, RolesApart, [ProvisioningNext]_allVars
  PROVE  RolesApart'
<1> DEFINE Apart(l) ==
      stage[l] \in {"found", "seeded", "enabled", "admitting"} =>
        \A m \in DefaultNames : draft[l].roles[m] # None =>
          /\ role[draft[l].roles[m]].state # "absent"
          /\ \A n \in DefaultNames :
               draft[l].roles[m] = draft[l].roles[n] => m = n
<1>0. /\ Typed /\ CreationTyped /\ RolesPersist /\ None \notin Roles
      /\ \A l \in Creators, n \in DefaultNames :
           draft[l].roles[n] \in Roles \cup {None}
  BY ProvisioningPersists, RequestAssumption
     DEF ProvisioningTyped, CreationTyped, Draft
<1>1. ASSUME NEW l \in Creators,
             stage'[l] \in {"found", "seeded", "enabled", "admitting"} =>
               /\ stage[l] \in {"found", "seeded", "enabled", "admitting"}
               /\ draft'[l].roles = draft[l].roles
      PROVE  Apart(l)'
  BY <1>0, <1>1 DEF RolesApart, RolesPersist
<1>2. ASSUME NEW k \in Creators, FindRoles(k) PROVE Apart(k)'
  <2>1. \A n \in DefaultNames : draft'[k].roles[n] # None =>
          draft'[k].roles[n] \in RolesNamed(n)
    BY <1>0, <1>2, RolesFound
  <2>2. role' = role
    BY <1>2 DEF FindRoles, vars, tables
  <2> QED
    BY <2>1, <2>2 DEF RolesNamed, RoleOpen
<1>3. ASSUME NEW k \in Creators, CommitRoles(k) PROVE Apart(k)'
  <2> DEFINE new == draft'[k].roles
             old == draft[k].roles
  <2>1. /\ \A n \in DefaultNames \ Missing(k) : new[n] = old[n] /\ old[n] \in Roles
        /\ \A n \in Missing(k) : /\ new[n] \in Roles
                                 /\ role[new[n]].state = "absent"
                                 /\ role'[new[n]].state = "open"
                                 /\ \A m \in Missing(k) : new[m] = new[n] => m = n
    <3>1. \A n \in DefaultNames \ Missing(k) : old[n] \in Roles
      BY <1>0 DEF Missing
    <3>2. Missing(k) \subseteq DefaultNames
      BY DEF Missing
    <3>3. \A n \in DefaultNames :
            /\ new[n] \in Roles
            /\ n \notin Missing(k) => new[n] = old[n]
            /\ n \in Missing(k) =>
                 /\ role[new[n]].state = "absent"
                 /\ role'[new[n]] = [state |-> "open", name |-> n]
                 /\ \A m \in Missing(k) : new[m] = new[n] => m = n
      BY <1>0, <1>3, RolesCommitted, Zenon
    <3>4. ASSUME NEW n \in Missing(k) PROVE role'[new[n]].state = "open"
      <4>1. n \in DefaultNames
        BY <3>2
      <4>2. role'[new[n]] = [state |-> "open", name |-> n]
        BY <3>3, <4>1
      <4> HIDE DEF new
      <4> QED
        BY <4>2
    <3> QED
      BY <3>1, <3>2, <3>3, <3>4, Zenon
  <2>2. \A n \in DefaultNames \ Missing(k) :
          /\ role[old[n]].state # "absent"
          /\ \A m \in DefaultNames : old[m] = old[n] => m = n
    BY <1>0, <1>3, <2>1 DEF RolesApart, CommitRoles
  <2> HIDE DEF new, old
  <2>3. \A n \in DefaultNames : role'[new[n]].state # "absent"
    BY <1>0, <2>1, <2>2 DEF RolesPersist
  <2>4. \A m, n \in DefaultNames : new[m] = new[n] => m = n
    BY <2>1, <2>2
  <2> QED
    BY <2>3, <2>4 DEF new
<1>4. ASSUME NEW k \in Creators, CreationStep(k), ~FindRoles(k), ~CommitRoles(k)
      PROVE  Apart(k)'
  <2>1. stage'[k] \in {"found", "seeded", "enabled", "admitting"} =>
          /\ stage[k] \in {"found", "seeded", "enabled", "admitting"}
          /\ draft'[k].roles = draft[k].roles
    BY <1>0, <1>4, ZenonT(30)
       DEF CreationStep, BeginCreation, InsertCompany, EnableRoles, AdmitFounder,
           CommitFounder, CreationFails, Dies, Done, Continue, CreationTyped, Draft
  <2> QED
    BY <1>1, <2>1
<1>5. ASSUME UNCHANGED <<stage, draft>> PROVE RolesApart'
  BY <1>1, <1>5 DEF RolesApart
<1>6. ASSUME NEW k \in Creators, CreationStep(k) PROVE RolesApart'
  <2>1. \A l \in Creators \ {k} : Apart(l)'
    BY <1>1, <1>6, OthersContinue
  <2>2. Apart(k)'
    BY <1>2, <1>3, <1>4, <1>6
  <2> QED
    BY <2>1, <2>2 DEF RolesApart
<1> HIDE DEF Apart
<1> QED
  BY <1>5, <1>6
     DEF ProvisioningNext, AccessStep, CatalogueStep, CreatePermission,
         RenamePermission, DeletePermission, KeepCatalogue, allVars, provisioning

LEMMA StepRolesKnown ==
  ASSUME ProvisioningTyped, RolesKnown, [ProvisioningNext]_allVars
  PROVE  RolesKnown'
<1> DEFINE Knows(l) ==
      /\ stage[l] \in {"enabled", "admitting"} =>
           \A n \in DefaultNames :
             enabled[draft[l].company, draft[l].roles[n]] # "absent"
      /\ stage[l] = "admitting" =>
           enabled[draft[l].company, draft[l].owner] # "absent"
<1>0. Typed /\ CreationTyped /\ DraftsReal /\ Persists
  BY ProvisioningPersists DEF ProvisioningTyped, CreationTyped
<1>1. ASSUME NEW l \in Creators, stage'[l] = stage[l], draft'[l] = draft[l]
      PROVE  Knows(l)'
  BY <1>0, <1>1 DEF RolesKnown, DraftsReal, Persists
<1>2. ASSUME NEW k \in Creators, EnableRoles(k) PROVE Knows(k)'
  <2>1. /\ draft[k].company \in Companies
        /\ \A n \in DefaultNames : draft[k].roles[n] \in Roles
    BY <1>0, <1>2 DEF EnableRoles, DraftsReal
  <2>2. stage'[k] = "enabled" /\ draft' = draft
    BY <1>0, <1>2 DEF EnableRoles, Continue, CreationTyped
  <2>3. \A n \in DefaultNames :
          enabled'[draft[k].company, draft[k].roles[n]] = "open"
    BY <1>0, <1>2, <2>1, RolesEnabled
  <2> QED
    BY <2>2, <2>3
<1>3. ASSUME NEW k \in Creators, AdmitFounder(k) PROVE Knows(k)'
  <2>1. PICK x \in OwnerRoles(draft[k].company) :
          draft' = [draft EXCEPT ![k].owner = x]
    BY <1>3 DEF AdmitFounder
  <2>2. /\ draft'[k].owner = x /\ draft'[k].company = draft[k].company
        /\ draft'[k].roles = draft[k].roles
    BY <1>0, <2>1 DEF CreationTyped, Draft
  <2>3. enabled[draft[k].company, x] = "open"
    BY <2>1 DEF OwnerRoles
  <2>4. stage[k] = "enabled" /\ enabled' = enabled
    BY <1>3 DEF AdmitFounder, vars, tables
  <2> QED
    BY <2>2, <2>3, <2>4 DEF RolesKnown
<1>4. ASSUME NEW k \in Creators, CreationStep(k), ~EnableRoles(k), ~AdmitFounder(k)
      PROVE  Knows(k)'
  <2>1. stage'[k] \notin {"enabled", "admitting"}
    BY <1>0, <1>4
       DEF CreationStep, BeginCreation, InsertCompany, FindRoles, CommitRoles,
           CommitFounder, CreationFails, Dies, Done, Continue, CreationTyped
  <2> QED
    BY <2>1
<1>5. ASSUME UNCHANGED <<stage, draft>> PROVE RolesKnown'
  BY <1>1, <1>5 DEF RolesKnown
<1>6. ASSUME NEW k \in Creators, CreationStep(k) PROVE RolesKnown'
  <2>1. \A l \in Creators \ {k} : Knows(l)'
    BY <1>1, <1>6, OthersContinue
  <2>2. Knows(k)'
    BY <1>2, <1>3, <1>4, <1>6
  <2> QED
    BY <2>1, <2>2 DEF RolesKnown
<1> HIDE DEF Knows
<1> QED
  BY <1>5, <1>6
     DEF ProvisioningNext, AccessStep, CatalogueStep, CreatePermission,
         RenamePermission, DeletePermission, KeepCatalogue, allVars, provisioning

LEMMA ReadsWait ==
  ASSUME Typed, Persists, ReadsLast, UNCHANGED <<pc, req>>
  PROVE  ReadsLast'
<1> DEFINE Kept(r) == /\ pc[r] = "checked" => Recorded(req[r])
                      /\ pc[r] # "idle" => Entitled(req[r])
<1>1. TablesTyped /\ req \in [Requests -> Request]
  BY TypedMeans DEF Typed, AccessTypeOK
<1>2. ASSUME NEW r \in Requests PROVE Kept(r)'
  BY <1>1, ReadsKept DEF ReadsLast, Typed, RequestsReal, Recorded, Entitled
<1> QED
  BY <1>2 DEF ReadsLast

AccessReads == ReadsLast /\ LinksWithinTenant /\ MemberRoleWasEnabled

LEMMA StepAccessReads ==
  ASSUME ProvisioningTyped, RolesKnown, AccessReads, [ProvisioningNext]_allVars
  PROVE  AccessReads'
<1>0. /\ Typed /\ TablesTyped /\ CreationTyped /\ Persists
      /\ AccessInv
  BY TypedMeans, ProvisioningPersists
     DEF ProvisioningTyped, AccessReads, AccessInv
<1>1. ASSUME UNCHANGED <<owner, attached>> PROVE LinksWithinTenant'
  BY <1>0, <1>1, ZenonT(30)
     DEF TablesTyped, AccessReads, LinksWithinTenant, Persists
<1>2. ASSUME UNCHANGED member PROVE MemberRoleWasEnabled'
  BY <1>0, <1>2 DEF TablesTyped, AccessReads, MemberRoleWasEnabled, Persists
<1>3. CASE AccessStep
  BY <1>0, <1>3, StepReadsInv DEF AccessStep, AccessReads, AccessInv
<1>4. CASE CatalogueStep \/ UNCHANGED allVars
  <2>1. UNCHANGED <<pc, req, owner, attached, member>>
    BY <1>4
       DEF CatalogueStep, CreatePermission, RenamePermission, DeletePermission,
           KeepCatalogue, allVars, vars, tables
  <2> QED
    BY <1>0, <1>1, <1>2, <2>1, ReadsWait DEF AccessReads
<1>5. ASSUME NEW k \in Creators, CreationStep(k) PROVE AccessReads'
  <2>1. UNCHANGED <<pc, req, owner, attached>>
    BY <1>5, OthersContinue
  <2>2. CASE CommitFounder(k)
    <3>1. /\ draft[k].company \in Companies /\ draft[k].founder \in Users
          /\ draft[k].owner \in Roles
          /\ enabled[draft[k].company, draft[k].owner] # "absent"
      BY <1>0, <2>2 DEF CommitFounder, CreationTyped, DraftsReal, RolesKnown
    <3>2. ASSUME NEW u \in Users, NEW c \in Companies, member'[u, c].state # "absent"
          PROVE  enabled[c, member'[u, c].role] # "absent"
      BY <1>0, <2>2, <3>1, <3>2
         DEF CommitFounder, TablesTyped, AccessReads, MemberRoleWasEnabled
    <3>3. MemberRoleWasEnabled'
      BY <2>2, <3>2 DEF CommitFounder, MemberRoleWasEnabled
    <3> QED
      BY <1>0, <1>1, <2>1, <3>3, ReadsWait DEF AccessReads
  <2>3. CASE ~CommitFounder(k)
    <3>1. member' = member
      BY <1>5, <2>3
         DEF CreationStep, BeginCreation, InsertCompany, FindRoles, CommitRoles,
             EnableRoles, AdmitFounder, CreationFails, Dies, vars, tables
    <3> QED
      BY <1>0, <1>1, <1>2, <2>1, <3>1, ReadsWait DEF AccessReads
  <2> QED
    BY <2>2, <2>3
<1> QED
  BY <1>3, <1>4, <1>5 DEF ProvisioningNext

LEMMA StepAnswered ==
  ASSUME ProvisioningTyped, RolesApart, RolesKnown, MemberRoleWasEnabled',
         AnsweredIsComplete, [ProvisioningNext]_allVars
  PROVE  AnsweredIsComplete'
<1> DEFINE Complete(c) ==
      /\ \E u \in Users : /\ member[u, c].state # "absent"
                          /\ enabled[c, member[u, c].role] # "absent"
      /\ \E f \in [DefaultNames -> Roles] :
           /\ \A n \in DefaultNames : enabled[c, f[n]] # "absent"
           /\ \A m, n \in DefaultNames : f[m] = f[n] => m = n
<1>0. Typed /\ TablesTyped /\ CreationTyped /\ Persists
  BY TypedMeans, ProvisioningPersists DEF ProvisioningTyped
<1>1. ASSUME NEW c \in answered PROVE Complete(c)'
  <2>1. c \in Companies
    BY <1>0 DEF CreationTyped
  <2>2. PICK u \in Users : member[u, c].state # "absent"
    BY <1>1 DEF AnsweredIsComplete
  <2>3. /\ member'[u, c].state # "absent"
        /\ enabled'[c, member'[u, c].role] # "absent"
    BY <1>0, <2>1, <2>2 DEF Persists, MemberRoleWasEnabled
  <2>4. PICK f \in [DefaultNames -> Roles] :
          /\ \A n \in DefaultNames : enabled[c, f[n]] # "absent"
          /\ \A m, n \in DefaultNames : f[m] = f[n] => m = n
    BY <1>1 DEF AnsweredIsComplete
  <2>5. \A n \in DefaultNames : enabled'[c, f[n]] # "absent"
    BY <1>0, <2>1, <2>4 DEF Persists
  <2> QED
    BY <2>3, <2>4, <2>5
<1>2. ASSUME answered' \subseteq answered PROVE AnsweredIsComplete'
  BY <1>1, <1>2 DEF AnsweredIsComplete
<1>3. ASSUME NEW k \in Creators, CommitFounder(k) PROVE AnsweredIsComplete'
  <2>1. /\ stage[k] = "admitting" /\ draft[k].company \in Companies
        /\ draft[k].founder \in Users /\ enabled' = enabled
        /\ answered' = answered \cup {draft[k].company}
    BY <1>0, <1>3 DEF CommitFounder, CreationTyped, DraftsReal
  <2>2. PICK c \in Companies, u \in Users, f \in [DefaultNames -> Roles] :
          /\ c = draft[k].company /\ u = draft[k].founder
          /\ \A n \in DefaultNames : f[n] = draft[k].roles[n]
    <3>1. \A n \in DefaultNames : draft[k].roles[n] \in Roles
      BY <1>0, <2>1 DEF CreationTyped, DraftsReal
    <3>2. [n \in DefaultNames |-> draft[k].roles[n]] \in [DefaultNames -> Roles]
      BY <3>1
    <3> QED
      BY <2>1, <3>2
  <2>3. member'[u, c].state = "open"
    BY <1>0, <1>3, <2>2 DEF CommitFounder, TablesTyped
  <2>4. enabled'[c, member'[u, c].role] # "absent"
    BY <2>3 DEF MemberRoleWasEnabled
  <2>5. \A n \in DefaultNames : enabled'[c, f[n]] # "absent"
    BY <2>1, <2>2 DEF RolesKnown
  <2>6. \A m, n \in DefaultNames : f[m] = f[n] => m = n
    <3>1. \A n \in DefaultNames : f[n] # None
      BY RequestAssumption
    <3> QED
      BY <2>1, <2>2, <3>1 DEF RolesApart
  <2>7. Complete(c)'
    BY <2>3, <2>4, <2>5, <2>6
  <2>8. answered' = answered \cup {c}
    BY <2>1, <2>2
  <2> HIDE DEF Complete
  <2>9. \A d \in answered' : Complete(d)'
    BY <1>1, <2>7, <2>8
  <2> QED
    BY <2>9 DEF AnsweredIsComplete, Complete
<1>4. ASSUME NEW k \in Creators, CreationStep(k), ~CommitFounder(k)
      PROVE  answered' \subseteq answered
  BY <1>4
     DEF CreationStep, BeginCreation, InsertCompany, FindRoles, CommitRoles,
         EnableRoles, AdmitFounder, CreationFails, Dies
<1> HIDE DEF Complete
<1> QED
  BY <1>2, <1>3, <1>4
     DEF ProvisioningNext, AccessStep, CatalogueStep, CreatePermission,
         RenamePermission, DeletePermission, KeepCatalogue, allVars, provisioning

CompletionInv ==
  ProvisioningTyped /\ RolesApart /\ RolesKnown /\ AccessReads /\ AnsweredIsComplete

LEMMA InitCompletion == ProvisioningInit => CompletionInv
<1> SUFFICES ASSUME ProvisioningInit PROVE CompletionInv
  OBVIOUS
<1>1. RolesApart /\ RolesKnown
  BY DEF ProvisioningInit, RolesApart, RolesKnown
<1>2. ReadsLast /\ LinksWithinTenant /\ MemberRoleWasEnabled
  BY DEF ProvisioningInit, ReadsLast, LinksWithinTenant, MemberRoleWasEnabled
<1>3. AnsweredIsComplete
  BY DEF ProvisioningInit, AnsweredIsComplete
<1> QED
  BY <1>1, <1>2, <1>3, InitProvisioningTyped DEF CompletionInv, AccessReads

LEMMA StepCompletion ==
  ASSUME CompletionInv, [ProvisioningNext]_allVars
  PROVE  CompletionInv'
<1>1. ProvisioningTyped' /\ RolesApart' /\ RolesKnown' /\ AccessReads'
  BY StepProvisioningTyped, StepRolesApart, StepRolesKnown, StepAccessReads
     DEF CompletionInv
<1>2. AnsweredIsComplete'
  BY <1>1, StepAnswered DEF CompletionInv, AccessReads
<1> QED
  BY <1>1, <1>2 DEF CompletionInv

\* A company whose creation was reported as done has a member with a role of its
\* own and was given three different default roles, whatever happened between
\* the commits of the creation.
THEOREM AnsweredAlwaysComplete == ProvisioningSpec => []AnsweredIsComplete
<1>1. CompletionInv => AnsweredIsComplete
  BY DEF CompletionInv
<1> QED
  BY <1>1, InitCompletion, StepCompletion, PTL DEF ProvisioningSpec

-----------------------------------------------------------------------------
(* Why a creation fails.  While nobody else changes roles, or what companies *)
(* have them, a creation finds everything as its last commit left it.      *)

\* The creation has committed its company and not yet ended.
Begun(k) == stage[k] \notin {"idle", "checked"}

\* No two creations have committed the same company, and nobody has written
\* anything about a company that was not committed.
CompaniesApart ==
  /\ \A k \in Creators : Begun(k) => draft[k].company \in made
  /\ \A k, l \in Creators :
       Begun(k) /\ Begun(l) /\ draft[k].company = draft[l].company => k = l
  /\ \A r \in Requests :
       pc[r] # "idle" => {req[r].company} \cup req[r].rest \subseteq made \cup {None}
  /\ \A c \in Companies \ made :
       /\ \A x \in Roles : enabled[c, x] = "absent"
       /\ \A u \in Users : member[u, c].state = "absent"

\* What the creation finds at each stage.
AsLeft(k) ==
  LET c == draft[k].company
      roles == draft[k].roles IN
  /\ stage[k] \in {"inserted", "found", "seeded"} =>
       \A x \in Roles : enabled[c, x] = "absent"
  /\ \A u \in Users : member[u, c].state = "absent"
  /\ stage[k] = "found" =>
       \A n \in DefaultNames : roles[n] = None => RolesNamed(n) = {}
  /\ stage[k] # "inserted" =>
       \A n \in DefaultNames : roles[n] # None => roles[n] \in RolesNamed(n)
  /\ stage[k] \in {"enabled", "admitting"} =>
       \A n \in DefaultNames : enabled[c, roles[n]] = "open"

Undisturbed == \A k \in Creators : Begun(k) /\ k \notin disturbed => AsLeft(k)

LEMMA CommitElsewhere ==
  ASSUME Typed, NEW r \in Requests, Commit(r), NEW c \in Companies, c # req[r].company
  PROVE  /\ \A x \in Roles : enabled'[c, x] = enabled[c, x]
         /\ \A u \in Users : member'[u, c] = member[u, c]
<1> DEFINE q == req[r]
<1>0. TablesTyped /\ q \in Request /\ Wellformed(q)
  BY CommitReads, CommitMoves, TypedMeans
<1>1. /\ q.op \in CompanyOps => q.company \in Companies
      /\ q.op \in RoleOps => q.role \in Roles
      /\ q.op \in UserOps => q.user \in Users
  BY <1>0 DEF Wellformed
<1> USE DEF CompanyOps, TenantOps, MemberOps, PermissionOps, UserOps, RoleOps,
            SuperuserOps
<1>2. CASE CommitAdd(r)
  BY <1>0, <1>1, <1>2 DEF CommitAdd, Committing, TablesTyped
<1>3. CASE CommitUpdate(r)
  <2>1. \A u \in Users : member'[u, c] = member[u, c]
    BY <1>3, MembersWritten
  <2> QED
    BY <1>3, <2>1 DEF CommitUpdate
<1>4. CASE CommitRemove(r)
  BY <1>0, <1>1, <1>4 DEF CommitRemove, Committing, TablesTyped
<1>5. CASE CommitAssign(r)
  BY <1>0, <1>1, <1>5 DEF CommitAssign, Committing, TablesTyped
<1>6. CASE CommitAssignNext(r)
  <2>1. q.company \in Companies /\ q.role \in Roles
    BY <1>0, <1>1, <1>6 DEF CommitAssignNext, Committing, Request
  <2> QED
    BY <1>0, <1>6, <2>1 DEF CommitAssignNext, TablesTyped
<1>7. CASE CommitUnassign(r)
  BY <1>0, <1>1, <1>7 DEF CommitUnassign, Committing, TablesTyped
<1>8. CASE CommitReassign(r)
  <2>1. \A u \in Users : member'[u, c] = member[u, c]
    BY <1>8, MembersWritten
  <2>2. \A x \in Roles : enabled'[c, x] = enabled[c, x]
    BY <1>0, <1>1, <1>8 DEF CommitReassign, Committing, TablesTyped
  <2> QED
    BY <2>1, <2>2
<1>9. CASE \/ AssignNext(r) \/ CommitRole(r) \/ CommitRename(r)
           \/ CommitDeleteRole(r) \/ CommitGrant(r) \/ CommitPlatform(r)
           \/ CommitNewPermission(r) \/ CommitDropPermission(r)
           \/ CommitAttach(r) \/ CommitDetach(r) \/ CommitDeleteCompany(r)
  BY <1>9
     DEF AssignNext, CommitRole, CommitRename, CommitDeleteRole, CommitGrant,
         CommitPlatform, CommitNewPermission, CommitDropPermission, CommitAttach,
         CommitDetach, CommitDeleteCompany, tables
<1> QED
  BY <1>2, <1>3, <1>4, <1>5, <1>6, <1>7, <1>8, <1>9 DEF Commit

\* What the steps of one creation do to the companies and the drafts.
LEMMA CreationMoves ==
  ASSUME ProvisioningTyped, NEW k \in Creators, CreationStep(k)
  PROVE  \/ /\ InsertCompany(k) /\ draft[k].company \notin made
            /\ made' = made \cup {draft[k].company} /\ draft' = draft
            /\ stage'[k] = "inserted"
            /\ UNCHANGED <<role, enabled, member, disturbed>>
         \/ /\ stage'[k] \in {"idle", "checked"} /\ made' = made
         \/ /\ Begun(k) /\ made' = made
            /\ draft'[k].company = draft[k].company
<1>0. /\ Typed /\ CreationTyped
      /\ stage \in [Creators -> Stages] /\ draft \in [Creators -> Draft]
  BY DEF ProvisioningTyped, CreationTyped
<1>1. CASE InsertCompany(k)
  BY <1>0, <1>1 DEF InsertCompany, Continue, Done
<1>2. CASE CommitRoles(k)
  BY <1>0, <1>2, RolesCommitted DEF CommitRoles, Begun
<1>3. CASE FindRoles(k)
  BY <1>0, <1>3, RolesFound DEF FindRoles, Begun
<1>4. CASE EnableRoles(k) \/ AdmitFounder(k)
  <2>1. draft'[k].company = draft[k].company
    BY <1>0, <1>4 DEF EnableRoles, AdmitFounder, Draft
  <2> QED
    BY <1>4, <2>1 DEF EnableRoles, AdmitFounder, Begun
<1>5. ASSUME NEW u \in Users, NEW c \in Companies, BeginCreation(k, u, c)
      PROVE  stage'[k] = "checked" /\ made' = made
  BY <1>0, <1>5 DEF BeginCreation, Continue
<1>6. CASE CommitFounder(k) \/ CreationFails(k) \/ Dies(k)
  BY <1>0, <1>6 DEF CommitFounder, CreationFails, Dies, Done, Continue
<1> QED
  BY <1>1, <1>2, <1>3, <1>4, <1>5, <1>6 DEF CreationStep

LEMMA StepCompaniesApart ==
  ASSUME ProvisioningTyped, CompaniesApart, [ProvisioningNext]_allVars
  PROVE  CompaniesApart'
<1>0. /\ Typed /\ TablesTyped /\ CreationTyped /\ DraftsReal
      /\ None \notin Companies
  BY TypedMeans, RequestAssumption DEF ProvisioningTyped, CreationTyped
<1>1. CASE AccessStep
  <2>1. UNCHANGED <<stage, draft, made>> /\ AccessNext
    BY <1>1 DEF AccessStep
  <2>2. \A r \in Requests :
          {req'[r].company} \cup req'[r].rest \subseteq made \cup {None}
    BY <1>1 DEF AccessStep
  <2>3. ASSUME NEW c \in Companies \ made
        PROVE  /\ \A x \in Roles : enabled'[c, x] = "absent"
               /\ \A u \in Users : member'[u, c].state = "absent"
    <3>1. ASSUME NEW r \in Requests, Commit(r) PROVE c # req[r].company
      BY <1>0, <3>1, CommitMoves DEF CompaniesApart
    <3>2. /\ \A x \in Roles : enabled'[c, x] = enabled[c, x]
          /\ \A u \in Users : member'[u, c] = member[u, c]
      BY <1>0, <2>1, <3>1, StepMoves, CommitElsewhere DEF CloseAccount, tables
    <3> QED
      BY <3>2 DEF CompaniesApart
  <2> QED
    BY <2>1, <2>2, <2>3 DEF CompaniesApart, Begun
<1>2. ASSUME UNCHANGED <<stage, draft, made, pc, req, enabled, member>>
      PROVE  CompaniesApart'
  BY <1>2 DEF CompaniesApart, Begun
<1>3. ASSUME NEW k \in Creators, CreationStep(k) PROVE CompaniesApart'
  <2>1. /\ UNCHANGED <<pc, req>>
        /\ \A l \in Creators \ {k} : stage'[l] = stage[l] /\ draft'[l] = draft[l]
    BY <1>3, OthersContinue
  <2>2. made \subseteq made'
    BY <1>3, CreationMoves
  <2>3. Begun(k)' => /\ draft'[k].company \in made'
                     /\ draft'[k].company = draft[k].company
                     /\ \/ Begun(k)
                        \/ draft[k].company \notin made
    BY <1>3, CreationMoves DEF CompaniesApart, Begun
  <2>4. \A l, m \in Creators :
          Begun(l)' /\ Begun(m)' /\ draft'[l].company = draft'[m].company => l = m
    <3>1. \A l \in Creators \ {k} : Begun(l)' => Begun(l) /\ draft[l].company \in made
      BY <2>1 DEF CompaniesApart, Begun
    <3>2. \A l \in Creators \ {k} :
            Begun(l)' /\ Begun(k)' => draft[l].company # draft[k].company
      BY <2>3, <3>1 DEF CompaniesApart
    <3>3. \A l, m \in Creators \ {k} :
            Begun(l)' /\ Begun(m)' /\ draft[l].company = draft[m].company => l = m
      BY <3>1 DEF CompaniesApart
    <3> QED
      BY <2>1, <2>3, <3>2, <3>3
  <2>5. \A l \in Creators : Begun(l)' => draft'[l].company \in made'
    BY <2>1, <2>2, <2>3 DEF CompaniesApart, Begun
  <2>6. ASSUME NEW c \in Companies, c \notin made'
        PROVE  /\ \A x \in Roles : enabled'[c, x] = "absent"
               /\ \A u \in Users : member'[u, c].state = "absent"
    <3>1. /\ \A x \in Roles : enabled[c, x] = "absent"
          /\ \A u \in Users : member[u, c].state = "absent"
      BY <2>2, <2>6 DEF CompaniesApart
    <3>2. CASE EnableRoles(k)
      <4>1. c # draft[k].company /\ member' = member
        BY <2>2, <2>6, <3>2 DEF EnableRoles, CompaniesApart, Begun
      <4>2. \A x \in Roles : enabled'[c, x] = enabled[c, x]
        BY <1>0, <3>2, <4>1, RolesEnabled
      <4> QED
        BY <3>1, <4>1, <4>2
    <3>3. CASE CommitFounder(k)
      <4>1. c # draft[k].company /\ enabled' = enabled
        BY <2>2, <2>6, <3>3 DEF CommitFounder, CompaniesApart, Begun
      <4>2. \A u \in Users : member'[u, c] = member[u, c]
        BY <1>0, <3>3, <4>1 DEF CommitFounder, TablesTyped
      <4> QED
        BY <3>1, <4>1, <4>2
    <3>4. CASE ~EnableRoles(k) /\ ~CommitFounder(k)
      <4>1. UNCHANGED <<enabled, member>>
        BY <1>3, <3>4
           DEF CreationStep, BeginCreation, InsertCompany, FindRoles, CommitRoles,
               AdmitFounder, CreationFails, Dies, vars, tables
      <4> QED
        BY <3>1, <4>1
    <3> QED
      BY <3>2, <3>3, <3>4
  <2> QED
    BY <2>1, <2>2, <2>4, <2>5, <2>6 DEF CompaniesApart
<1> QED
  BY <1>1, <1>2, <1>3
     DEF ProvisioningNext, CatalogueStep, CreatePermission, RenamePermission,
         DeletePermission, KeepCatalogue, allVars, vars, tables, provisioning

\* What the creation finds does not change while its records do not.
LEMMA LeftAlone ==
  ASSUME DraftsReal, NEW l \in Creators, AsLeft(l),
         draft[l].company \in Companies,
         stage'[l] = stage[l], draft'[l] = draft[l], role' = role,
         \A x \in Roles : enabled'[draft[l].company, x] = enabled[draft[l].company, x],
         \A u \in Users : member'[u, draft[l].company] = member[u, draft[l].company]
  PROVE  AsLeft(l)'
<1>1. PICK c \in Companies : c = draft[l].company /\ c = draft'[l].company
  OBVIOUS
<1>2. /\ \A x \in Roles : enabled'[c, x] = enabled[c, x]
      /\ \A u \in Users : member'[u, c] = member[u, c]
  BY <1>1
<1>3. ASSUME NEW n PROVE RolesNamed(n)' = RolesNamed(n)
  BY DEF RolesNamed, RoleOpen
<1>4. stage[l] \in {"enabled", "admitting"} =>
        \A n \in DefaultNames :
          draft[l].roles[n] \in Roles /\ enabled[c, draft[l].roles[n]] = "open"
  BY <1>1 DEF DraftsReal, AsLeft
<1>5. stage[l] \in {"enabled", "admitting"} =>
        \A n \in DefaultNames : enabled'[c, draft'[l].roles[n]] = "open"
  BY <1>2, <1>4
<1>6. /\ stage'[l] \in {"inserted", "found", "seeded"} =>
           \A x \in Roles : enabled'[c, x] = "absent"
      /\ \A u \in Users : member'[u, c].state = "absent"
  <2>1. /\ stage[l] \in {"inserted", "found", "seeded"} =>
             \A x \in Roles : enabled[c, x] = "absent"
        /\ \A u \in Users : member[u, c].state = "absent"
    BY <1>1 DEF AsLeft
  <2> QED
    BY <1>2, <2>1
<1>7. /\ stage'[l] = "found" =>
           \A n \in DefaultNames : draft'[l].roles[n] = None => RolesNamed(n)' = {}
      /\ stage'[l] # "inserted" =>
           \A n \in DefaultNames :
             draft'[l].roles[n] # None => draft'[l].roles[n] \in RolesNamed(n)'
  BY <1>3 DEF AsLeft
<1> QED
  BY <1>1, <1>5, <1>6, <1>7, ZenonT(30) DEF AsLeft

LEMMA StepUndisturbed ==
  ASSUME ProvisioningTyped, CompaniesApart, Undisturbed, [ProvisioningNext]_allVars
  PROVE  Undisturbed'
<1> DEFINE Left(l) == Begun(l) /\ l \notin disturbed => AsLeft(l)
<1>0. /\ Typed /\ TablesTyped /\ CreationTyped /\ DraftsReal
      /\ stage \in [Creators -> Stages] /\ draft \in [Creators -> Draft]
      /\ None \notin Roles
  BY TypedMeans, RequestAssumption DEF ProvisioningTyped, CreationTyped
<1>1. ASSUME NEW l \in Creators, UNCHANGED <<role, enabled, member>>,
             stage'[l] = stage[l], draft'[l] = draft[l],
             l \in disturbed => l \in disturbed'
      PROVE  Left(l)'
  <2>1. SUFFICES ASSUME Begun(l)', l \notin disturbed' PROVE AsLeft(l)'
    OBVIOUS
  <2>2. Begun(l) /\ AsLeft(l)
    BY <1>1, <2>1 DEF Undisturbed, Begun
  <2>3. draft[l].company \in Companies
    BY <1>0, <2>2 DEF DraftsReal, Begun
  <2> QED
    BY <1>0, <1>1, <2>2, <2>3, LeftAlone
<1>2. ASSUME NEW l \in Creators, Busy \subseteq disturbed', stage'[l] = stage[l]
      PROVE  Left(l)'
  BY <1>2 DEF Begun, Busy
<1>3. CASE AccessStep
  <2>1. CASE UNCHANGED <<role, enabled, member>>
    BY <1>1, <1>3, <2>1 DEF AccessStep, Undisturbed
  <2>2. CASE ~UNCHANGED <<role, enabled, member>>
    BY <1>2, <1>3, <2>2 DEF AccessStep, Undisturbed
  <2> QED
    BY <2>1, <2>2
<1>4. CASE CatalogueStep \/ UNCHANGED allVars
  <2>1. UNCHANGED <<role, enabled, member, stage, draft, disturbed>>
    BY <1>4
       DEF CatalogueStep, CreatePermission, RenamePermission, DeletePermission,
           KeepCatalogue, allVars, vars, tables, provisioning
  <2> QED
    BY <1>1, <2>1 DEF Undisturbed
<1>5. ASSUME NEW k \in Creators, CreationStep(k), NEW l \in Creators \ {k}
      PROVE  Left(l)'
  <2>1. stage'[l] = stage[l] /\ draft'[l] = draft[l]
    BY <1>5, OthersContinue
  <2>2. l \in disturbed => l \in disturbed'
    BY <1>5
       DEF CreationStep, BeginCreation, InsertCompany, FindRoles, CommitRoles,
           EnableRoles, AdmitFounder, CommitFounder, CreationFails, Dies
  <2>3. CASE CommitRoles(k)
    <3>1. UNCHANGED <<enabled, member>>
      BY <2>3 DEF CommitRoles
    <3>2. role' # role /\ Begun(l) => l \in disturbed'
      BY <2>3 DEF CommitRoles, Busy, Begun
    <3> QED
      BY <1>1, <2>1, <2>2, <3>1, <3>2 DEF Begun
  <2>4. CASE EnableRoles(k) \/ CommitFounder(k)
    <3>1. /\ draft[k].company \in Companies /\ draft[k].founder \in Users
          /\ Begun(k) /\ role' = role
      BY <1>0, <2>4 DEF EnableRoles, CommitFounder, DraftsReal, Begun
    <3>2. ASSUME Begun(l)
          PROVE  /\ draft[l].company \in Companies
                 /\ draft[l].company # draft[k].company
      BY <1>0, <3>1, <3>2 DEF CompaniesApart, DraftsReal, Begun
    <3>3. ASSUME NEW c \in Companies, c # draft[k].company
          PROVE  /\ \A x \in Roles : enabled'[c, x] = enabled[c, x]
                 /\ \A u \in Users : member'[u, c] = member[u, c]
      <4>1. CASE EnableRoles(k)
        BY <1>0, <3>3, <4>1, RolesEnabled DEF EnableRoles
      <4>2. CASE CommitFounder(k)
        BY <1>0, <3>1, <3>3, <4>2 DEF CommitFounder, TablesTyped
      <4> QED
        BY <2>4, <4>1, <4>2
    <3>4. ASSUME Begun(l), l \notin disturbed PROVE AsLeft(l)'
      <4>1. AsLeft(l)
        BY <3>4 DEF Undisturbed
      <4>2. draft[l].company \in Companies /\ draft[l].company # draft[k].company
        BY <3>2, <3>4
      <4>3. /\ \A x \in Roles :
                 enabled'[draft[l].company, x] = enabled[draft[l].company, x]
            /\ \A u \in Users :
                 member'[u, draft[l].company] = member[u, draft[l].company]
        BY <3>3, <4>2
      <4> QED
        BY <1>0, <2>1, <3>1, <4>1, <4>2, <4>3, LeftAlone
    <3> QED
      BY <2>1, <2>2, <3>4 DEF Begun
  <2>5. CASE ~CommitRoles(k) /\ ~EnableRoles(k) /\ ~CommitFounder(k)
    <3>1. UNCHANGED <<role, enabled, member>>
      BY <1>5, <2>5
         DEF CreationStep, BeginCreation, InsertCompany, FindRoles, AdmitFounder,
             CreationFails, Dies, vars, tables
    <3> QED
      BY <1>1, <2>1, <2>2, <3>1
  <2> QED
    BY <2>3, <2>4, <2>5
<1>6. ASSUME NEW k \in Creators, CreationStep(k) PROVE Left(k)'
  <2>1. CASE InsertCompany(k) /\ draft[k].company \notin made
    <3>1. /\ stage'[k] = "inserted" /\ UNCHANGED <<draft, enabled, member>>
          /\ draft[k].company \in Companies
      BY <1>0, <2>1 DEF InsertCompany, Continue, DraftsReal
    <3>2. /\ \A x \in Roles : enabled[draft[k].company, x] = "absent"
          /\ \A u \in Users : member[u, draft[k].company].state = "absent"
      BY <2>1, <3>1 DEF CompaniesApart
    <3> QED
      BY <3>1, <3>2 DEF AsLeft
  <2>2. CASE FindRoles(k)
    <3>1. /\ stage[k] = "inserted" /\ stage'[k] = "found"
          /\ UNCHANGED <<role, enabled, member, disturbed>>
          /\ draft'[k].company = draft[k].company
      BY <1>0, <2>2, RolesFound DEF FindRoles, Continue, vars, tables
    <3>2. \A n \in DefaultNames :
            IF RolesNamed(n) = {} THEN draft'[k].roles[n] = None
                                  ELSE draft'[k].roles[n] \in RolesNamed(n)
      BY <1>0, <2>2, RolesFound
    <3>3. \A n : RolesNamed(n)' = RolesNamed(n)
      BY <3>1 DEF RolesNamed, RoleOpen
    <3>4. k \notin disturbed => AsLeft(k)
      BY <3>1 DEF Undisturbed, Begun
    <3>5. None \notin UNION {RolesNamed(n) : n \in DefaultNames}
      BY <1>0 DEF RolesNamed
    <3> QED
      BY <3>1, <3>2, <3>3, <3>4, <3>5 DEF AsLeft
  <2>3. CASE CommitRoles(k)
    <3>1. /\ stage[k] = "found" /\ stage'[k] = "seeded"
          /\ UNCHANGED <<enabled, member>> /\ (k \in disturbed => k \in disturbed')
      BY <1>0, <2>3 DEF CommitRoles, Continue
    <3>2. /\ draft'[k].company = draft[k].company
          /\ \A x \in Roles : \/ role'[x] = role[x]
                              \/ \E n \in Missing(k) : draft'[k].roles[n] = x
      BY <1>0, <2>3, RolesCommitted
    <3>3. ASSUME NEW n \in Missing(k)
          PROVE  /\ draft'[k].roles[n] \in Roles
                 /\ role[draft'[k].roles[n]].state = "absent"
                 /\ role'[draft'[k].roles[n]] = [state |-> "open", name |-> n]
      <4>1. n \in DefaultNames
        BY DEF Missing
      <4> QED
        BY <1>0, <2>3, <4>1, RolesCommitted
    <3>4. ASSUME NEW n \in DefaultNames \ Missing(k)
          PROVE  draft'[k].roles[n] = draft[k].roles[n] /\ draft[k].roles[n] # None
      <4>1. n \in DefaultNames /\ n \notin Missing(k)
        OBVIOUS
      <4>2. draft'[k].roles[n] = draft[k].roles[n]
        BY <1>0, <2>3, <4>1, RolesCommitted
      <4> QED
        BY <4>1, <4>2 DEF Missing
    <3>5. k \notin disturbed => AsLeft(k)
      BY <3>1 DEF Undisturbed, Begun
    <3>6. ASSUME k \notin disturbed, NEW n \in DefaultNames
          PROVE  draft'[k].roles[n] \in RolesNamed(n)'
      <4>1. CASE n \in Missing(k)
        <5> DEFINE x == draft'[k].roles[n]
        <5>1. x \in Roles /\ role'[x] = [state |-> "open", name |-> n]
          BY <3>3, <4>1
        <5> HIDE DEF x
        <5>2. x \in RolesNamed(n)'
          BY <5>1 DEF RolesNamed, RoleOpen
        <5> QED
          BY <5>2 DEF x
      <4>2. CASE n \notin Missing(k)
        <5>1. /\ draft'[k].roles[n] = draft[k].roles[n]
              /\ draft[k].roles[n] \in RolesNamed(n)
          BY <3>1, <3>4, <3>5, <3>6, <4>2 DEF AsLeft
        <5>2. role'[draft[k].roles[n]] = role[draft[k].roles[n]]
          BY <3>2, <3>3, <5>1 DEF RolesNamed, RoleOpen
        <5> QED
          BY <5>1, <5>2 DEF RolesNamed, RoleOpen
      <4> QED
        BY <4>1, <4>2
    <3> QED
      BY <3>1, <3>2, <3>5, <3>6 DEF AsLeft
  <2>4. CASE EnableRoles(k)
    <3>1. /\ stage[k] = "seeded" /\ stage'[k] = "enabled"
          /\ UNCHANGED <<role, member, draft, disturbed>>
      BY <1>0, <2>4 DEF EnableRoles, Continue
    <3>2. \A n \in DefaultNames :
            enabled'[draft[k].company, draft[k].roles[n]] = "open"
      BY <1>0, <2>4, RolesEnabled
    <3>3. k \notin disturbed => AsLeft(k)
      BY <3>1 DEF Undisturbed, Begun
    <3>4. \A n : RolesNamed(n)' = RolesNamed(n)
      BY <3>1 DEF RolesNamed, RoleOpen
    <3> QED
      BY <3>1, <3>2, <3>3, <3>4 DEF AsLeft
  <2>5. CASE AdmitFounder(k)
    <3>1. /\ stage[k] = "enabled" /\ stage'[k] = "admitting"
          /\ UNCHANGED <<role, enabled, member, disturbed>>
      BY <1>0, <2>5 DEF AdmitFounder, Continue, vars, tables
    <3>2. draft'[k].company = draft[k].company /\ draft'[k].roles = draft[k].roles
      BY <1>0, <2>5 DEF AdmitFounder, Draft
    <3>3. k \notin disturbed => AsLeft(k)
      BY <3>1 DEF Undisturbed, Begun
    <3>4. \A n : RolesNamed(n)' = RolesNamed(n)
      BY <3>1 DEF RolesNamed, RoleOpen
    <3> QED
      BY <3>1, <3>2, <3>3, <3>4 DEF AsLeft
  <2>6. CASE /\ ~(InsertCompany(k) /\ draft[k].company \notin made) /\ ~FindRoles(k)
             /\ ~CommitRoles(k) /\ ~EnableRoles(k) /\ ~AdmitFounder(k)
    <3>1. stage'[k] \in {"idle", "checked"}
      BY <1>0, <1>6, <2>6
         DEF CreationStep, InsertCompany, BeginCreation, CommitFounder,
             CreationFails, Dies, Done, Continue
    <3> QED
      BY <3>1 DEF Begun
  <2> QED
    BY <2>1, <2>2, <2>3, <2>4, <2>5, <2>6
<1>7. ASSUME NEW k \in Creators, CreationStep(k) PROVE Undisturbed'
  <2>1. \A l \in Creators : Left(l)'
    BY <1>5, <1>6, <1>7
  <2> QED
    BY <2>1 DEF Undisturbed
<1> QED
  BY <1>3, <1>4, <1>7 DEF ProvisioningNext

\* A creation nobody disturbed is stopped by the name of a deleted role or, where
\* the migrations did not make the schema, by a permission of somebody's own.
LEMMA AloneComesThrough ==
  ASSUME ProvisioningTyped, CatalogueInv, Undisturbed,
         NEW k \in Creators, Obstructed(k), k \notin disturbed
  PROVE  NameLost \/ (~migrated /\ (k \in refused \/ Reserved))
<1>1. /\ Typed /\ TablesTyped /\ CreationTyped /\ DraftsReal /\ None \notin Roles
      /\ role \in [Roles -> [state : RowStates, name : Names]]
  BY TypedMeans, RequestAssumption DEF ProvisioningTyped, CreationTyped, TablesTyped
<1>2. Begun(k) /\ AsLeft(k)
  BY DEF Obstructed, Undisturbed, Begun
<1>3. draft[k].company \in Companies /\ draft[k].founder \in Users
  BY <1>1, <1>2 DEF DraftsReal, Begun
<1>4. migrated => k \notin refused /\ ~Reserved
  BY DEF CatalogueInv, SystemPermissionsHold
<1>5. CASE stage[k] = "found" /\ RolesBlocked(k)
  <2>1. SUFFICES ASSUME k \notin refused, ~Reserved PROVE NameLost
    BY <1>4
  <2>2. PICK n \in Missing(k) : ~NameFree(n)
    BY <1>5, <2>1 DEF RolesBlocked
  <2>3. n \in DefaultNames /\ RolesNamed(n) = {}
    BY <1>2, <1>5 DEF Missing, AsLeft
  <2>4. PICK x \in Roles : role[x].state # "absent" /\ role[x].name = n
    BY <2>2 DEF NameFree, IsNamed
  <2>5. role[x].state # "open"
    BY <2>3, <2>4 DEF RolesNamed, RoleOpen
  <2>6. role[x].state = "closed"
    BY <1>1, <2>4, <2>5 DEF RowStates
  <2> QED
    BY <2>3, <2>4, <2>6 DEF NameLost
<1>6. CASE stage[k] = "seeded"
  <2>1. \A n \in DefaultNames : draft[k].roles[n] \in Roles
    BY <1>1, <1>6 DEF DraftsReal
  <2>2. \A x \in Roles : enabled[draft[k].company, x] = "absent"
    BY <1>2, <1>6 DEF AsLeft
  <2>3. \A n \in DefaultNames :
          enabled[draft[k].company, draft[k].roles[n]] = "absent"
    BY <2>1, <2>2
  <2> QED
    BY <1>6, <2>3 DEF Obstructed
<1>7. CASE stage[k] \in {"enabled", "admitting"}
  <2>1. member[draft[k].founder, draft[k].company].state = "absent"
    BY <1>2, <1>3 DEF AsLeft
  <2>2. "Owner" \in DefaultNames
    BY DEF DefaultNames
  <2>3. draft[k].roles["Owner"] \in Roles /\ draft[k].roles["Owner"] # None
    BY <1>1, <1>7, <2>2 DEF DraftsReal
  <2>4. /\ draft[k].roles["Owner"] \in RolesNamed("Owner")
        /\ enabled[draft[k].company, draft[k].roles["Owner"]] = "open"
    BY <1>2, <1>7, <2>2, <2>3 DEF AsLeft
  <2>5. OwnerRoles(draft[k].company) # {}
    BY <2>4 DEF OwnerRoles
  <2> QED
    BY <1>7, <2>1, <2>5 DEF Obstructed
<1> QED
  BY <1>5, <1>6, <1>7 DEF Obstructed

LEMMA StepFails ==
  ASSUME ProvisioningTyped, CatalogueInv, Undisturbed, FailsOnlyWhenDisturbed,
         [ProvisioningNext]_allVars
  PROVE  FailsOnlyWhenDisturbed'
<1>1. migrated' = migrated
  BY ZenonT(30)
     DEF ProvisioningNext, AccessStep, CatalogueStep, CreatePermission,
         RenamePermission, DeletePermission, KeepCatalogue, CreationStep,
         BeginCreation, InsertCompany, FindRoles, CommitRoles, EnableRoles,
         AdmitFounder, CommitFounder, CreationFails, Dies, allVars, provisioning,
         permissions
<1>2. CASE \E k \in Creators : CreationFails(k)
  <2>1. PICK k \in Creators : CreationFails(k)
    BY <1>2
  <2> DEFINE d == k \in disturbed
             v == k \in refused \/ Reserved
             h == [disturbed |-> d, lost |-> NameLost, reserved |-> v]
  <2>2. d \/ NameLost \/ (~migrated /\ v)
    BY <2>1, AloneComesThrough DEF CreationFails
  <2>3. halfMade' = halfMade \cup {h}
    BY <2>1 DEF CreationFails
  <2> HIDE DEF d, v
  <2>4. h.disturbed \/ h.lost \/ (~migrated /\ h.reserved)
    BY <2>2, Zenon
  <2> HIDE DEF h
  <2>5. ASSUME NEW g \in halfMade'
        PROVE  g.disturbed \/ g.lost \/ (~migrated' /\ g.reserved)
    <3>1. g \in halfMade \/ g = h
      BY <2>3
    <3> QED
      BY <1>1, <2>4, <3>1, Zenon DEF FailsOnlyWhenDisturbed
  <2> QED
    BY <2>5, Zenon DEF FailsOnlyWhenDisturbed
<1>3. CASE ~\E k \in Creators : CreationFails(k)
  <2>1. halfMade' = halfMade
    BY <1>3, ZenonT(30)
       DEF ProvisioningNext, AccessStep, CatalogueStep, CreatePermission,
           RenamePermission, DeletePermission, KeepCatalogue, CreationStep,
           BeginCreation, InsertCompany, FindRoles, CommitRoles, EnableRoles,
           AdmitFounder, CommitFounder, Dies, allVars, provisioning
  <2> QED
    BY <1>1, <2>1, Zenon DEF FailsOnlyWhenDisturbed
<1> QED
  BY <1>2, <1>3

FailureInv ==
  /\ ProvisioningTyped /\ CatalogueInv /\ CompaniesApart /\ Undisturbed
  /\ FailsOnlyWhenDisturbed

LEMMA InitFailure == ProvisioningInit => FailureInv
<1> SUFFICES ASSUME ProvisioningInit PROVE FailureInv
  OBVIOUS
<1>1. \A k \in Creators : ~Begun(k)
  BY DEF ProvisioningInit, Begun
<1>2. CompaniesApart
  BY <1>1 DEF ProvisioningInit, CompaniesApart
<1>3. Undisturbed
  BY <1>1 DEF Undisturbed
<1>4. FailsOnlyWhenDisturbed
  BY DEF ProvisioningInit, FailsOnlyWhenDisturbed
<1> QED
  BY <1>2, <1>3, <1>4, InitProvisioningTyped, InitCatalogue DEF FailureInv

LEMMA StepFailure ==
  ASSUME FailureInv, [ProvisioningNext]_allVars
  PROVE  FailureInv'
<1>1. ProvisioningTyped' /\ CatalogueInv'
  BY StepProvisioningTyped, StepCatalogue DEF FailureInv
<1>2. CompaniesApart' /\ Undisturbed'
  BY StepCompaniesApart, StepUndisturbed DEF FailureInv
<1>3. FailsOnlyWhenDisturbed'
  BY StepFails DEF FailureInv
<1> QED
  BY <1>1, <1>2, <1>3 DEF FailureInv

\* A creation fails after its first commit only if somebody else changed roles
\* or members while it ran, a default role had been deleted, or, where the
\* migrations did not make the schema, a reserved name was taken.
THEOREM CreationsFailOnlyWhenDisturbed ==
  ProvisioningSpec => []FailsOnlyWhenDisturbed
<1>1. FailureInv => FailsOnlyWhenDisturbed
  BY DEF FailureInv
<1> QED
  BY <1>1, InitFailure, StepFailure, PTL DEF ProvisioningSpec
=============================================================================
