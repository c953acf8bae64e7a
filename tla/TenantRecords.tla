--------------------------- MODULE TenantRecords ---------------------------
(***************************************************************************)
(* What the records of the companies promise whatever the requests that    *)
(* write them have read: each change is one of the moves below, and a move *)
(* never needs more than the records themselves to be sound.  Who asked,   *)
(* what was checked and how long ago is not said here.                     *)
(***************************************************************************)
CONSTANTS Users, Companies, Roles, Permissions, Nobody, Gone

VARIABLES
  enabled,    \* the roles of each company
  member,     \* the memberships: [state, role]
  owner,      \* the company of each company permission
  attached    \* links between a role of a company and a permission

records == <<enabled, member, owner, attached>>

\* A role the company has, or had: its record is there.
Known(c, x) == enabled[c, x] # "absent"

LinksOf(c, x) == {g \in attached : g[1] = c /\ g[2] = x}

RecordsInit ==
  /\ enabled \in [Companies \X Roles -> {"absent", "open"}]
  /\ member \in [Users \X Companies ->
                   [state : {"absent", "open"}, role : Roles]]
  /\ \A u \in Users, c \in Companies :
       member[u, c].state = "open" => Known(c, member[u, c].role)
  /\ owner = [p \in Permissions |-> Nobody]
  /\ attached = {}

\* A record that is closed is never opened again.
Enable(c, x) ==
  /\ enabled[c, x] = "absent"
  /\ enabled' = [enabled EXCEPT ![<<c, x>>] = "open"]
  /\ UNCHANGED <<member, owner, attached>>

\* The role's links go with it, and its members may be moved to another one.
Disable(c, x) ==
  /\ Known(c, x)
  /\ enabled' = [enabled EXCEPT ![<<c, x>>] = "closed"]
  /\ attached' = attached \ LinksOf(c, x)
  /\ UNCHANGED owner

\* Memberships of the company get a role it knows; none becomes open again.
Assign(us, c, x) ==
  /\ Known(c, x)
  /\ \A u \in us : member[u, c].state # "absent"
  /\ member' = [uc \in DOMAIN member |->
       IF uc[1] \in us /\ uc[2] = c THEN [member[uc] EXCEPT !.role = x]
                                    ELSE member[uc]]

Admit(u, c, x) ==
  /\ Known(c, x) /\ member[u, c].state = "absent"
  /\ member' = [member EXCEPT ![<<u, c>>] = [state |-> "open", role |-> x]]

Expel(u, c) ==
  /\ member[u, c].state # "absent"
  /\ member' = [member EXCEPT ![<<u, c>>].state = "closed"]

\* A permission has one owner for ever, and no links once it is gone.
Found(c, p) ==
  /\ owner[p] = Nobody
  /\ owner' = [owner EXCEPT ![p] = c]
  /\ UNCHANGED <<enabled, member, attached>>

Discard(p) ==
  /\ owner[p] # Nobody
  /\ owner' = [owner EXCEPT ![p] = Gone]
  /\ attached' = {g \in attached : g[3] # p}
  /\ UNCHANGED <<enabled, member>>

Attach(c, x, p) ==
  /\ Known(c, x) /\ owner[p] = c
  /\ attached' = attached \cup {<<c, x, p>>}

\* Links go one by one, or all those of a role that is deleted.
Detach(gs) == attached' = attached \ gs

RecordsNext ==
  \/ \E c \in Companies, x \in Roles :
       \/ Enable(c, x)
       \/ Disable(c, x) /\ UNCHANGED member
       \/ \E y \in Roles, us \in SUBSET Users : Disable(c, x) /\ Assign(us, c, y)
       \/ \E us \in SUBSET Users :
            Assign(us, c, x) /\ UNCHANGED <<enabled, owner, attached>>
       \/ \E u \in Users :
            (Admit(u, c, x) \/ Expel(u, c)) /\ UNCHANGED <<enabled, owner, attached>>
       \/ \E p \in Permissions :
            \/ Found(c, p) \/ Discard(p)
            \/ Attach(c, x, p) /\ UNCHANGED <<enabled, member, owner>>
       \/ \E p \in Permissions :
            Detach({<<c, x, p>>}) /\ UNCHANGED <<enabled, member, owner>>
  \/ \E x \in Roles :
       /\ Detach({g \in attached : g[2] = x})
       /\ UNCHANGED <<enabled, member, owner>>

RecordsSpec == RecordsInit /\ [][RecordsNext]_records
=============================================================================
