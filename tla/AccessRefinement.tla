-------------------------- MODULE AccessRefinement --------------------------
(***************************************************************************)
(* CompanyAccess implements TenantRecords, however its requests overlap.   *)
(***************************************************************************)
EXTENDS CompanyAccess

Records == INSTANCE TenantRecords WITH Nobody <- None, Gone <- "gone"

\* Whatever a request has read before it commits, and however old that is, the
\* commit is a move the records allow: it admits a member only once and only to
\* a role the company knows, brings back no closed record, moves no permission
\* to another company and links nothing across companies.
ImplementsRecords == Records!RecordsSpec
=============================================================================
