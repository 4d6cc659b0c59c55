--------------------------- MODULE WorkspaceRoles ---------------------------
(***************************************************************************)
(* What membership in a workspace allows.  A member is a role by name and  *)
(* what the row of that role in roles grants; whoever is no active member  *)
(* has the role "none" and is granted nothing.                             *)
(***************************************************************************)

MemberMay == {"api_keys:create", "api_keys:read", "usage:read", "files:write",
              "files:read", "workflows:write", "workflows:read"}
ViewerMay == {"api_keys:read", "usage:read", "files:read", "workflows:read"}

\* The built-in roles allow by name; any role allows what its row grants.
MemberHasPermission(member, permission) ==
  \/ member.role \in {"owner", "admin"}
  \/ member.role = "member" /\ permission \in MemberMay
  \/ member.role = "viewer" /\ permission \in ViewerMay
  \/ {"*", permission} \cap member.grants # {}
=============================================================================
