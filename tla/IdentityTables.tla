---------------------------- MODULE IdentityTables ---------------------------
(***************************************************************************)
(* Factors, roles, delegations and decentralised identifiers of a user as  *)
(* machines of StatusRows.                                                 *)
(***************************************************************************)
EXTENDS StatusTables

-----------------------------------------------------------------------------
\* Factors.  A disabled factor keeps the date on which it was verified.
MfaFactors == {"inactive", "active"}
NewMfaFactor == {New("setupMfaFactor", "inactive", {})}
MfaFactorSteps ==
  {Step("enableFactor", MfaFactors, "active", {"verifiedAt"}),
   Step("verifyTOTPCode", {"active"}, Same, {"verifiedAt"}),
   Step("disableFactor", MfaFactors, "inactive", {})}
MfaFactorCalls == {"enableFactor", "verifyTOTPCode", "disableFactor"}
MfaFactor == Machine(MfaFactors, NewMfaFactor, Called(MfaFactorSteps, MfaFactorCalls),
  {Promise({"active"}, {}, {"verifiedAt"}, {"enableFactor"})})

\* Roles of a user.  User and role are unique: the row of a revoked role stays in the way
\* of the insertion of a new one.
UserRoles == {"active", "inactive"}
NewUserRole == {Unless(New("assignRoleToUser", "active", {}), {"active", "inactive"})}
UserRoleSteps == {Step("revokeRoleFromUser", UserRoles, "inactive", {})}
UserRoleCalls == {"revokeRoleFromUser"}
UserRole == Ending(Machine(UserRoles, NewUserRole, Called(UserRoleSteps, UserRoleCalls),
  {Promise({"inactive"}, {}, {}, {"revokeRoleFromUser"})}), {"inactive"})

\* Delegations.  A decision updates columns whatever was decided before; no job expires them.
Delegations == {"pending", "approved", "rejected", "expired"}
NewDelegation == {New("createDelegation", "pending", {})}
DelegationSteps ==
  {ByColumns(Step("approveDelegation", Delegations, "approved", {"approvedAt"})),
   Dropping(ByColumns(Step("approveDelegation", Delegations, "rejected", {})), {"approvedAt"}),
   ByColumns(Step("escalateDelegation", Delegations, Same, {})),
   WhereStill(Step("expireOldDelegations", {"approved"}, "expired", {}))}
DelegationCalls == {"approveDelegation"}
Delegation == Machine(Delegations, NewDelegation, Called(DelegationSteps, DelegationCalls),
  {Promise({"approved"}, {}, {"approvedAt"}, {"approveDelegation"}),
   Promise({"rejected"}, {}, {}, {"approveDelegation"})})

\* Decentralised identifiers.  Only the registration has a route; the other methods are
\* the service's own.
Dids == {"active", "revoked"}
NewDid == {New("registerDid", "active", {})}
DidSteps ==
  {Step("verifyDid", {"active"}, Same, {"verifiedAt"}),
   Step("revokeDid", {"active"}, "revoked", {}),
   ByColumns(Step("markAsUsed", Dids, Same, {}))}
Did == Ending(Machine(Dids, NewDid, DidSteps,
  {Promise({"revoked"}, {}, {}, {"revokeDid"}),
   Promise(Dids, {"verifiedAt"}, {}, {"verifyDid"})}), {"revoked"})

-----------------------------------------------------------------------------
Identity ==
  [mfaFactor |-> MfaFactor, userRole |-> UserRole, delegation |-> Delegation, did |-> Did]
=============================================================================
