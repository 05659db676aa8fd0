------------------------------ MODULE FaktsServer ------------------------------
(***************************************************************************)
(* The client-facing half of the fakts app: redemptions, device codes and  *)
(* self-reports running against the same App, Release and Client tables.   *)
(***************************************************************************)
EXTENDS ClientRegistry

CONSTANTS
  RedeemRequest, AcceptRequest, ReportRequest,
  Token, TokenUser, TokenComp, Reredeemable, Expiring, Configured,
  Code

VARIABLES
  tokens, redeem, grants,                  \* RedeemTokens
  codes, lapsed, device, accept, answers,  \* DeviceCodes
  report                                   \* ClientReports

Redeeming == INSTANCE RedeemTokens
Device == INSTANCE DeviceCodes
Reporting == INSTANCE ClientReports

ASSUME FaktsAssumption ==
  /\ RedeemRequest \cup AcceptRequest \subseteq Request
  /\ RedeemRequest \cap AcceptRequest = {}
  /\ None \notin Token \cup Redeeming!TokenRow \cup Redeeming!TicketRow \cup Code
  /\ TokenUser \in [Token -> User]
  /\ TokenComp \in [Token -> Comp]
  /\ \A s \in Seed \cap Token : SeedUser[s] = TokenUser[s] /\ SeedComp[s] = TokenComp[s]
  /\ Configured \subseteq Token

redeemVars == <<tokens, redeem, grants>>
deviceVars == <<codes, lapsed, device, accept, answers>>
vars == <<registryVars, redeemVars, deviceVars, report>>

FaktsTypeOK ==
  /\ Redeeming!RedeemTypeOK
  /\ Device!DeviceTypeOK
  /\ Reporting!ReportTypeOK

FaktsInit ==
  /\ Redeeming!RedeemInit
  /\ Device!DeviceOwnInit
  /\ Reporting!ReportInit

\* A step of one flow leaves the rows of the others alone, except that a
\* removed membership takes its clients' tokens and codes with it.
MemberRemoved(u, o) ==
  /\ Redeeming!MemberRemoved(u, o)
  /\ Device!CascadeCodes(u, o)
  /\ UNCHANGED <<lapsed, device, accept, answers, report>>

Next ==
  \/ /\ \/ \E r \in RedeemRequest, t \in Token, m \in Manifest :
             Redeeming!Redeem(r, t, m)
        \/ \E r \in RedeemRequest : Redeeming!RedeemStep(r)
        \/ \E t \in Token : Redeeming!Lapse(t)
        \/ \E t \in Configured : Redeeming!EnsureToken(t)
     /\ UNCHANGED <<deviceVars, report>>
  \/ Device!DeviceSteps /\ UNCHANGED <<redeemVars, report>>
  \/ Reporting!ReportSteps /\ UNCHANGED <<redeemVars, deviceVars>>
  \/ \E n \in DeletableNode, o \in Org :
       DeleteDevice(n, o) /\ UNCHANGED <<redeemVars, deviceVars, report>>
  \/ \E u \in User, o \in Org : MemberRemoved(u, o)

Spec == FaktsInit /\ [][Next]_vars

-----------------------------------------------------------------------------
(* Properties *)

\* However redemptions, acceptances and reports interleave, the client a token
\* is bound to stays a client of the token's user in the organization of the
\* token's composition; it may move to a composition of another organization
\* (create_developmental_client).
TokenClientFitsUser ==
  \A t \in Token : tokens[t] # None /\ tokens[t].client # None =>
    LET cl == clients[tokens[t].client] IN
    /\ cl # None
    /\ cl.user = TokenUser[t]
    /\ cl.org = OrgOf[TokenComp[t]]

\* Whom a client's token was minted for: the registration it is named after.
MintedFor(s, u, o) ==
  IF s \in Seed
    THEN SeedUser[s] = u /\ OrgOf[SeedComp[s]] = o
    ELSE reg[s].stage = "ended" /\ reg[s].user = u /\ reg[s].org = o

\* The client an answer is read from may be registered anew, moved to another
\* composition or rolled back by a report before the answer is given, and the
\* secret in it may be a replaced one; but no answer hands out a secret that
\* was minted for another user or another organization than it is for.
SecretsStayHome ==
  /\ \A g \in grants : MintedFor(g.secret, TokenUser[g.tok], OrgOf[TokenComp[g.tok]])
  /\ \A a \in answers : MintedFor(a.row.secret, a.row.user, a.row.org)

\* A report records "functional flag + per-requirement alias reports"
\* (report_client): it changes neither the client's token nor its composition.
ReportKeepsRegistration ==
  [][\A p \in ReportRequest : Reporting!SaveReport(p) =>
       clients'[report[p].client] = clients[report[p].client]]_vars

=============================================================================
