------------------------------ MODULE OAuthTokens ------------------------------
(***************************************************************************)
(* OAuth clients, authorization codes and tokens (authapp): accepting an   *)
(* authorization request, the token endpoint with its three grants, and    *)
(* what an API request makes of the JWT it brings.                         *)
(*                                                                         *)
(* authlib runs a grant as: query the code or the refresh token, generate  *)
(* and save the new token, delete the code or save the old token revoked.  *)
(* Nothing is locked and each of these statements commits by itself.       *)
(* Codes and tokens expire by the clock: a code, a refresh token or a JWT  *)
(* that is looked at may be refused at any time.                           *)
(***************************************************************************)
EXTENDS Accounts

-----------------------------------------------------------------------------
(* Clients *)

\* Either secret will do, and every client may use all three grants.
Authenticated(c) == c \in oauth

BeginRegister(r, m) ==
  /\ Begin(r, [Asked("register") EXCEPT !.row = m])
  /\ UNCHANGED <<orgVars, oauthVars>>

\* create_client inserts the OAuth client and the fakts client in a transaction.
RegisterClient(r) ==
  LET m == task[r].row
  IN  /\ At(r, "register")
      /\ IF m \in members
           THEN /\ oauth' = oauth \cup {r}
                /\ fakts' = [fakts EXCEPT ![r] = m]
                /\ Proceed(r)
           ELSE Fail(r) /\ UNCHANGED <<oauth, fakts>>
      /\ UNCHANGED <<orgVars, codes, tokens, loose, grants, claims>>

BeginDrop(r, c) ==
  /\ Begin(r, [Asked("drop") EXCEPT !.client = c])
  /\ UNCHANGED <<orgVars, oauthVars>>

\* A composition or a release is deleted and takes the fakts client along.
DropClient(r) ==
  LET c == task[r].client
  IN  /\ At(r, "drop")
      /\ fakts' = [fakts EXCEPT ![c] = None]
      /\ loose' = loose \cup {c}
      /\ Proceed(r)
      /\ UNCHANGED <<orgVars, oauth, codes, tokens, grants, claims>>

-----------------------------------------------------------------------------
(* accept_authorize_code *)

BeginAccept(r, m, c) ==
  /\ Begin(r, [Asked("accept") EXCEPT !.org = m.org, !.user = m.user, !.client = c])
  /\ UNCHANGED <<orgVars, oauthVars>>

FindMembership(r) ==
  /\ At(r, "member")
  /\ \/ /\ task[r].client \in oauth
        /\ \E m \in RowsOf(task[r].org, task[r].user) :
             Go(r, [task[r] EXCEPT !.row = m]) /\ UNCHANGED seen
     \/ /\ task[r].client \notin oauth \/ RowsOf(task[r].org, task[r].user) = {}
        /\ Fail(r)
  /\ UNCHANGED <<orgVars, oauthVars>>

\* The code refers to the membership by a foreign key, to the client by name.
IssueCode(r) ==
  LET k == [member |-> task[r].row, client |-> task[r].client]
  IN  /\ At(r, "issue")
      /\ IF k.member \in members
           THEN /\ codes' = [codes EXCEPT ![r] = k]
                /\ grants' = [grants EXCEPT ![r] = k]
                /\ Proceed(r)
           ELSE Fail(r) /\ UNCHANGED <<codes, grants>>
      /\ UNCHANGED <<orgVars, oauth, fakts, tokens, loose, claims>>

-----------------------------------------------------------------------------
(* issue_token: the authorization_code grant *)

BeginExchange(r, k, c) ==
  /\ Authenticated(c)
  /\ Begin(r, [Asked("exchange") EXCEPT !.cred = k, !.client = c])
  /\ UNCHANGED <<orgVars, oauthVars>>

\* Mutant: the code is looked up by itself.
QueryCodeOfAny(r) ==
  LET k == task[r].cred
  IN  /\ At(r, "query")
      /\ \/ /\ codes[k] # None
            /\ Go(r, [task[r] EXCEPT !.row = codes[k].member]) /\ UNCHANGED seen
         \/ Fail(r)
      /\ UNCHANGED <<orgVars, oauthVars>>

\* query_authorization_code
QueryCode(r) ==
  LET k == task[r].cred
  IN  /\ At(r, "query")
      /\ \/ /\ codes[k] # None /\ codes[k].client = task[r].client
            /\ Go(r, [task[r] EXCEPT !.row = codes[k].member]) /\ UNCHANGED seen
         \/ Fail(r)
      /\ UNCHANGED <<orgVars, oauthVars>>

\* What the JWT says, and the ID token: the user, the slug his organization
\* has now, and the client.
ClaimsOf(m, c) == [user |-> m.user, slug |-> orgs[m.org].slug, client |-> c, org |-> m.org]

\* generate_token and save_token, of every grant.
SaveToken(r) ==
  LET m == task[r].row
  IN  /\ At(r, "token")
      /\ IF m \in members
           THEN /\ tokens' = [tokens EXCEPT ![r] =
                      [member |-> m, client |-> task[r].client, revoked |-> FALSE,
                       from |-> task[r].cred]]
                /\ claims' = [claims EXCEPT ![r] = ClaimsOf(m, task[r].client)]
                /\ Proceed(r)
           ELSE Fail(r) /\ UNCHANGED <<tokens, claims>>
      /\ UNCHANGED <<orgVars, oauth, fakts, codes, loose, grants>>

\* Mutant: the code stays until it expires.
KeepCode(r) == At(r, "spend") /\ Proceed(r) /\ UNCHANGED <<orgVars, oauthVars>>

\* delete_authorization_code
SpendCode(r) ==
  /\ At(r, "spend")
  /\ codes' = [codes EXCEPT ![task[r].cred] = None]
  /\ Proceed(r)
  /\ UNCHANGED <<orgVars, oauth, fakts, tokens, loose, grants, claims>>

\* A token that was answered: one that was saved by a request that failed or
\* was cut after it is in nobody's hands.
Received == {t \in Inserter : claims[t] # None /\ (t = Old \/ task[t].status = "done")}

\* client_credentials answers no refresh token.
Refreshable == {t \in Received : t = Old \/ task[t].op # "credentials"}

-----------------------------------------------------------------------------
(* issue_token: the refresh_token and client_credentials grants *)

BeginRefresh(r, t, c) ==
  /\ Authenticated(c)
  /\ Begin(r, [Asked("refresh") EXCEPT !.cred = t, !.client = c])
  /\ UNCHANGED <<orgVars, oauthVars>>

\* authenticate_refresh_token, and check_client of the token it found.
QueryRefreshToken(r) ==
  LET t == task[r].cred
  IN  /\ At(r, "active")
      /\ \/ /\ tokens[t] # None /\ ~tokens[t].revoked
            /\ tokens[t].client = task[r].client
            /\ Go(r, [task[r] EXCEPT !.row = tokens[t].member]) /\ UNCHANGED seen
         \/ Fail(r)
      /\ UNCHANGED <<orgVars, oauthVars>>

\* revoke_old_credential saves the row that was read: a token that went with
\* its membership, which a save brought back, is inserted again.
RevokeToken(r) ==
  LET t == task[r].cred
      old == [member |-> task[r].row, client |-> task[r].client, revoked |-> TRUE,
              from |-> IF t = Old THEN None ELSE task[t].cred]
  IN  /\ At(r, "revoke")
      /\ IF old.member \in members
           THEN tokens' = [tokens EXCEPT ![t] = old] /\ Proceed(r)
           ELSE Fail(r) /\ UNCHANGED tokens
      /\ UNCHANGED <<orgVars, oauth, fakts, codes, loose, grants, claims>>

BeginCredentials(r, c) ==
  /\ Authenticated(c)
  /\ Begin(r, [Asked("credentials") EXCEPT !.client = c])
  /\ UNCHANGED <<orgVars, oauthVars>>

\* resolve_membership: a client that is attached to nothing is refused.
ResolveMembership(r) ==
  LET c == task[r].client
  IN  /\ At(r, "resolve")
      /\ IF c \in oauth /\ fakts[c] # None
           THEN Go(r, [task[r] EXCEPT !.row = fakts[c]]) /\ UNCHANGED seen
           ELSE Fail(r)
      /\ UNCHANGED <<orgVars, oauthVars>>

-----------------------------------------------------------------------------
(* AuthAppExtension: the context of an API request *)

BeginApi(r, t) ==
  /\ Begin(r, [Asked("api") EXCEPT !.cred = t])
  /\ UNCHANGED <<orgVars, oauthVars>>

\* The organization is looked up by the slug the JWT carries.
ExpandOrganization(r) ==
  /\ At(r, "organization")
  /\ \/ \E o \in Named(claims[task[r].cred].slug) :
          Go(r, [task[r] EXCEPT !.org = o, !.user = claims[task[r].cred].user])
          /\ UNCHANGED seen
     \/ Fail(r)
  /\ UNCHANGED <<orgVars, oauthVars>>

ExpandClient(r) ==
  LET c == claims[task[r].cred].client
  IN  /\ At(r, "client")
      /\ IF c \in oauth /\ fakts[c] # None
           THEN Go(r, [task[r] EXCEPT !.client = c]) /\ UNCHANGED seen
           ELSE Fail(r)
      /\ UNCHANGED <<orgVars, oauthVars>>

\* Mutant: whatever membership the user has.
ExpandAnyMembership(r) ==
  /\ At(r, "membership")
  /\ \/ \E m \in members : m.user = task[r].user
          /\ Go(r, [task[r] EXCEPT !.row = m]) /\ UNCHANGED seen
     \/ (\A m \in members : m.user # task[r].user) /\ Fail(r)
  /\ UNCHANGED <<orgVars, oauthVars>>

ExpandMembership(r) ==
  LET rows == RowsOf(task[r].org, task[r].user)
  IN  /\ At(r, "membership")
      /\ \/ \E m \in rows : Go(r, [task[r] EXCEPT !.row = m]) /\ UNCHANGED seen
         \/ rows = {} /\ Fail(r)
      /\ UNCHANGED <<orgVars, oauthVars>>

-----------------------------------------------------------------------------
(* user_info *)

BeginInfo(r, t) ==
  /\ Begin(r, [Asked("info") EXCEPT !.cred = t])
  /\ UNCHANGED <<orgVars, oauthVars>>

\* The JWT is looked up as it was saved; it may have expired, or lack the scope.
ValidateToken(r) ==
  LET t == tokens[task[r].cred]
  IN  /\ At(r, "validate")
      /\ \/ /\ t # None /\ ~t.revoked
            /\ Go(r, [task[r] EXCEPT !.row = t.member]) /\ UNCHANGED seen
         \/ Fail(r)
      /\ UNCHANGED <<orgVars, oauthVars>>

\* The membership is read after the token: it may be gone.
DescribeUser(r) ==
  LET m == task[r].row
  IN  /\ At(r, "describe")
      /\ IF m \in members
           THEN /\ Go(r, [task[r] EXCEPT !.user = m.user, !.org = m.org,
                            !.slug = orgs[m.org].slug])
                /\ UNCHANGED seen
           ELSE Fail(r)
      /\ UNCHANGED <<orgVars, oauthVars>>

-----------------------------------------------------------------------------
OAuthArrive(r) ==
  \/ \E m \in members : BeginRegister(r, m)
  \/ \E c \in oauth : fakts[c] # None /\ BeginDrop(r, c)
  \/ \E m \in members, c \in oauth : BeginAccept(r, m, c)
  \/ \E k \in Inserter, c \in oauth : grants[k] # None /\ BeginExchange(r, k, c)
  \/ \E t \in Refreshable, c \in oauth : BeginRefresh(r, t, c)
  \/ \E c \in oauth : BeginCredentials(r, c)
  \/ \E t \in Received : BeginApi(r, t) \/ BeginInfo(r, t)

OAuthStep(r) ==
  \/ RegisterClient(r) \/ DropClient(r) \/ FindMembership(r) \/ IssueCode(r)
  \/ QueryCode(r) \/ SaveToken(r) \/ SpendCode(r)
  \/ QueryRefreshToken(r) \/ RevokeToken(r) \/ ResolveMembership(r)
  \/ ExpandOrganization(r) \/ ExpandClient(r) \/ ExpandMembership(r)
  \/ ValidateToken(r) \/ DescribeUser(r)

=============================================================================
